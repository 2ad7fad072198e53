# LUVE in TLA+

This directory is a verification development of LUVE, a voice tutor: a browser
talks to a realtime gateway over WebRTC, an extension in the gateway's process
hears the learner and lets the tutor answer, a finished session is handed to a
grading worker over RabbitMQ, and the client polls for its grade. The modules
model the code under `services/` and `client/` as it is, TLC checks small
instances, and TLAPS proves the safety properties for every value of the
constants.

## 1. The system

| Component | State it keeps | Operations | Interacts with |
| --- | --- | --- | --- |
| Tables and queue (`infrastructure/db-init/01-init.sql`, the `*_repository.py` files) | rows of SESSIONS, SESSION_OUTBOX, GRADING_RESULTS, GRADING_SKIP_LOG; the queue `luve.session.completed` and its dead-letter queue | SQL statements and transactions; publish, ack, reject, requeue | everything below |
| Completion (`luve_extension._persist_event_log`, `session_event_publisher.py`) | the active session, an open transaction | one transaction: UPDATE SESSIONS, INSERT SESSION_OUTBOX; then an inline publish with one retry | tables, queue |
| Outbox relay (`worker.relay_forever`) | one transaction per cycle | claim with FOR UPDATE SKIP LOCKED, publish, mark, commit | tables, queue |
| Grading worker (`worker.consume_forever`) | the message it works on, its attempt number | fetch, skip, mark processing, grade, store, mark failed, ack/reject/requeue | tables, queue, graders |
| Repair tools (`scripts/reconciliation_scanner.py`, `scripts/backfill_completed_sessions.py`) | a snapshot of candidates | candidate query, then the worker's job for each | tables |
| Eligibility and graders (`session_eligibility.py`, `evaluation_input_builder.py`, `llm_grader.py`, `fake_grader.py`) | none | evidence in a stored log, input for the model, its answer read | worker, LLM provider |
| Status API (`session_service.get_session_grading_status`) | none | the status and the word count a client polls | tables |
| WebRTC gateway (`realtime/adapters/ten_compat.py`) | sessions by id, peer connections, tasks | offer, SDP exchange, commands, connection state callbacks, close | extension, SESSIONS |
| Outbound track (`OutboundAudioTrack`, same file) | a bounded queue of frames, a lock, a closed flag | enqueue_pcm, recv, flush, clear, close | extension, the connection's sender |
| TEN extension (`ten_ext/luve_extension.py`) | active session, event log, dialogue, utterance state, LLM tasks | START, END_SESSION, FLUSH, BARGE_IN, audio frames, stop | all of the realtime side |
| Inference queue and STT gate (same file) | a queue of one place, the loop's job | enqueue partial/final, decode, verify, judge the text | decoder, event log, tutor |
| LLM tutor and TTS pipeline (`media/brain.py`, `media/tts.py`, same file) | the text streamed so far; phrase buffer, phrase queue, worker, force-flush timer | stream, diff, fall back; feed, flush, stop | extension, track |
| Browser client (`lib/realtime.ts`, `PracticeScreen.tsx`) | microphone, connection and channel of each session; screen, timers, grading request number | connect, teardown, disconnect, loadGrading, history | gateway, API |
| Auth, legacy `/ws/chat`, decoder, control center | | | see section 6 |

What is hard about it:

* a completion must reach the graders although the gateway may die at any
  statement, the broker may be away, and a publish that timed out may have
  arrived;
* several graders (worker processes, a scanner, a backfill) run the same job
  with one transaction per call, so they interleave between the calls, with
  redelivered messages and crashes on top;
* the gateway forgets a session before the extension has finished ending it,
  and the extension has one set of per-session variables for all of them;
* the extension is a dozen coroutines over the same variables: frames come in
  while a final is decoded, a barge-in waits for the synthesis it interrupts, a
  timer puts text into a queue that is full, an END_SESSION waits for replies
  that swallow their own cancellation;
* what the learner is graded on is decided by a gate of some forty thresholds
  and word lists, and read again by three parties with rules of their own;
* in the browser every await of `connect()` may be crossed by the end of its
  session, and answers of the API arrive in any order.

What makes each component correct:

* completion: the outbox row is durable exactly when the completion is; nothing
  is announced before it is committed;
* relay: no row is marked published without the broker having the message; a
  finished row is never taken back; a pending row ends published or failed;
* worker: no message is given up without a record; a result is final; only
  completed sessions with enough evidence are graded; each published session
  is settled in the end;
* pipeline: each committed completion is accounted for at every moment, and the
  polling client sees a phase that moves only forward;
* gateway and extension: one connection is admitted at a time; an active session
  always has someone left who ends it; END_SESSION ends its own session (it does
  not always, see the findings);
* inference queue: each put has its `task_done`, so that the `join()` of
  END_SESSION ends, and the stop job gets through;
* gate, eligibility, graders: what counts as evidence is English that was heard,
  all readers count the same words, and a stored report agrees with itself;
* tutor and synthesis: words are spoken once and in their order, a turn is logged
  in the session it was asked in, the microphone is never blocked for good;
* track: frames are heard in order, and no producer waits for ever on a closed
  track;
* client: an open microphone belongs to the session on the screen; START and
  END_SESSION go out once and in order; transcript and grade are those of the
  session in view.

## 2. Modules

| Module | Models | Notes |
| --- | --- | --- |
| `SessionTables` | the shared tables and the queue | `queue` counts ready copies of a message; `accepted` is a history of what the broker ever took |
| `CompletionDelivery` | completion and relay | `hpc`, `hjob`, `htx` are the handlers of END_SESSION with their open transaction; `claim[r]` is what relay `r`'s transaction did with each row |
| `GradingWorker` | consumers and repair tools | `wpc` is the awaited call the grader is at; `held` says whether its delivery is still unacknowledged in a live channel |
| `GradingPipeline` | both, over shared tables, with the status API | interleaving composition; `StatusView` is what the client is told |
| `GradingContract` | the abstract promise to a polling client | per session: waiting, processing/failed, graded |
| `RealtimeSession` | gateway and extension: how sessions begin and end | EXTENDS `CompletionDelivery` and uses its handler actions; `registry` is the gateway's `_sessions`, `active` the extension's `_session_id` |
| `STTGate` | the text filters between decoder and event log | pure operators over word classes and figures |
| `TurnEvidence` | what a log proves | pure operators: eligibility, evaluation input, the status page's count |
| `GradeReport` | the graders | pure operators: an answer read, scores, feedback, the placeholder grade |
| `SpeechTurn` | voice activity, inference queue and loop, event log, end and stop, the grading of what was stored | EXTENDS the three above |
| `TutorReply` | the tutor's replies, phrases, synthesis, barge-in, end of session | `reply` has the coroutines, `timer`, `strays`, `tail` the tasks beside them |
| `OutboundTrack` | broadcasts, frame queue, sender | `waiting` is the order of the lock's waiters |
| `RealtimeClient` | the sessions of `createRealtimeSession` | operators and actions on `calls` |
| `PracticeScreen` | the screen around them | EXTENDS `RealtimeClient` |
| `*_proofs` | the theorems | see section 5 |
| `MC*` | symmetry sets and the data of the runs | |

Definitions marked as mutants are changed forms of the definition beside them,
each the way a plausible bug would change it; they show that the properties
notice, and no specification uses them.

### How state and actions correspond to the code

`CompletionDelivery`. `Start(s)` is the START command. `BeginPersist` is a
handler that reaches `_persist_event_log`; it takes whatever session is active
at that moment, as the code reads `self._session_id` there, and a second handler
may do so while the first still runs. `ExecUpdate`, `ExecEnqueue`, `Commit` are
the statements of the transaction; `ExecUpdate` waits for the row lock.
`PersistFails` is any exception before the commit (rolled back, swallowed);
`CommitReplyLost` is an exception raised by a commit that took effect.
`PublishConfirmed`, `PublishRaises`, `PublishGivesUp` are
`publish_session_completed` with its single retry; a publish that raises may
still have reached the broker. `HandlerDone` is the reset of the extension.
The stop of the runtime persists through the same function: it is the handler
`Stopper`, which resets the extension by a step of its own (`StopResets`), since it
drains loop and replies first. `Spoken` says which of the `Transcripts` the sessions
come to.
`Restart` and `Reopen` are a reconnect that races the end of its session, as
`RealtimeSession` shows it to happen: the completion is committed, and then START
comes again or the reservation (or a failed SDP exchange) puts the row back to a
joinable status. This is why the properties speak of `Committed(s)`, a stored
transcript, and not of the status. A second completion of such a session finds
its outbox row there (ON CONFLICT DO NOTHING) and only publishes inline.
`Claim`, `RelayPublishConfirmed`, `RelayPublishFails`, `RelayCommit` and
`RelayAbort` are `_relay_drain_once`.

`GradingWorker`. `Fetch`, `LogSkip`, `Mark`, `Grade`, `Upsert` and the failure
steps are `process_session_completed_job`, one step per awaited call, shared by
consumers and tools. `CallFails` is any of these calls raising, with or without
its effect. `Deliver`, `Reject`, `GiveUp`, `GiveUpFails`, `Finish` are the
consumer around it; `ConnectionLost` lets the broker requeue a message whose
handler goes on. `Scan` and `ProcessCandidate` are the tools. `Complete`,
`Published`, `PublishPoison` and `SoftDelete` are the environment when the
component is checked alone; in the pipeline `CompletionDelivery` takes the place
of the first two. Alone, a transcript is written once; in the pipeline a second
completion may replace it, so `OnlyEvidenceGraded` is a property of the worker
alone.

`RealtimeSession`. A connection `k` goes through `create_session` by its `phase`:
`Offer` (lock taken, capacity checked, row read), `Reserve` or `ReserveFails`,
`Register` (registration and START, with no await between them), then `SdpDone`
or `SdpFails`, `MarkReady`, `FailedClose`. `StateCallback` and `CloseDone` are
`close_session` before and after its awaits: the entry is popped at once, the
extension is told last. `ClientStart` and `ClientEnd` are the commands of the
browser; it sends END_SESSION before it tears the connection down, so two
END_SESSION handlers for one session are the normal case. `ending[h]` is the
session whose command started handler `h`; `PersistActive`, then
`CompletionDelivery`'s `HandlerStep` and `HandlerFault` with `ResetWhenDone`, are
the rest of `_handle_session_end`. `StopBegins`, `StopStep` and `StopFault` are
`_async_stop` when the server shuts down: it persists whatever session is active,
without a look at the handlers that may be ending it, drains loop and replies and
resets. The server stops taking offers before and waits for those it is answering
(`Answering`); `close_all`, which comes after, closes each registered connection as
`StateCallback` and `CloseDone` do, and its END_SESSIONs meet a stopped extension. A
process that starts after the stop finds what one finds after a crash, the rows and
nothing else, so that the model ends with the stop or goes on by `Crash`. `Crash`
is the death of the process. What is
said and answered meanwhile is the matter of `SpeechTurn` and `TutorReply`.

`SpeechTurn`. `Ingest(voiced)` is `_ingest_audio_frame` with the voice activity
detector's verdict as its input: `Voiced` and `Silent` are its two halves,
`Finalize` is the handing over of a final. A frame that barges in waits for the
speech to stop (`SilenceTutor`, `BargedIn`) while others come in. `EnqueueFinal`
and `EnqueuePartial` are `_enqueue_inference_job`, `Take` to `GoOn` the inference
loop: `loop.at` is the await it is at. `DecodesFinal(d)` runs the gate
(`Screened`, `Doubtful`, `Turns` of `STTGate`) on a decode, `Verified(v)` on the
second one. `Flush` is the FLUSH command, `EndSession` to `EndCloses` are
`_handle_session_end`, `StopPersists` to `Stopped` are `_async_stop`, which puts a
stop job through the same queue. Neither frames nor FLUSH look for a session: they
are heard after its end, too, and make jobs, until the stop takes the queue away; and
the stop does not look whether an END_SESSION is under way. `Grade` is what a worker makes of the stored
log. The frame that starts an utterance is appended twice, as the pre-roll has it
already, and a suppressed final resets the utterance that is collected by then:
both are so in the code.

`STTGate`. A text is a sequence of words, a word is known by what the code's word
lists and character tests say of it, a figure of the decoder is an integer in
hundredths or milliseconds or `None`. `Split` is the extraction of the English
part of a mixed text, `Rejected` the chain of filters of `_stt_rejection_reason`,
`Assess` the quality record that is logged with the turn. A word has a field for each
test the code makes of it, `isascii` and `isalpha` among them (`covid19` in
`MCSpeechTurn` is one and not the other). A canned phrase, which the code looks for
among the characters of a text, is found word by word. Where the code tests the
same condition twice the model states it once and says so.

`TutorReply`. The answer of the model is a sequence of pieces: words, and the
marks of its format, one of which may come split over two chunks. `Extract`,
`Diff`, `Parse` are brain.py's, `Phrases` cuts text the way the pipeline does.
`Answer`, `AnswerLocally`, `Greet` create a reply; `TellWhole`, `Streams`, `Fails`,
`Put`, `Restart`, `Settle`, `CloseText`, `Finish` are its coroutine from await to
await; `TimerFires` and `StrayFires` are the force flush, also of a timer no
variable refers to any more; `Synthesise` to `SendPhrase` are the worker;
`BeginStop`, `Silent`, `BargedIn`, `EndCancels`, `Gathered`, `EndSession` are a
barge-in and an END_SESSION. A cancellation is a mark that the coroutine meets at
its next await; in two places the code swallows it (`suppress(CancelledError)`),
and the reply goes on. `Moving` is the event loop's rule that a task without a
wait goes on before another does.

`OutboundTrack`. Every chunk of speech is a task that broadcasts it (`Broadcast`,
the order of `waiting`); `Enqueue` takes the lock and puts what fits, `GoesOn` is
the same task when there is room; `Take` and `Play` are recv before and after it
waits for the frame's time (the silence it sends when the queue is empty, and the
resampling of a chunk, change no state that is modelled and are left out); `Flush` and `Close` are the two ways the queue is
emptied from outside.

`RealtimeClient`, `PracticeScreen`. `calls[c].at` is the await `connect()` is at.
`MicGranted`, `Offered` and the like are what comes back, `Refused` a failure the
code catches (the microphone denied, `MicDeniable`; the offer not delivered or
refused, `OfferRefusable`), `Raised` one it does not. `Torn` is teardown. `ChannelLost`
is a control channel that the other side closes: commands go over HTTP then. A
message that comes as a Blob is read by a promise and may overtake a later one
(realtime.ts:445); the gateway sends text, and Blobs are left out. On the screen,
`EndSession`, `PracticeAgain`, `SelectHistory`, `Unmount` and `LeavePage` are the
learner's, `BeforeUnload` is the same handler on a page that stays,
`CreatedSignedOut` and `CreatedUnmounted` are a session that is created after the
learner signed out, or signed out and in again, `ConnectCaught` is the catch block around `connect()`, `LoadGrading`
starts a poll under a new number, and a poll whose number is no longer current
ends without a word (`StaleLoadEnds`). `calls[c].lost` remembers how a session
slipped out of the screen's hands, for the properties' exceptions.

### What is abstracted

In the pipeline a transcript is one of three classes: `short` (too few words for
the API's count and for the worker's), `unreliable` (enough for the API, too few
that the worker accepts as evidence), `rich`; `SpeechTurn` has the transcripts
themselves. A message is its session or `Poison`. Backoff delays, heartbeats and
batch pauses are left out, since no step depends on how long they are; a timeout
is a fault that may strike whenever the call is open. The wall-clock interval of
partials is a choice. Audio is counted in frames. PostgreSQL, RabbitMQ, the
decoder, the model's provider, the synthesis and the browser's APIs are external
and modelled by what the code sees of them. `RealtimeSession`, `SpeechTurn` and
`TutorReply` each have the part of the extension they are about and meet in
few places: `TutorSpeaks` and `TutorAnswers` stand for `TutorReply` in
`SpeechTurn`, `Answer` stands for a judged final in `TutorReply`.

## 3. Runs

`CHECK_DEADLOCK FALSE` stands in every configuration because the system really
stops: when all sessions are completed and settled there is nothing left to do.

| Run | Question | Bounds |
| --- | --- | --- |
| `delivery_safety` | Do completion, overlapping handlers, the stop of the runtime and racing relays keep outbox and sessions consistent? | 2 sessions, 2 handlers and the stop, 2 relays, batch 2, 2 attempts, 2 faults |
| `worker_safety` | Do two workers and a tool on one session keep the record of it sound? | 1 session, 2 consumers, 1 tool, 2 attempts, 2 copies, 2 faults |
| `pipeline_safety` | Is every completion accounted for between commit and outcome, and does the status a client polls implement `GradingContract`? | 1 session, 1 handler, 1 relay, 1 consumer, 1 tool, 2 faults |
| `pipeline_liveness` | Does every completion reach the broker or end as a failed row, is it settled in the end, and is it graded once by a worker that runs alone? | 1 session, 1 handler, 1 relay, 1 consumer, 2 attempts, 3 faults |
| `realtime` | Do offers, failures and closes in any order keep registry, extension and rows consistent, and is the session of a closed connection ended? | 2 sessions, 2 connections, 2 handlers and the stop, 1 fault |
| `turn` | Is a session right from the microphone to its report? | 5 frames of 250 ms, 2 to start, 2 of silence, 1 of pre-roll, 4 at most in an utterance, finals of 3 |
| `reply` | Is what the tutor says spoken, logged and ended right, whatever crosses it? | 2 sessions, 2 replies, 1 place in the phrase queue, phrases of 2 words, 2 kept turns |
| `track` | Do frames keep their order and producers end? | 4 chunks of up to 3 frames, 4 places, 1 flush |
| `client` | Do microphone, commands, transcript and grade belong to the session on the screen? | 2 sessions, 2 polls at a time |
| `double_grading` | README.md:30, "do not double-grade" | 1 session, 1 consumer, 1 tool, no fault |
| `end_of_other` | END_SESSION belongs to one session (`docs/ai/EXPERIENCE.md:164`) | 2 sessions, 2 connections, 2 handlers, no fault |
| `mic_left_open` | realtime.ts:662, "stop every microphone track" | those of `client` |

Why the bounds are enough to show the cases that matter. Two attempts are the
least with which "retry" and "attempts used up" differ, for the relay and for
the worker. Two handlers, relays or graders are what a race needs; the
locks and WHERE clauses they race over are per row, so one or two sessions
show all of it. Two sessions in `delivery_safety` let a slow handler meet a
session that became active after its own. Two connections are what a reconnect
or a competing offer needs; `Conns` bounds the offers of a behaviour, as each is
used once. `MaxFaults` bounds the crashes, failed
calls, lost connections and reconnects into a committed session of a behaviour: two let a failure strike during the
recovery from another one; three in `pipeline_liveness` use up a row's attempts
after a failed inline publish. A stop that persists a session counts as a
fault, whatever fails in it included.
In the pipeline's runs there is none (`Stopper = NoSession`), as graders cannot tell
which handler completed a session. `Spoken` is one class where no property looks at
transcripts (`realtime`), two in `delivery_safety`, so that a second completion may
replace a transcript by another, and all three in the pipeline. `MaxCopies` bounds the copies of a message in the
queue at the same time, not in total.

In `turn` five frames (`MaxFrames`) make an utterance that reaches its limit, one
that silence ends, one that is too short, and a second one behind the first; the
decodes of `MCSpeechTurn` lie on both sides of the thresholds they meet, with one
word for each kind of entry of the code's word lists; barge-in and second pass are
switched on there; the shipped `property.json` has both off, which takes away
steps and adds none. In `reply` one place in the phrase queue and phrases of
two words make every put wait once; `MaxReplies` and `MaxSessions` let a task of
the first session live on into the second. In `track` three frames of one chunk
and four places give a broadcast that fits, one that waits half way, and others
behind it. `MaxLoads` bounds the polls under way at the same time. The proofs
remove these bounds for the safety properties they cover; `MaxFaults`,
`MaxFrames` and the like are arbitrary there.

### Fairness

Handlers, relays and consumers are coroutines of event loops, and each call
they await returns, raises or times out. So each process that can take a step
takes one in the end: weak fairness on `HandlerStep`, `RelayStep`,
`ConsumerStep`. `RTFairness` asks the same of `close_session` and of the END_SESSION
handlers, whose wait for the inference queue has a timeout, and of the stop once it has
begun. `GradingFairness` asks for strong fairness of `Deliver(c, m)`
for each message as well: a RabbitMQ queue is first in, first out, so no message
is passed over for ever. Nothing is assumed of sessions starting or ending, of
faults, of an operator or of the repair tools, which somebody has to run by
hand or by cron. `RelayFault` and
`ConsumerFault` are bounded in number; without this a broker that is never
reachable would of course hold up everything.

Inside the extension the same event loop runs every task that can go on. So
`SpeechTurn` has weak fairness of the inference loop (`LoopStep`; the decoder
answers, fails or is timed out) and of a command under way (`EndStep`), and
`TutorReply` of each reply, of timer and synthesis, of the release of the
microphone, and of END_SESSION. `OutboundTrack` asks it of the broadcasts and
of the sender, which calls recv again and again while its connection is open.
No frame, command or barge-in is assumed to come. `PracticeScreen` has none:
a browser may never answer, and nothing is claimed to happen in the end.

### Findings

* `double_grading`. The README of the repository (line 30) says duplicate
  messages do not double-grade. The code dedupes only against a row that is
  already `graded`: `mark_grading_processing` accepts a row in `processing`, and
  `upsert_grading_result` overwrites. A worker and the scanner at work on the
  same session both grade and both store. `PipelineGradesOnce` proves that the
  claim holds for a single worker without tools, and `pipeline_liveness` checks
  it there.
* `end_of_other`. `docs/ai/EXPERIENCE.md:164` asks that END_SESSION belong to one
  session. `_handle_session_end` compares session ids before its awaits, and
  persists and resets whatever session is active after them. Of two handlers for
  one session, the normal case, the delayed one completes the session that was
  started meanwhile with an almost empty transcript, or resets it: the rest of its
  transcript is never stored, and its own END_SESSION finds nothing to persist.
* `mic_left_open`. `client/src/lib/realtime.ts:662-663` says that on disconnect every
  microphone track is stopped. `connect()` awaits `getUserMedia` and goes on without
  a look at whether its session still is: a permission granted after the learner
  ended the session opens a microphone nobody stops.

Other behaviour met while modelling, for a reader of the code (no run is about it):

* The reset clears the event log, the utterance and the opener's flag, but not
  `_dialogue_history`: the next session's replies get turns of the last one as
  context.
* A result that the decoder gives after the five seconds of END_SESSION is tagged
  with whatever session is active by then; the job's own id is not looked at.
* The reset clears `_opener_sent`, so a client that reconnects while its session is
  being ended may be greeted twice.
* The scanner's query skips rows in `processing`, and a tool that stops between
  mark and store leaves such a row; only a lone worker never does
  (`LoneWorkerOwnsProcessing`).
* A final that meets a queued final is dropped silently: the branch that logs a
  warning needs a queue that is full and holds none.
* Text fed to the synthesis while END_SESSION waits is spoken in the next session;
  a force flush that is cancelled while it waits for room loses its text; when the
  stream takes back what it had sent (a marker split over two chunks, a failure
  half way) words are repeated (`retold`).
* A reply's `finally` opens the microphone while its audio still plays; after a
  barge-in the client is told of silence while queued broadcasts still play.
* In the browser an old `connect()` that fails late makes the screen forget the
  session it holds now, an exception outside the `try` blocks leaves the microphone
  open, and a channel that opens while END_SESSION travels over HTTP sends START
  behind it. `beforeunload` fires also where the page stays (a download, a learner who
  stays after all): the call is torn down, its state is still live, and the next
  `disconnect()` sends END_SESSION again (realtime.ts:636). A screen that was left
  while it created a session connects it when the learner has signed in again
  meanwhile, and holds nothing to end it by. The exceptions in the client's
  properties are exactly these.

## 4. Properties

| Property | Says | Kind |
| --- | --- | --- |
| `OutboxIffCommitted` | the outbox row is durable exactly for the completed sessions | invariant |
| `RecoveryState` | a completion the broker never took is pending with attempts left, or failed with none; published implies the broker has it | invariant |
| `NoMessageBeforeCommit` | no message for a session that is not committed with its transcript | invariant |
| `OutboxFinal` | published and failed rows are never taken back | action |
| `EventuallyDelivered` | completed leads to accepted or failed | liveness |
| `NothingDropped` | an accepted message is unacknowledged or has left a record | invariant |
| `OnlyEvidenceGraded` | processing and graded rows belong to completed sessions with evidence, never to skipped ones | invariant |
| `GradedFinal` | graded is final | action |
| `GradedOnce`, `ProcessingOwned` | one result per session, no orphaned `processing` row, for a lone worker | invariants |
| `EventuallySettled` | accepted leads to graded, failed or skipped | liveness |
| `NoOutcomeBeforeCompletion` | no outcome before the commit | invariant |
| `EveryCompletionAccounted` | a completed session is pending, given up, on its way, or recorded | invariant |
| `ContractSpec` | the client's view implements `GradingContract` | refinement |
| `CapacityOne` | at most one connection is past the capacity check | invariant |
| `ActiveIsTracked` | an active session is registered, being closed, being ended, or one whose SDP exchange failed, as long as the runtime is not stopped | invariant |
| `DeliverySteps` | gateway and extension implement `CompletionDelivery` | refinement |
| `ClosedSessionEnds` | a popped connection gets its session ended, unless its client is back or the runtime stops | liveness |
| `QueueAccounting` | what `join()` counts is what is queued and in work | invariant |
| `QueueDrains`, `StopEnds` | the queue comes to rest; the runtime's stop gets its job through a full queue | liveness |
| `EvidenceIsEarned` | a turn that counts is English that was heard | invariant |
| `CountsAgree` | status page, eligibility check and grader's input count the same words | invariant |
| `ReportHolds` | scores, overall score, feedback and schema of a report agree | invariant |
| `SpokenInOrder` | words of a reply wait in their order, none twice | invariant |
| `LoggedWhereAsked` | a tutor's turn is in the log of its session | invariant |
| `MicOpens`, `SessionEnds` | the tutor unblocks the microphone; END_SESSION ends | liveness |
| `FramesInOrder` | frames are heard in the order they were said, none twice | invariant |
| `RoomToFinish`, `EndComesFirst` | a broadcast on a closed track has room for the rest of it; the sender meets the end first | invariants |
| `BroadcastsEnd` | no broadcast waits for ever | liveness |
| `MicIsOwned` | an open microphone is the held session's, or one whose END_SESSION is on its way | invariant |
| `CommandsInOrder` | START and END_SESSION once each, in order; no started session without its end | invariant |
| `TranscriptIsOwn`, `GradingIsOfView` | transcript and grade on the screen are those of its session | invariants |
| `EndIsScoped`, `MicReleased` | the claims the findings refute, beside `GradedOnce` | |

One type invariant each: `SpeechTypeOK`, `ReplyTypeOK`, `ClientTypeOK` are checked
by the runs; those of the older components and of the track are proved (section 5)
and the runs do not repeat them.

The exception in `ActiveIsTracked` is real: when the SDP exchange fails after
START nothing tells the extension, which stays with that session, refusing any
other START, until its client connects again and leaves. So is the other one: a data
channel stays open until `close_all` gets to it, and START over it finds a stopped
extension and is obeyed; the process ends then. So are `crowded` in
`SpokenInOrder` and `LoggedWhereAsked` (puts that wait for room in the phrase queue
are not ordered among each other, and an opener is not cancelled at the end) and
`lost` in the client's properties.

## 5. Proofs

All theorems rest on the named assumptions of the modules: `TablesAssumption`
(the poison message is no session, `MaxFaults` is a natural number),
`DeliveryAssumption` (positive batch size and attempts, `NoSession` is no
session), `WorkerAssumption` (consumers are not tools, positive attempts,
the provider is one of two), `RealtimeAssumption` (`NoConn` is no connection),
`TrackAssumption` (a chunk is shorter than the queue: six frames against 128 as it is
configured, though the code sets `chunk_ms` no upper limit), `ScreenAssumption` (`Nobody`
is no session), `SpeechAssumption`, `LexiconAssumption` and `DecodesAssumption`
(thresholds are numbers of their kind, a word has a number of letters, a decode has
words of the lexicon and figures), `ReplyAssumption` and `ScriptAssumption` (a
phrase has two words at least and the queue a place, what the model streams is
chunks of pieces), two `NoneAssumption`s (`None` is no number) and
`NumberedAssumption`. The last one is a convention of the model and none about the
program: the words of an answer are numbered in the order in which the model gives
them, and those of the fallback, which comes after them, go on from there; only so
does "in order" mean anything. It says nothing of marks and line ends, which may
stand anywhere. Sets of sessions, handlers, relays, consumers and tools are
arbitrary, infinite ones included; so are the gate's word lists, what a decoder may
answer and what the language model may stream.

* `CompletionDelivery_proofs`. The inductive invariant adds to the type invariant
  what an open transaction knows: a handler past the commit works on a completed
  session; a row a relay has claimed is pending, and no other relay has it; a row
  marked `published` in a transaction is accepted. Without the
  claim part `OutboxFinal` and `RecoveryState` are not inductive: a relay could
  commit over a row another one finished. Proved: `DeliveryTypeCorrect`,
  `OutboxDurableIffCommitted`, `CompletionRecoverable`, `MessageAfterCommit`,
  `OutboxRowsFinal`.
* `GradingWorker_proofs`. `GWInv` has a part for each question: what `job` and
  `wpc` say about each other, where a session being worked on comes from (a
  completed, published or scanned one), when a grading row must exist, when an
  outcome is recorded, and what evidence stands behind each stage. Proved:
  `GradingTypeCorrect`, `NoMessageDropped`, `EvidenceRequired`, `ResultsFinal`.
  Under `LoneWorker` (no tools, one consumer) also `LoneWorkerGradesOnce` and
  `LoneWorkerOwnsProcessing`: neither holds once tools or a second worker run.
  `LoneInv`, their invariant, says that past `mark_grading_processing` the row has no
  result yet, and that a job which lost its message will be delivered again. It says
  nothing of the transcript, so that it stands in the pipeline as well.
* `RealtimeSession_proofs`. `RTInv` joins `CDInv` with the lifecycle: which session
  a connection belongs to, that a connection over which START can still come
  is registered, being closed, or of a session whose SDP exchange failed, and that
  only a handler of its own can be stopping. Without
  the latter `ActiveIsTracked` is not inductive, because a late START of the
  client could activate a session that nobody knows any more. Proved:
  `RealtimeTypeCorrect`, `OneConnectionAdmitted`, `ActiveSessionTracked`, the
  refinement `RealtimeImplementsDelivery`, and by it `RealtimeOutboxDurable`.
* `GradingPipeline_proofs` composes the two: `PipelineInv` is the conjunction of
  both invariants with the link between them (what is accepted is completed;
  what a grader works on is accepted or was scanned). `DeliveryEffect` says all
  that a delivery step can do to the tables the graders read. Proved:
  `PipelineTypeCorrect`, `OutcomeAfterCompletion`, `CompletionsAccounted` and the
  refinement `PipelineImplementsContract`, step by step: a delivery step moves a
  phase only before the first attempt, a grading step is an attempt, a success or
  a stutter. Under `LoneWorker` also `PipelineGradesOnce` and
  `PipelineOwnsProcessing`, which is what `pipeline_liveness` checks on one session.

* `OutboundTrack_proofs`. `TrackInv` adds to the properties that the broadcasts
  wait in the order they were said, that the lock is held only by the first of
  them, and that every frame queued or heard precedes the next frame of each
  waiting broadcast. Without the last part `FramesInOrder` is not inductive: a put
  could break the order. Proved: `TrackTypeCorrect`, `HeardInOrder`,
  `WaitingBroadcastHasRoom`, `EndMetFirst`.
* `SpeechTurn_proofs`. `SpeechInv` says of the utterance that silence bounds it
  beyond its limit, of the queue `QueueAccounting`, of the loop that the job it
  is at came out of the queue and the decode it verifies out of the decoder, and
  of the log that each turn is one the gate lets through or one of the tutor's.
  The lemma `TurnIsEarned` is about the gate alone and case by case through its
  filters; a verifying loop that did not remember where its figures come from
  could log anything. `TurnEvidence` counts over sets of places of the log, so that
  no induction over the log is needed: eligibility, status page and grader's input
  agree because a turn that is logged is eligible exactly when it is reliable, so
  that all three count the same places (`CountsAlwaysAgree`). A report holds because
  a weighted mean lies between the least and the greatest score and because each
  reader of an answer bounds what it takes over (`ReportsHold`). Proved:
  `SpeechTypeCorrect`, `QueueCountIsRight`, `EvidenceEarned`, `SplitIsEnglish` (what
  the gate leaves of a mixed text has no Vietnamese word), `CountsAlwaysAgree`,
  `ReportsHold`.
* `TutorReply_proofs`. `Inv` has four parts. `Types`. `OneOpener`: the opener's flag
  is claimed once for a session, so that the openers there ever were are bounded by
  the sessions begun; without it nothing bounds the dialogue history, which an
  opener extends without a cut. `LogInv`: a reply of the model that is not over has
  the session that is on, and that session is not yet being persisted; an opener that
  is being told is of the session that is on, unless the queue was full. This is what
  END_SESSION's wait establishes (`Gathered`), and it is inductive only with the
  event loop's rule that a task without a wait goes on first: `EndSession` finds no
  opener between two steps of its end. `LineInv`: the line is the phrase at work, the
  queue and the buffer; every word in it is one its reply has already said
  (`LineHolds`), and the text a reply has streamed so far ascends and comes from the
  chunks it has heard (`TextHolds`). Without `LineHolds` a fed word could precede one
  that waits; without `TextHolds` the next chunk could. `TimersHold` adds that only a
  full queue makes a timer wait with its phrase.

  The proof sees every step of a reply the same way (`Moves`): a record moves on and
  a text joins the line, cut into phrases; and every other step either leaves the line
  in order or takes words from it (`Keeps`). The lemmas on text say what
  each function returns for every input: the response is drawn from what was streamed
  (`ExtractIsDrawn`), phrases are stretches of the buffer one after the other
  (`PhrasesAreCut`), what is new of a text goes on where the old one ended
  (`NewGoesOn`). Proved: these, `RepliesTyped`, `LoggedWhereAskedAlways`,
  `SpokenInOrderAlways`.
* `PracticeScreen_proofs`. `ScreenInv` describes each call by its relation to the
  screen (`Sound`): a call not yet connected has nothing, a channel exists only
  with a microphone granted, a call the screen holds is none of the exceptions and
  has its microphone from the grant on, and one that still asks for it is held,
  being ended, ended, or an exception. Without the latter a late grant could open
  a microphone nobody accounts for. A current poll is of the session in
  view; without it a result that arrives could be another session's. Proved:
  `ClientTypeCorrect`, `MicrophoneIsOwned`, `CommandsAreInOrder`,
  `TranscriptStaysOwn`, `GradingStaysOfView`.

Only model-checked: the liveness properties (`EventuallyDelivered`,
`EventuallySettled`, `ClosedSessionEnds`, `QueueDrains`, `StopEnds`, `MicOpens`,
`SessionEnds`, `BroadcastsEnd`), as liveness under fairness is out of the prover's
reach. Every safety property a passing run checks is a theorem of the specification
the run checks it of.

## 6. Not modelled, and the plan

* Legacy `/ws/chat` (`media/coordinator.py`, `media/buffer.py`): nothing writes
  the Redis key `session:{id}` the endpoint asks for, `AudioBuffer` is constructed
  nowhere, and the client does not open the socket. No state of the system depends
  on it.
* Decoder (`media/stt_worker.py`): numeric; `SpeechTurn` takes from it any text with
  any figures, a failure, or an exception.
* Authentication and OAuth states: password hashes and token signing, and one-time
  states that are single GETDEL commands of Redis.
* Of the gateway: ICE candidates, ownership checks. Of the
  extension: metrics, events to the client, the voice preview. Of the tutor and the
  graders: prompts and HTTP. Of the client: muting, ICE restarts, warm-up, layout.
* The control center, style sheets, static pages and scripts that measure.

Hazards listed in PROJECT.json without a property have a note there that says why.

Next: `TutorReply` starts every session once, so that the opener's second greeting
after a reconnect and the stale dialogue of a next session are described here and
not yet checked; and that no word of an answer is lost between token and phrase when
nothing is flushed, interrupted or ended.
