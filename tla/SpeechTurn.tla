------------------------------- MODULE SpeechTurn -------------------------------
(***************************************************************************)
(* From the microphone to the transcript of one session, in                *)
(* luve_extension.py: the voice activity detector collects an utterance,   *)
(* the inference queue hands it to the decoder, the gate (STTGate) judges  *)
(* the text and the event log keeps it, until the session ends or the      *)
(* runtime stops.  Then a worker reads the stored log (TurnEvidence) and   *)
(* grades it (GradeReport).  All of it but the grading runs on one event   *)
(* loop: what happens between two awaits is one action.                    *)
(* Audio is counted in frames of FrameMs.                                  *)
(***************************************************************************)
EXTENDS GradeReport

CONSTANTS
    FrameMs,
    StartFrames,      \* vad_speech_start_frames
    SilenceFrames,    \* vad_silence_timeout
    PreRollFrames,    \* vad_pre_roll
    MaxUtterance,     \* stt_max_utterance, in frames
    PartialWindow,    \* stt_partial_window, in frames
    PartialFrames,    \* stt_partial_min_audio, in frames
    PartialSpeechMs,  \* stt_partial_min_speech_ms
    FinalSpeechMs,    \* stt_final_min_speech_ms
    FinalFrames,      \* stt_final_min_audio, in frames
    BargeIn,          \* assistant_barge_in_enabled
    SecondPass,       \* stt_enable_second_pass_verification
    Decodes,          \* the decoder's answers: a text with its figures
    Replies,          \* texts the tutor may answer with
    Answers,          \* what the grading provider answers, Failed for an error
    Providers,        \* grading providers: "llm", "fake"
    FakeFallback,     \* GRADING_FAKE_FALLBACK
    MinWords,         \* GRADING_MIN_STUDENT_WORDS
    MaxFrames         \* bound: the frames the microphone sends

ASSUME SpeechAssumption ==
    /\ FrameMs \in Nat \ {0} /\ StartFrames \in Nat \ {0} /\ SilenceFrames \in Nat \ {0}
    /\ PreRollFrames \in Nat /\ MaxUtterance \in Nat \ {0} /\ PartialWindow \in Nat \ {0}
    /\ PartialFrames \in Nat /\ PartialSpeechMs \in Nat /\ FinalSpeechMs \in Nat /\ FinalFrames \in Nat
    /\ BargeIn \in BOOLEAN /\ SecondPass \in BOOLEAN /\ FakeFallback \in BOOLEAN
    /\ MaxFrames \in Nat /\ MinWords \in Nat
    /\ Failed # None

ASSUME DecodesAssumption ==
    \A d \in Decodes :
        /\ d.text \in Seq(Words)
        /\ d.figures.logprob \in Int \union {None}
        /\ d.figures.lowRatio \in Int

VARIABLES
    mic,         \* the utterance being collected
    sent,        \* frames the microphone has sent
    assistant,   \* _is_assistant_speaking
    barging,     \* frames in _handle_barge_in: before and after the flag falls
    queue,       \* _inference_queue, of one place
    unfinished,  \* its count of jobs without task_done
    loop,        \* where _inference_loop is, with its job
    log,         \* _event_log
    owed,        \* finals handed to the tutor whose reply is not logged
    ending,      \* where END_SESSION is
    stopping,    \* where the runtime's stop is
    stored,      \* raw_backup_json
    report       \* the grading result

hearing == <<mic, sent, assistant, barging>>
jobs == <<queue, unfinished>>
outcome == <<stored, report>>
vars == <<hearing, jobs, loop, log, owed, ending, stopping, outcome>>

Quiet == [pcm |-> 0, speaking |-> FALSE, pending |-> 0, silence |-> 0,
          frames |-> 0, speech |-> 0, partial |-> FALSE, preRoll |-> 0]

Waiting == [at |-> "waiting"]
StopJob == [kind |-> "stop"]
Ended == ending = "closed" \/ stopping = "stopped"

Init ==
    /\ mic = Quiet /\ sent = 0 /\ assistant = FALSE /\ barging = [before |-> 0, after |-> 0]
    /\ queue = << >> /\ unfinished = 0
    /\ loop = Waiting
    /\ log = << >> /\ owed = 0
    /\ ending = "no" /\ stopping = "no"
    /\ stored = None /\ report = None

-----------------------------------------------------------------------------
(***************************************************************************)
(* The inference queue.                                                    *)
(***************************************************************************)
FinalQueued == \E i \in DOMAIN queue : queue[i].kind # "partial"

(* Mutant: a partial that is dropped is never done.                        *)
EnqueueFinalKeepingCount(job) ==
    IF FinalQueued \/ stopping = "stopped"
    THEN UNCHANGED jobs
    ELSE /\ queue' = <<job>>
         /\ unfinished' = unfinished + 1

(* Mutant: a final is put behind a job that waits.                         *)
EnqueueFinalBehind(job) ==
    IF FinalQueued \/ stopping = "stopped"
    THEN UNCHANGED jobs
    ELSE /\ queue' = Append(queue, job)
         /\ unfinished' = unfinished + 1

(* _enqueue_inference_job of a final: it takes the place of a partial, and *)
(* behind another final it is dropped without a word.  After the stop      *)
(* there is no queue.  The branch that warns of a lost final wants a queue *)
(* that is full and holds no final: a queue of one place is empty then.    *)
EnqueueFinal(job) ==
    IF FinalQueued \/ stopping = "stopped"
    THEN UNCHANGED jobs
    ELSE /\ queue' = <<job>>
         /\ unfinished' = unfinished - Len(queue) + 1

(* Of a partial: it is dropped while the decoder is busy or a job waits.   *)
EnqueuePartial(job) ==
    IF loop.at = "decoding" \/ queue # << >> \/ stopping = "stopped"
    THEN UNCHANGED jobs
    ELSE queue' = <<job>> /\ unfinished' = unfinished + 1

-----------------------------------------------------------------------------
(***************************************************************************)
(* The microphone.                                                         *)
(***************************************************************************)
(* _reset_current_utterance: the pre-roll stays.                           *)
Reset(m) == [Quiet EXCEPT !.preRoll = m.preRoll]

(* The speech in n frames of the utterance, at its average frame length.   *)
SpeechMs(m, n) == IF m.frames = 0 THEN 0 ELSE (m.speech * n * FrameMs) \div m.frames

Job(kind, m, n, suppress) ==
    [kind |-> kind, frames |-> n, speech |-> SpeechMs(m, n), suppress |-> suppress]

PreRoll(m) == [m EXCEPT !.preRoll = Least(@ + 1, PreRollFrames)]

Finalize(m, suppress) ==
    /\ EnqueueFinal(Job("final", m, m.pcm, suppress))
    /\ mic' = Reset(m)

(* A frame of speech.  The frame that starts an utterance is in its        *)
(* pre-roll and is appended again.                                         *)
Voiced(m) ==
    LET begun == IF m.speaking THEN m
                 ELSE [m EXCEPT !.speaking = TRUE, !.frames = 0, !.speech = 0,
                                !.pcm = IF @ = 0 THEN m.preRoll ELSE @]
        grown == [begun EXCEPT !.pending = @ + 1, !.pcm = @ + 1, !.silence = 0,
                               !.frames = @ + 1, !.speech = @ + 1]
        window == Least(grown.pcm, PartialWindow)
        (* The interval of partials is wall-clock time; the first is due.  *)
        mayBeDue == grown.pcm >= PartialFrames /\ SpeechMs(grown, grown.pcm) >= PartialSpeechMs
    IN  IF ~m.speaking /\ m.pending + 1 < StartFrames
        THEN mic' = [m EXCEPT !.pending = @ + 1] /\ UNCHANGED jobs
        ELSE IF grown.pcm >= MaxUtterance THEN Finalize(grown, FALSE)
        ELSE \/ /\ mayBeDue
                /\ EnqueuePartial(Job("partial", grown, window, FALSE))
                /\ mic' = [grown EXCEPT !.partial = TRUE]
             \/ /\ grown.partial \/ ~mayBeDue
                /\ mic' = grown
                /\ UNCHANGED jobs

(* A frame without speech; enough of them end the utterance.               *)
Silent(m) ==
    LET grown == [m EXCEPT !.pending = 0, !.pcm = @ + 1, !.silence = @ + 1, !.frames = @ + 1] IN
    IF ~m.speaking THEN mic' = [m EXCEPT !.pending = 0] /\ UNCHANGED jobs
    ELSE IF grown.silence < SilenceFrames THEN mic' = grown /\ UNCHANGED jobs
    ELSE IF SpeechMs(grown, grown.pcm) < FinalSpeechMs
         THEN mic' = Reset(grown) /\ UNCHANGED jobs
    ELSE Finalize(grown, FALSE)

(* _ingest_audio_frame.  While the tutor speaks, frames are ignored, save  *)
(* for a voiced one, which barges in and waits for the speech to stop.     *)
(* Nobody looks for a session: frames are heard after its end, too, until  *)
(* the stop takes the runtime away.                                        *)
Ingest(voiced) ==
    /\ sent < MaxFrames /\ stopping # "stopped"
    /\ sent' = sent + 1
    /\ IF assistant
       THEN /\ mic' = PreRoll(mic)
            /\ barging' = IF BargeIn /\ voiced THEN [barging EXCEPT !.before = @ + 1] ELSE barging
            /\ UNCHANGED jobs
       ELSE /\ (voiced /\ Voiced(PreRoll(mic))) \/ (~voiced /\ Silent(PreRoll(mic)))
            /\ UNCHANGED barging
    /\ UNCHANGED <<assistant, loop, log, owed, ending, stopping, outcome>>

(* _stop_tts_pipeline drops the flag half way, for each frame that came in. *)
SilenceTutor ==
    /\ barging.before > 0
    /\ assistant' = FALSE
    /\ barging' = [before |-> barging.before - 1, after |-> barging.after + 1]
    /\ UNCHANGED <<mic, sent, jobs, loop, log, owed, ending, stopping, outcome>>

(* _handle_barge_in returns, the replies are cancelled, and the frame is   *)
(* heard after all.                                                        *)
BargedIn ==
    /\ barging.after > 0
    /\ barging' = [barging EXCEPT !.after = @ - 1]
    /\ owed' = 0
    /\ Voiced(mic)
    /\ UNCHANGED <<sent, assistant, loop, log, ending, stopping, outcome>>

(* _handle_flush: what is collected becomes a final, spoken long enough or *)
(* not, and is answered or not as the command says.                        *)
Flush(suppress) ==
    /\ stopping # "stopped"
    /\ IF mic.pcm > 0 THEN Finalize(mic, suppress) ELSE mic' = Reset(mic) /\ UNCHANGED jobs
    /\ UNCHANGED <<sent, assistant, barging, loop, log, owed, ending, stopping, outcome>>

-----------------------------------------------------------------------------
(***************************************************************************)
(* The inference loop.                                                     *)
(***************************************************************************)
TaskDone ==
    /\ unfinished' = unfinished - 1
    /\ UNCHANGED queue

NextJob ==
    /\ loop' = Waiting
    /\ TaskDone

(* Mutant: a job that is too short is forgotten before task_done.          *)
TakeForgettingShort ==
    /\ loop = Waiting /\ queue # << >>
    /\ queue' = << >>
    /\ LET job == Head(queue) IN
       IF job.kind = "stop" THEN loop' = [at |-> "stopped"] /\ unfinished' = unfinished - 1
       ELSE IF job.kind = "final" /\ job.frames < FinalFrames
            THEN UNCHANGED <<loop, unfinished>>
       ELSE loop' = [at |-> "decoding", job |-> job] /\ UNCHANGED unfinished
    /\ UNCHANGED <<hearing, log, owed, ending, stopping, outcome>>

(* The next job: the stop, an utterance too short to decode, or one to     *)
(* decode.                                                                 *)
Take ==
    /\ loop = Waiting /\ queue # << >>
    /\ queue' = << >>
    /\ LET job == Head(queue) IN
       IF job.kind = "stop" THEN loop' = [at |-> "stopped"] /\ unfinished' = unfinished - 1
       ELSE IF job.kind = "final" /\ job.frames < FinalFrames
            THEN UNCHANGED loop /\ unfinished' = unfinished - 1
       ELSE loop' = [at |-> "decoding", job |-> job] /\ UNCHANGED unfinished
    /\ UNCHANGED <<hearing, log, owed, ending, stopping, outcome>>

(* The decoder raises STTProcessingError.                                  *)
DecodeFails ==
    /\ loop.at = "decoding"
    /\ mic' = IF loop.job.kind = "final" THEN Reset(mic) ELSE mic
    /\ NextJob
    /\ UNCHANGED <<sent, assistant, barging, log, owed, ending, stopping, outcome>>

(* Anything else is raised: the loop pauses before it goes on.             *)
DecodeRaises ==
    /\ loop.at = "decoding"
    /\ loop' = [at |-> "pausing"]
    /\ UNCHANGED <<hearing, jobs, log, owed, ending, stopping, outcome>>

(* A partial is shown and kept nowhere.                                    *)
DecodesPartial ==
    /\ loop.at = "decoding" /\ loop.job.kind = "partial"
    /\ NextJob
    /\ UNCHANGED <<hearing, log, owed, ending, stopping, outcome>>

(* A final is suppressed: the utterance collected by now is reset.         *)
Suppress ==
    /\ mic' = Reset(mic)
    /\ NextJob
    /\ UNCHANGED <<log, owed>>

(* The verdict: the turn is logged, and answered unless the command that   *)
(* made it a final said not to.                                            *)
Judge(job, text, figures, verification) ==
    IF Turns(text, figures, verification) = {} THEN Suppress
    ELSE /\ \E turn \in Turns(text, figures, verification) : log' = Append(log, turn)
         /\ IF job.suppress
            THEN NextJob /\ UNCHANGED owed
            ELSE loop' = [at |-> "replying"] /\ owed' = owed + 1 /\ UNCHANGED jobs
         /\ UNCHANGED mic

(* A decode's figures with those of its utterance.                         *)
Figures(d, job) ==
    [noSpeech |-> d.figures.noSpeech, logprob |-> d.figures.logprob,
     lowRatio |-> d.figures.lowRatio, compression |-> d.figures.compression,
     speech |-> job.speech, audio |-> job.frames * FrameMs]

(* A final is decoded as d; a doubtful one is decoded once more.           *)
DecodesFinal(d) ==
    /\ loop.at = "decoding" /\ loop.job.kind = "final"
    /\ LET a == Figures(d, loop.job) IN
       IF ~Screened(d.text, a) THEN Suppress
       ELSE IF SecondPass /\ Doubtful(d.text, a)
            THEN /\ loop' = [at |-> "verifying", job |-> loop.job, text |-> d.text, figures |-> a]
                 /\ UNCHANGED <<mic, jobs, log, owed>>
       ELSE Judge(loop.job, d.text, a, "skipped")
    /\ UNCHANGED <<sent, assistant, barging, ending, stopping, outcome>>

(* The second decode answers, fails or times out.                          *)
Verified(v) ==
    /\ loop.at = "verifying"
    /\ Judge(loop.job, loop.text, loop.figures, v)
    /\ UNCHANGED <<sent, assistant, barging, ending, stopping, outcome>>

(* The reply is on its way, or the pause is over.                          *)
GoOn ==
    /\ loop.at \in {"replying", "pausing"}
    /\ NextJob
    /\ UNCHANGED <<hearing, log, owed, ending, stopping, outcome>>

(* The tutor starts to be heard, is heard no more, has answered: external  *)
(* to this module.                                                         *)
TutorSpeaks ==
    /\ assistant' \in {owed > 0, FALSE} /\ assistant' # assistant
    /\ UNCHANGED <<mic, sent, barging, jobs, loop, log, owed, ending, stopping, outcome>>

TutorAnswers(text) ==
    /\ owed > 0 /\ owed' = owed - 1
    /\ log' = Append(log, [kind |-> "AI_TURN", text |-> text])
    /\ UNCHANGED <<hearing, jobs, loop, ending, stopping, outcome>>

-----------------------------------------------------------------------------
(***************************************************************************)
(* The end of the session and of the runtime.                              *)
(***************************************************************************)
(* _handle_session_end: what is collected becomes a last final.            *)
EndSession ==
    /\ ending = "no" /\ stopping # "stopped"
    /\ ending' = "joining"
    /\ IF mic.speaking /\ mic.pcm > 0 THEN Finalize(mic, TRUE) ELSE UNCHANGED <<mic, jobs>>
    /\ UNCHANGED <<sent, assistant, barging, loop, log, owed, stopping, outcome>>

(* The queue is done, or five seconds have passed.                         *)
Joined ==
    /\ ending = "joining"
    /\ ending' = "persisting"
    /\ assistant' = FALSE /\ owed' = 0
    /\ UNCHANGED <<mic, sent, barging, jobs, loop, log, stopping, outcome>>

(* _persist_event_log, of a session that is still open; it may fail.       *)
Persist(ok) == stored' = IF ok /\ ~Ended THEN log ELSE stored

EndPersists(ok) ==
    /\ ending = "persisting"
    /\ ending' = "closing"
    /\ Persist(ok)
    /\ UNCHANGED <<hearing, jobs, loop, log, owed, stopping, report>>

(* _reset_session_runtime_state.                                           *)
Close == mic' = Quiet /\ assistant' = FALSE /\ log' = << >>

EndCloses ==
    /\ ending = "closing"
    /\ ending' = "closed"
    /\ Close
    /\ UNCHANGED <<sent, barging, jobs, loop, owed, stopping, outcome>>

(* _async_stop, which does not look whether END_SESSION is under way.      *)
StopPersists(ok) ==
    /\ stopping = "no"
    /\ stopping' = "putting"
    /\ Persist(ok)
    /\ UNCHANGED <<hearing, jobs, loop, log, owed, ending, report>>

(* Mutant: the stop job is dropped when the queue is full.                 *)
PutStopIfRoom ==
    /\ stopping = "putting"
    /\ stopping' = "draining"
    /\ assistant' = FALSE
    /\ queue' = IF queue = << >> THEN <<StopJob>> ELSE queue
    /\ unfinished' = IF queue = << >> THEN unfinished + 1 ELSE unfinished
    /\ UNCHANGED <<mic, sent, barging, loop, log, owed, ending, outcome>>

(* The stop job waits for room in the queue.                               *)
PutStop ==
    /\ stopping = "putting" /\ queue = << >>
    /\ stopping' = "draining"
    /\ assistant' = FALSE
    /\ queue' = <<StopJob>> /\ unfinished' = unfinished + 1
    /\ UNCHANGED <<mic, sent, barging, loop, log, owed, ending, outcome>>

Stopped ==
    /\ stopping = "draining" /\ loop.at = "stopped"
    /\ stopping' = "stopped"
    /\ owed' = 0
    /\ queue' = << >> /\ unfinished' = 0  \* there is no queue any more
    /\ Close
    /\ UNCHANGED <<sent, barging, loop, ending, outcome>>

(* The worker grades what was stored, if it is enough.                     *)
Grade(provider, answer) ==
    /\ Ended /\ stored # None /\ report = None
    /\ Eligibility(stored, MinWords) = "eligible"
    /\ LET input == EvaluationInput(stored)
           graded == IF provider = "fake" THEN FakeGrade(input)
                     ELSE IF answer = Failed THEN Failed ELSE LLMGrade(input, answer)
       IN  report' = IF graded = Failed /\ FakeFallback THEN FakeGrade(input) ELSE graded
    /\ UNCHANGED <<hearing, jobs, loop, log, owed, ending, stopping, stored>>

-----------------------------------------------------------------------------
LoopStep ==
    \/ Take \/ DecodeFails \/ DecodeRaises \/ DecodesPartial \/ GoOn
    \/ \E d \in Decodes : DecodesFinal(d)
    \/ \E v \in Verifications \ {"skipped"} : Verified(v)

EndStep ==
    \/ Joined \/ EndCloses \/ PutStop \/ Stopped
    \/ \E ok \in BOOLEAN : EndPersists(ok)

Next ==
    \/ \E voiced \in BOOLEAN : Ingest(voiced)
    \/ SilenceTutor \/ BargedIn
    \/ \E suppress \in BOOLEAN : Flush(suppress)
    \/ LoopStep
    \/ TutorSpeaks
    \/ \E text \in Replies : TutorAnswers(text)
    \/ EndSession \/ EndStep
    \/ \E ok \in BOOLEAN : StopPersists(ok)
    \/ \E provider \in Providers, answer \in Answers : Grade(provider, answer)

(* The event loop runs every task that can go on: the decoder answers, the *)
(* waits end.                                                              *)
Fairness == WF_vars(LoopStep) /\ WF_vars(EndStep)

Spec == Init /\ [][Next]_vars /\ Fairness

-----------------------------------------------------------------------------
Microphone ==
    [pcm : Nat, speaking : BOOLEAN, pending : Nat, silence : Nat, frames : Nat, speech : Nat,
     partial : BOOLEAN, preRoll : 0..PreRollFrames]
Utterances == [kind : {"partial", "final"}, frames : Nat, speech : Nat, suppress : BOOLEAN]

SpeechTypeOK ==
    /\ mic \in Microphone /\ mic.pcm < MaxUtterance + SilenceFrames
    /\ sent \in 0..MaxFrames /\ assistant \in BOOLEAN /\ owed \in Nat
    /\ barging \in [before : Nat, after : Nat]
    /\ queue \in Seq(Utterances \union {StopJob}) /\ Len(queue) <= 1 /\ unfinished \in Nat
    /\ loop.at \in {"waiting", "decoding", "verifying", "replying", "pausing", "stopped"}

(* Every put of the inference queue is matched by one task_done, whether   *)
(* its job is decoded, suppressed, dropped for a final or fails: what      *)
(* join() counts is what is queued and in work.                            *)
QueueAccounting ==
    unfinished = Len(queue)
        + IF loop.at \in {"decoding", "verifying", "replying", "pausing"} THEN 1 ELSE 0

(* A turn that counts as evidence is English that was heard: no Vietnamese *)
(* word, no unfinished phrase, and under half a second of speech or with a *)
(* doubtful decode only what shows English by itself.                      *)
Earned(e) ==
    LET t == GradingText(e) IN
    /\ ~HasVietnamese(t)
    /\ t \notin Fragments
    /\ Under(e.figures.speech, 500) => PlausibleShort(t, e.figures)
    /\ (Under(e.figures.logprob, -78) \/ e.figures.lowRatio > 45) => PhraseEvidence(t)
EvidenceIsEarned == \A i \in DOMAIN log : Reliable(log[i]) => Earned(log[i])

(* The status page, the eligibility check and the input of the grader read *)
(* the log by rules of their own and come to the same number of words.     *)
CountsAgree ==
    /\ ShownWords(log) = ReliableWords(log)
    /\ EvaluationInput(log).words = ReliableWords(log)

(* A result that can be stored: scores in range, the overall score between *)
(* the least and the highest, one feedback item per skill with the score   *)
(* of its field, and the schema version of what it holds.                  *)
Storable(result) ==
    LET given == {result.scores[k] : k \in DOMAIN result.scores} \ {None} IN
    /\ given \subseteq Scale
    /\ \E x \in given : x <= result.overall + 1
    /\ \E x \in given : x >= result.overall - 1
    /\ [k \in DOMAIN result.feedback |-> result.feedback[k].skill] = Skills
    /\ \A k \in DOMAIN result.feedback : result.feedback[k].score = result.scores[k]
    /\ result.schema = "grading.v2" => result.scores[4] # None
(* Every report is one that can be stored, whatever the grader answered.    *)
ReportHolds == report \in {None, Failed} \/ Storable(report)

(* The queue comes to rest whatever the decoder answers.                   *)
QueueDrains == unfinished > 0 ~> unfinished = 0

(* The runtime's stop gets its job through a full queue and ends.          *)
StopEnds == stopping = "putting" ~> stopping = "stopped"
================================================================================
