------------------------------- MODULE TutorReply -------------------------------
(***************************************************************************)
(* The tutor's side of a session: a reply is streamed by the language      *)
(* model (brain.py), its text is cut into phrases, spoken phrase by phrase  *)
(* (tts.py) and played by the outbound track (ten_compat.py), while         *)
(* luve_extension.py starts, flushes, interrupts and ends it all.  It runs  *)
(* on one event loop: a task that does not have to wait goes on before      *)
(* any other does (Moving).                                                *)
(*                                                                         *)
(* Raw text is a sequence of pieces: the words of the answer, numbered from *)
(* 1, and the marks below.                                                 *)
(***************************************************************************)
EXTENDS Integers, SequencesExt

CONSTANTS
    None,
    Scripts,      \* what the model may stream for the r-th reply: chunks of pieces, and whether it fails
    Fallback,     \* the words of build_fallback_reply
    Greeting,     \* the words of an opener
    Stops,        \* words that end with a punctuation mark
    PhraseWords,  \* phrase_min_chars, in words
    PhraseRoom,   \* places of the phrase queue
    KeepTurns,    \* max_keep of the dialogue history
    MaxReplies,   \* bound: replies, openers included
    MaxSessions   \* bound: sessions

ASSUME ReplyAssumption ==
    /\ PhraseWords \in Nat \ {0, 1} /\ PhraseRoom \in Nat \ {0}
    /\ KeepTurns \in Nat /\ MaxReplies \in Nat /\ MaxSessions \in Nat

ASSUME NoneAssumption == None \notin Int

(* A script is chunks of pieces, and whether the request fails after them. *)
ASSUME ScriptAssumption ==
    /\ \A r \in 1..MaxReplies : Scripts[r] \subseteq [chunks : Seq(Seq(Nat)), fails : BOOLEAN]
    /\ Fallback \in Seq(Nat) /\ Greeting \in Seq(Nat)

VARIABLES
    session,   \* _session_id, counted
    started,   \* sessions so far
    audible,   \* _tts_output_enabled
    greeted,   \* _opener_sent
    reply,     \* the replies under way or done
    timer,     \* _force_flush_task: off, armed, putting its phrase, cancelled
    strays,    \* timers no variable refers to: armed, or with a phrase to put
    buffer,    \* _phrase_buffer
    queue,     \* _phrase_queue
    worker,    \* _worker_loop: where it is, and its phrase
    speaking,  \* _is_assistant_speaking
    tail,      \* release tasks: the one referred to, and the others
    stop,      \* where a barge-in and an END_SESSION are
    log,       \* AI_TURNs of the session's event log
    dialogue,  \* _dialogue_history: the replies in it
    crowded,   \* history: a put into the phrase queue had to wait
    retold     \* history: replies whose streamed text was taken back

turns == <<session, started, audible, greeted>>
speech == <<buffer, queue, worker>>
flushing == <<timer, strays>>
mic == <<speaking, tail>>
memory == <<log, dialogue>>
history == <<crowded, retold>>
vars == <<turns, reply, flushing, speech, mic, stop, memory, history>>

Ids == DOMAIN reply
Enabled == session # None

Init ==
    /\ session = None /\ started = 0 /\ audible = TRUE /\ greeted = FALSE
    /\ reply = << >>
    /\ timer = [at |-> "off"] /\ strays = << >>
    /\ buffer = << >> /\ queue = << >> /\ worker = [at |-> "idle"]
    /\ speaking = FALSE /\ tail = [current |-> FALSE, others |-> 0]
    /\ stop = [barge |-> "off", end |-> "off"]
    /\ log = << >> /\ dialogue = << >>
    /\ crowded = FALSE /\ retold = {}

-----------------------------------------------------------------------------
(***************************************************************************)
(* Text.                                                                   *)
(***************************************************************************)
R == 0                  \* RESPONSE_TEXT:
NL == 97                \* the end of a line
Fa == 98                \* the first half of PEDAGOGICAL_FEEDBACK:
Fb == 99                \* and the second

(* The pieces that are spoken, and texts in which they ascend.             *)
Spoken(p) == p \notin {R, NL, Fa, Fb}
Below(text, later) ==
    \A i \in DOMAIN text, j \in DOMAIN later :
        Spoken(text[i]) /\ Spoken(later[j]) => text[i] < later[j]
Ascends(text) ==
    \A i, j \in DOMAIN text : Spoken(text[i]) /\ Spoken(text[j]) /\ i < j => text[i] < text[j]

(* The numbering: words are numbered in the order the model gives them, and *)
(* the fallback, which comes after them, goes on from there.               *)
ASSUME NumberedAssumption ==
    /\ \A r \in 1..MaxReplies : \A script \in Scripts[r] : \A n \in DOMAIN script.chunks :
        /\ Ascends(script.chunks[n]) /\ Below(script.chunks[n], Fallback)
        /\ \A m \in 1..(n - 1) : Below(script.chunks[m], script.chunks[n])
    /\ Ascends(Fallback) /\ Ascends(Greeting)

FirstOf(S, otherwise) == IF S = {} THEN otherwise ELSE CHOOSE i \in S : \A j \in S : i <= j

(* The k-th of some places, and what a sequence holds at them.             *)
Nth(places, k) == CHOOSE i \in places : Cardinality({j \in places : j <= i}) = k
Only(s, places) == [k \in 1..Cardinality(places) |-> s[Nth(places, k)]]

Words(pieces) == Only(pieces, {i \in DOMAIN pieces : pieces[i] # NL})

(* _extract_response_text: from the marker to the feedback, if it is there. *)
Extract(raw) ==
    LET from == FirstOf({i \in DOMAIN raw : raw[i] = R}, Len(raw))
        body == SubSeq(raw, from + 1, Len(raw))
        to == FirstOf({i \in 1..(Len(body) - 1) : body[i] = Fa /\ body[i + 1] = Fb}, Len(body) + 1)
    IN  Words(SubSeq(body, 1, to - 1))

(* _diff_streamed_text: all of it when it does not go on from what was.    *)
Diff(previous, current) ==
    IF IsPrefix(previous, current) THEN SubSeq(current, Len(previous) + 1, Len(current)) ELSE current

(* _parse_output: the line of the marker, or else the first line; nothing  *)
(* when there is no text.                                                  *)
Parse(raw) ==
    LET Line(from) ==
            LET ends == {i \in (from + 1)..Len(raw) :
                            raw[i] = NL \/ (raw[i] = Fa /\ i < Len(raw) /\ raw[i + 1] = Fb)}
            IN  SubSeq(raw, from + 1, FirstOf(ends, Len(raw) + 1) - 1)
        marks == {i \in DOMAIN raw : raw[i] = R}
    IN  IF marks # {} /\ Line(FirstOf(marks, 0)) # << >> THEN Line(FirstOf(marks, 0)) ELSE Line(0)

(* _drain_ready_phrases: a phrase ends with a punctuation mark; of what is *)
(* left, when it is long, all but the last word; at the end, everything.   *)
Phrases(text, final) ==
    LET ends == {i \in DOMAIN text : text[i][2] \in Stops}
        Start(k) == IF k = 1 THEN 1 ELSE Nth(ends, k - 1) + 1
        whole == [k \in 1..Cardinality(ends) |-> SubSeq(text, Start(k), Nth(ends, k))]
        left == SubSeq(text, Start(Cardinality(ends) + 1), Len(text))
    IN  IF Len(left) >= PhraseWords /\ final
        THEN [phrases |-> whole \o <<Front(left), <<Last(left)>>>>, rest |-> << >>]
        ELSE IF Len(left) >= PhraseWords
        THEN [phrases |-> Append(whole, Front(left)), rest |-> <<Last(left)>>]
        ELSE IF final /\ left # << >>
        THEN [phrases |-> Append(whole, left), rest |-> << >>]
        ELSE [phrases |-> whole, rest |-> left]

-----------------------------------------------------------------------------
(***************************************************************************)
(* The phrase queue.                                                       *)
(***************************************************************************)
(* Mutant: a queue with one place more. *)
RoomForOneMore == PhraseRoom + 1 - Len(queue)

Room == PhraseRoom - Len(queue)

(* Puts one phrase after the other; what does not fit waits in todo.       *)
Fitting(phrases) == IF Len(phrases) > Room THEN Room ELSE Len(phrases)
PutSome(phrases) ==
    /\ queue' = queue \o SubSeq(phrases, 1, Fitting(phrases))
    /\ crowded' = (crowded \/ Len(phrases) > Room)
Unput(phrases) == SubSeq(phrases, Fitting(phrases) + 1, Len(phrases))

Mine(r, text) == [i \in DOMAIN text |-> <<r, text[i]>>]

(* feed_text by reply r, which goes on with at when all is put.  (A set of  *)
(* one element names a value that TLC computes once.)                      *)
Feed(r, record, text, final, at) ==
    \E whole \in {buffer \o Mine(r, text)} : \E cut \in {Phrases(whole, final)} :
    IF audible
    THEN /\ buffer' = cut.rest
         /\ PutSome(cut.phrases)
         /\ reply' = [reply EXCEPT ![r] =
                [record EXCEPT !.at = IF Unput(cut.phrases) = << >> THEN at ELSE "putting",
                               !.then = at, !.todo = Unput(cut.phrases)]]
    ELSE /\ reply' = [reply EXCEPT ![r] = [record EXCEPT !.at = at]]
         /\ UNCHANGED <<buffer, queue, crowded>>

-----------------------------------------------------------------------------
(***************************************************************************)
(* A reply.  One of the model is a task, which can be cancelled; a local    *)
(* one runs in the inference loop, an opener in its START.                  *)
(***************************************************************************)
Whole(words) == [chunks |-> <<words>>, fails |-> FALSE]

New(kind, script) ==
    [kind |-> kind, script |-> script, session |-> session,
     at |-> IF kind = "llm" THEN "thinking" ELSE "waiting", then |-> "done", todo |-> << >>,
     heard |-> 0, raw |-> << >>, said |-> << >>, answer |-> << >>, cancelled |-> FALSE]

(* A START with the client's choice of audio, on a new connection.         *)
Start(sound) ==
    /\ ~Enabled /\ started < MaxSessions
    /\ session' = started + 1 /\ started' = started + 1
    /\ audible' = sound
    /\ UNCHANGED <<greeted, reply, flushing, speech, mic, stop, memory, history>>

(* _maybe_send_opening_greeting claims its one shot and waits.             *)
Greet ==
    /\ Enabled /\ ~greeted /\ Len(reply) < MaxReplies
    /\ greeted' = TRUE
    /\ reply' = Append(reply, New("opener", Whole(Greeting)))
    /\ UNCHANGED <<session, started, audible, flushing, speech, mic, stop, memory, history>>

(* _spawn_llm_for_final, with a model or without.  A late final of a       *)
(* session that is ending is RealtimeSession's matter.                     *)
AnswerWith(kind, other, script) ==
    /\ Enabled /\ stop.end = "off"
    /\ \A r \in Ids : reply[r].kind # other
    /\ reply' = Append(reply, New(kind, script))
    /\ UNCHANGED <<turns, flushing, speech, mic, stop, memory, history>>

Answer ==
    /\ Len(reply) < MaxReplies
    /\ \E script \in Scripts[Len(reply) + 1] : AnswerWith("llm", "local", script)
AnswerLocally ==
    /\ Len(reply) < MaxReplies
    /\ \A r \in Ids : reply[r].kind = "local" => reply[r].at = "done"
    /\ AnswerWith("local", "llm", Whole(Fallback))

Running(r, at) == reply[r].at = at /\ ~reply[r].cancelled

(* The end of every reply opens the microphone.                            *)
Over(r) == [r EXCEPT !.at = "done", !.then = "done", !.heard = 0, !.script = Whole(<< >>), !.raw = << >>, !.said = << >>,
                     !.todo = << >>, !.answer = << >>, !.cancelled = FALSE]
Done(r) ==
    /\ reply' = [reply EXCEPT ![r] = Over(@)]
    /\ speaking' = FALSE

(* The opener or the local reply is fed whole, if its session is still on. *)
TellWhole(r) ==
    /\ Running(r, "waiting")
    /\ IF Enabled /\ reply[r].session = session
       THEN /\ speaking' = (speaking \/ audible)
            /\ LET words == reply[r].script.chunks[1] IN
               Feed(r, [reply[r] EXCEPT !.answer = words], words, FALSE, "closing")
       ELSE /\ reply' = [reply EXCEPT ![r] = Over(@)]
            /\ UNCHANGED <<speaking, buffer, queue, crowded>>
    /\ UNCHANGED <<turns, flushing, worker, tail, stop, memory, retold>>

(* on_token: what is new of the response is streamed and fed.              *)
Token(r, record, delta) ==
 \E raw \in {record.raw \o delta} : \E text \in {Extract(raw)} : \E new \in {Diff(record.said, text)} :
    \E grown \in {[record EXCEPT !.raw = @ \o delta, !.said = @ \o new]} : /\ retold' = IF IsPrefix(record.said, text) THEN retold ELSE retold \union {r}
        /\ IF ~Enabled \/ new = << >>
           THEN /\ reply' = [reply EXCEPT ![r] = IF Enabled THEN grown ELSE record]
                /\ UNCHANGED <<buffer, queue, crowded>>
           ELSE Feed(r, grown, new, FALSE, IF audible THEN "restart" ELSE "thinking")

Heard(r) == reply[r].heard = Len(reply[r].script.chunks)

Streams(r) ==
    /\ Running(r, "thinking") /\ ~Heard(r)
    /\ LET n == reply[r].heard + 1 IN
       Token(r, [reply[r] EXCEPT !.heard = n], reply[r].script.chunks[n])
    /\ UNCHANGED <<turns, flushing, worker, mic, stop, memory>>

(* The request fails or times out, or there is no text: the fallback is    *)
(* one more token.                                                         *)
Fails(r) ==
    /\ Running(r, "thinking") /\ Heard(r) /\ reply[r].answer = << >>
    /\ reply[r].script.fails \/ Parse(reply[r].raw) = << >>
    /\ Token(r, [reply[r] EXCEPT !.answer = Fallback], Fallback)
    /\ UNCHANGED <<turns, flushing, worker, mic, stop, memory>>

Put(r) ==
    /\ Running(r, "putting") /\ Room > 0
    /\ PutSome(reply[r].todo)
    /\ reply' = [reply EXCEPT ![r].todo = Unput(@),
                              ![r].at = IF Unput(reply[r].todo) = << >> THEN reply[r].then ELSE @]
    /\ UNCHANGED <<turns, flushing, buffer, worker, mic, stop, memory, retold>>

(* A timer is replaced, or forgotten: one that another task has set in the *)
(* meantime still runs, with nothing that refers to it.                    *)
Pending == timer.at \in {"armed", "putting"}
SetTimer(at) ==
    /\ timer' = [at |-> at]
    /\ strays' = IF Pending THEN Append(strays, timer) ELSE strays

(* restart_force_flush: the old timer is cancelled first, and waited for.  *)
Restart(r) ==
    /\ reply[r].at = "restart"
    /\ IF ~Enabled THEN reply' = [reply EXCEPT ![r].at = "thinking"] /\ UNCHANGED timer
       ELSE IF timer.at = "off"
       THEN timer' = [at |-> "armed"] /\ reply' = [reply EXCEPT ![r].at = "thinking"]
       ELSE timer' = [at |-> "cancelled"] /\ reply' = [reply EXCEPT ![r].at = "restarting"]
    /\ UNCHANGED strays
    /\ UNCHANGED <<turns, speech, mic, stop, memory, history>>

(* The wait suppresses CancelledError, the one meant for the reply itself  *)
(* as well.                                                                *)
Restarted(r) ==
    /\ reply[r].at = "restarting" /\ timer.at # "cancelled"
    /\ SetTimer("armed")
    /\ reply' = [reply EXCEPT ![r].at = "thinking", ![r].cancelled = FALSE]
    /\ UNCHANGED <<turns, speech, mic, stop, memory, history>>

(* The stream is over: what was not streamed of the answer is fed.         *)
Concludes(r) ==
    /\ Running(r, "thinking") /\ Heard(r)
    /\ reply[r].answer # << >> \/ (~reply[r].script.fails /\ Parse(reply[r].raw) # << >>)
    /\ \E answer \in {IF reply[r].answer # << >> THEN reply[r].answer ELSE Parse(reply[r].raw)} :
       \E record \in {[reply[r] EXCEPT !.answer = answer]} :
       IF ~Enabled
           THEN /\ Done(r)
                /\ UNCHANGED <<buffer, queue, crowded, retold>>
           ELSE /\ Feed(r, record, Diff(record.said, answer), FALSE, "settle")
                /\ retold' = IF IsPrefix(record.said, answer) THEN retold ELSE retold \union {r}
                /\ UNCHANGED speaking
    /\ UNCHANGED <<turns, flushing, worker, tail, stop, memory>>

(* The timer is cancelled for good.                                        *)
Settle(r) ==
    /\ reply[r].at = "settle"
    /\ IF timer.at = "off"
       THEN reply' = [reply EXCEPT ![r].at = "closing"] /\ UNCHANGED timer
       ELSE timer' = [at |-> "cancelled"] /\ reply' = [reply EXCEPT ![r].at = "settling"]
    /\ UNCHANGED <<turns, strays, speech, mic, stop, memory, history>>

Settled(r) ==
    /\ reply[r].at = "settling" /\ timer.at # "cancelled"
    /\ SetTimer("off")
    /\ reply' = [reply EXCEPT ![r].at = "closing", ![r].cancelled = FALSE]
    /\ UNCHANGED <<turns, speech, mic, stop, memory, history>>

(* The last of the buffer becomes a phrase.                                *)
CloseText(r) ==
    /\ reply[r].at = "closing"
    /\ Feed(r, reply[r], << >>, TRUE, "finishing")
    /\ UNCHANGED <<turns, flushing, worker, mic, stop, memory, retold>>

Turn(speaker, r) == [speaker |-> speaker, reply |-> r]
LastOf(s, n) == SubSeq(s, IF Len(s) > n THEN Len(s) - n + 1 ELSE 1, Len(s))

(* The reply is logged and remembered; a local one is neither.             *)
Finish(r) ==
    /\ reply[r].at = "finishing"
    /\ Done(r)
    /\ log' = IF reply[r].kind = "local" THEN log ELSE Append(log, r)
    /\ dialogue' =
        IF reply[r].kind = "llm"
        THEN LastOf(dialogue \o <<Turn("learner", r), Turn("tutor", r)>>, KeepTurns)
        ELSE IF reply[r].kind = "opener" THEN Append(dialogue, Turn("tutor", r)) ELSE dialogue
    /\ UNCHANGED <<turns, flushing, speech, tail, stop, history>>

Cancelled(r) ==
    /\ reply[r].cancelled /\ reply[r].at \notin {"restarting", "settling", "done"}
    /\ Done(r)
    /\ UNCHANGED <<turns, flushing, speech, tail, stop, memory, history>>

-----------------------------------------------------------------------------
(***************************************************************************)
(* The force flush and the speech of phrases.                              *)
(***************************************************************************)
TimerDies ==
    /\ timer.at = "cancelled"
    /\ timer' = [at |-> "off"]
    /\ UNCHANGED <<turns, reply, strays, speech, mic, stop, memory, history>>

(* Mutant: a flush that leaves the text in the buffer. *)
FireKeepingBuffer(t, dead, waiting) ==
    /\ IF t.at = "putting" THEN Room > 0 /\ PutSome(<<t.phrase>>) /\ dead
       ELSE IF ~Enabled \/ buffer = << >> THEN dead /\ UNCHANGED <<queue, crowded>>
       ELSE PutSome(<<buffer>>) /\ IF Room > 0 THEN dead ELSE waiting
    /\ UNCHANGED buffer

(* force_flush, when _force_flush_timeout is over: what becomes of a timer *)
(* that is armed, or has its phrase to put.                                *)
Fire(t, dead, waiting) ==
    IF t.at = "putting"
    THEN /\ Room > 0
         /\ PutSome(<<t.phrase>>)
         /\ dead
         /\ UNCHANGED buffer
    ELSE IF ~Enabled \/ buffer = << >> THEN dead /\ UNCHANGED <<buffer, queue, crowded>>
    ELSE /\ buffer' = << >>
         /\ PutSome(<<buffer>>)
         /\ IF Room > 0 THEN dead ELSE waiting

TimerFires ==
    /\ Pending
    /\ Fire(timer, timer' = [at |-> "off"], timer' = [at |-> "putting", phrase |-> buffer])
    /\ UNCHANGED <<turns, reply, strays, worker, mic, stop, memory, retold>>

StrayFires(i) ==
    /\ Fire(strays[i], strays' = RemoveAt(strays, i),
            strays' = [strays EXCEPT ![i] = [at |-> "putting", phrase |-> buffer]])
    /\ UNCHANGED <<turns, reply, timer, worker, mic, stop, memory, retold>>

(* _worker_loop: one phrase at a time is synthesised, *)
Synthesise ==
    /\ worker.at = "idle" /\ queue # << >>
    /\ worker' = [at |-> "synthesising", phrase |-> Head(queue)]
    /\ queue' = Tail(queue)
    /\ UNCHANGED <<turns, reply, flushing, buffer, mic, stop, memory, history>>

(* with sound or without, *)
Synthesised(ok) ==
    /\ worker.at = "synthesising"
    /\ worker' = IF ok THEN [worker EXCEPT !.at = "ready"] ELSE [at |-> "idle"]
    /\ UNCHANGED <<turns, reply, flushing, buffer, queue, mic, stop, memory, history>>

(* Mutant: the loop finds out only when it takes the next phrase. *)
SynthesisDiesAtNext ==
    /\ worker.at = "stopping" /\ queue # << >>
    /\ worker' = [at |-> "idle"]
    /\ UNCHANGED <<turns, reply, flushing, buffer, queue, mic, stop, memory, history>>

SynthesisDies ==
    /\ worker.at = "stopping"
    /\ worker' = [at |-> "idle"]
    /\ UNCHANGED <<turns, reply, flushing, buffer, queue, mic, stop, memory, history>>

(* Mutant: without the task that releases the microphone. *)
SendPhraseForGood ==
    /\ worker.at = "ready"
    /\ worker' = [at |-> "idle"]
    /\ speaking' = (Enabled /\ audible)
    /\ UNCHANGED <<turns, reply, flushing, buffer, queue, tail, stop, memory, history>>

(* and sent, all its chunks at once: _on_tts_chunk_ready.  A broadcast to  *)
(* a connection that is closed is dropped.                                 *)
SendPhrase ==
    /\ worker.at = "ready"
    /\ worker' = [at |-> "idle"]
    /\ IF Enabled /\ audible
       THEN /\ speaking' = TRUE
            /\ tail' = [tail EXCEPT !.current = TRUE]
       ELSE speaking' = FALSE /\ UNCHANGED tail
    /\ UNCHANGED <<turns, reply, flushing, buffer, queue, stop, memory, history>>

(* _release_assistant_speaking_after_tail.                                 *)
Release ==
    /\ tail.current \/ tail.others > 0
    /\ speaking' = FALSE
    /\ \/ tail.current /\ tail' = [tail EXCEPT !.current = FALSE]
       \/ tail.others > 0 /\ tail' = [tail EXCEPT !.others = @ - 1]
    /\ UNCHANGED <<turns, reply, flushing, speech, stop, memory, history>>

-----------------------------------------------------------------------------
(***************************************************************************)
(* A barge-in and the end of a session.  Both stop the speech first, *)
(***************************************************************************)
Forget == [tail EXCEPT !.current = FALSE, !.others = @ + IF tail.current THEN 1 ELSE 0]

(* _stop_tts_pipeline and stop_immediately: the waits for the two sleepers  *)
(* that are cancelled, a turn of the loop each, are part of the step.  A    *)
(* phrase that is ready is not stopped any more.                            *)
BeginStop(k) ==
    /\ Enabled /\ stop[k] = "off"
    /\ stop' = [stop EXCEPT ![k] = IF worker.at = "synthesising" THEN "synthesis" ELSE "cancel"]
    /\ timer' = [at |-> IF Pending THEN "cancelled" ELSE timer.at]
    /\ tail' = [tail EXCEPT !.current = FALSE] /\ speaking' = FALSE
    /\ buffer' = << >> /\ queue' = << >>
    /\ worker' = IF worker.at = "synthesising" THEN [at |-> "stopping"] ELSE worker
    /\ UNCHANGED <<turns, reply, strays, memory, history>>

Silent(k) ==
    /\ stop[k] = "synthesis" /\ worker.at # "stopping"
    /\ stop' = [stop EXCEPT ![k] = "cancel"]
    /\ UNCHANGED <<turns, reply, flushing, speech, mic, memory, history>>

(* then cancel the replies of the model.                                   *)
CancelReplies ==
    reply' = [r \in Ids |->
        [reply[r] EXCEPT !.cancelled = reply[r].kind = "llm" /\ reply[r].at # "done"]]

BargedIn ==
    /\ stop.barge = "cancel"
    /\ stop' = [stop EXCEPT !.barge = "off"]
    /\ CancelReplies
    /\ UNCHANGED <<turns, flushing, speech, mic, memory, history>>

EndCancels ==
    /\ stop.end = "cancel"
    /\ stop' = [stop EXCEPT !.end = "gather"]
    /\ CancelReplies
    /\ UNCHANGED <<turns, flushing, speech, mic, memory, history>>

(* Mutant: END_SESSION does not wait. *)
GatheredAtOnce ==
    /\ stop.end = "gather"
    /\ stop' = [stop EXCEPT !.end = "persist"]
    /\ UNCHANGED <<turns, reply, flushing, speech, mic, memory, history>>

(* END_SESSION waits for them before it persists the log.                  *)
Gathered ==
    /\ stop.end = "gather"
    /\ \A r \in Ids : reply[r].kind = "llm" => reply[r].at = "done"
    /\ stop' = [stop EXCEPT !.end = "persist"]
    /\ UNCHANGED <<turns, reply, flushing, speech, mic, memory, history>>

(* _reset_session_runtime_state.                                           *)
EndSession ==
    /\ stop.end = "persist"
    /\ stop' = [stop EXCEPT !.end = "off"]
    /\ session' = None /\ audible' = TRUE /\ greeted' = FALSE
    /\ speaking' = FALSE /\ tail' = Forget
    /\ log' = << >>
    /\ UNCHANGED <<started, reply, flushing, speech, dialogue, history>>

-----------------------------------------------------------------------------
(* A reply or a stop that goes on without a wait.                          *)
Goes(r) == Restart(r) \/ Settle(r) \/ CloseText(r) \/ Finish(r)
Moving ==
    \/ \E r \in Ids : reply[r].at \in {"restart", "settle", "closing", "finishing"}
    \/ \E k \in DOMAIN stop : stop[k] = "cancel"

ReplyStep(r) ==
    \/ TellWhole(r) \/ Streams(r) \/ Fails(r) \/ Put(r) \/ Restarted(r)
    \/ Concludes(r) \/ Settled(r) \/ Cancelled(r)

SpeechStep ==
    \/ TimerDies \/ TimerFires \/ (\E i \in DOMAIN strays : StrayFires(i))
    \/ Synthesise \/ (\E ok \in BOOLEAN : Synthesised(ok)) \/ SynthesisDies \/ SendPhrase

EndStep == Silent("end") \/ Gathered \/ EndSession

GoOn ==
    \/ \E r \in Ids : Goes(r)
    \/ BargedIn \/ EndCancels

Wake ==
    \/ \E sound \in BOOLEAN : Start(sound)
    \/ Greet
    \/ Answer \/ AnswerLocally
    \/ \E r \in Ids : ReplyStep(r)
    \/ SpeechStep \/ Release
    \/ \E k \in DOMAIN stop : BeginStop(k)
    \/ Silent("barge") \/ EndStep

Next == GoOn \/ (~Moving /\ Wake)

(* The loop runs every task that can go on, between the moves of the        *)
(* others: the model answers or times out, the synthesis ends, the sleeps   *)
(* are over.                                                               *)
Fairness ==
    /\ WF_vars(GoOn)
    /\ \A r \in 1..MaxReplies : WF_vars(r \in Ids /\ ReplyStep(r))
    /\ WF_vars(SpeechStep) /\ WF_vars(Release) /\ WF_vars(EndStep)

Spec == Init /\ [][Next]_vars /\ Fairness

-----------------------------------------------------------------------------
ReplyTypeOK ==
    /\ session \in {None} \union 1..MaxSessions /\ audible \in BOOLEAN
    /\ timer.at \in {"off", "armed", "putting", "cancelled"}
    /\ worker.at \in {"idle", "synthesising", "ready", "stopping"}
    /\ Len(queue) <= PhraseRoom
    /\ Len(buffer) < PhraseWords
    /\ Len(dialogue) <= KeepTurns + MaxSessions
    /\ \A k \in DOMAIN stop : stop[k] \in
        {"off", "synthesis", "cancel", "gather", "persist"}

(* The phrase at work, and the order of the words of reply r in phrases.    *)
AtWork == IF worker.at \in {"synthesising", "ready"} THEN <<worker.phrase>> ELSE << >>
InOrder(phrases, r) ==
    \A k, l \in DOMAIN phrases : \A i \in DOMAIN phrases[k], j \in DOMAIN phrases[l] :
        LET one == phrases[k][i]
            other == phrases[l][j]
        IN  /\ one[1] = r /\ other[1] = r
            /\ Spoken(one[2]) /\ Spoken(other[2])
            /\ k < l \/ (k = l /\ i < j)
            => one[2] < other[2]
(* The words of a reply wait in the order of its answer and none of them   *)
(* twice: in the phrase at work, the queue and the buffer, however tokens,  *)
(* the force flush, a barge-in and the end of the session cross, as long as *)
(* the stream took back nothing it had said and the queue had room.        *)
SpokenInOrder ==
    crowded \/ \A r \in Ids \ retold : InOrder(AtWork \o Append(queue, buffer), r)

(* An AI_TURN is in the log of the session it was asked in: END_SESSION     *)
(* waits for every reply of the model, also for one that missed its         *)
(* cancellation.  Only an opener that had to wait for room in the queue can *)
(* come late.                                                              *)
LoggedWhereAsked ==
    Enabled => \A i \in DOMAIN log :
        reply[log[i]].session = session \/ (crowded /\ reply[log[i]].kind = "opener")

(* The tutor never blocks the microphone for good.                         *)
MicOpens == speaking ~> ~speaking

(* END_SESSION comes to its end, also when a reply misses its cancellation. *)
SessionEnds == stop.end # "off" ~> session = None
================================================================================
