------------------------------ MODULE OutboundTrack ------------------------------
(***************************************************************************)
(* OutboundAudioTrack of the gateway (ten_compat.py) between the extension, *)
(* whose every chunk of speech is a task that broadcasts it, and the sender *)
(* of the connection, which takes a frame every 20 ms.  The queue of frames *)
(* is bounded; a broadcast that finds it full waits with the lock held, and *)
(* the broadcasts behind it wait for the lock in their order.              *)
(***************************************************************************)
EXTENDS Integers, Sequences

CONSTANTS
    NoFrame,
    EndOfTrack,     \* the None that ends the queue
    TrackRoom,      \* places of the queue of frames
    ChunkFrames,    \* the frames of the longest chunk: tts_chunk_ms over 20 ms
    MaxChunks,      \* bound: chunks of speech
    MaxFlushes      \* bound: flushes

ASSUME TrackAssumption ==
    /\ TrackRoom \in Nat /\ ChunkFrames \in Nat \ {0} /\ ChunkFrames < TrackRoom
    /\ MaxChunks \in Nat /\ MaxFlushes \in Nat

VARIABLES
    said,      \* chunks emitted so far
    waiting,   \* the broadcasts of enqueue_pcm that are not over, in their order
    holding,   \* _enqueue_lock: the first of them is at work on its frames
    frames,    \* _queue
    closed,    \* _closed
    flight,    \* the frame recv has taken and not yet returned
    ended,     \* recv has met the end of the track
    heard,     \* history: the frames the connection was given
    flushes    \* history: flushes so far

vars == <<said, waiting, holding, frames, closed, flight, ended, heard, flushes>>

Frame(chunk, i) == [chunk |-> chunk, frame |-> i]

Init ==
    /\ said = 0 /\ waiting = << >> /\ holding = FALSE
    /\ frames = << >> /\ closed = FALSE
    /\ flight = NoFrame /\ ended = FALSE
    /\ heard = << >> /\ flushes = 0

(* send_audio_frame: a chunk of the session that is open gets a task.      *)
Broadcast ==
    /\ ~closed /\ said < MaxChunks
    /\ said' = said + 1
    /\ \E size \in 1..ChunkFrames :
        waiting' = Append(waiting, [chunk |-> said + 1, size |-> size, sent |-> 0])
    /\ UNCHANGED <<holding, frames, closed, flight, ended, heard, flushes>>

Left(broadcast) == broadcast.size - broadcast.sent

(* What the first broadcast can put without a wait.                        *)
Fit == LET room == TrackRoom - Len(frames) IN
       IF Left(Head(waiting)) < room THEN Left(Head(waiting)) ELSE room

(* Mutant: a lock for each frame, so that broadcasts take turns. *)
PutFramesInTurns ==
    /\ frames' = frames \o [i \in 1..Fit |-> Frame(Head(waiting).chunk, Head(waiting).sent + i)]
    /\ waiting' =
        IF Fit = Left(Head(waiting)) THEN Tail(waiting)
        ELSE Append(Tail(waiting), [Head(waiting) EXCEPT !.sent = @ + Fit])
    /\ holding' = FALSE

PutFrames ==
    /\ frames' = frames \o [i \in 1..Fit |-> Frame(Head(waiting).chunk, Head(waiting).sent + i)]
    /\ IF Fit = Left(Head(waiting))
       THEN waiting' = Tail(waiting) /\ holding' = FALSE
       ELSE /\ waiting' = <<[Head(waiting) EXCEPT !.sent = @ + Fit]>> \o Tail(waiting)
            /\ holding' = TRUE

(* The lock is free: the next broadcast finds the track closed, or puts    *)
(* its frames.                                                             *)
Enqueue ==
    /\ waiting # << >> /\ ~holding
    /\ IF closed THEN waiting' = Tail(waiting) /\ UNCHANGED <<frames, holding>> ELSE PutFrames
    /\ UNCHANGED <<said, closed, flight, ended, heard, flushes>>

(* The one that waited for a place goes on.  It does not look at closed.   *)
GoesOn ==
    /\ holding /\ Len(frames) < TrackRoom
    /\ PutFrames
    /\ UNCHANGED <<said, closed, flight, ended, heard, flushes>>

(* recv takes a frame (or makes a silent one, which is no step here), *)
Take ==
    /\ ~ended /\ flight = NoFrame /\ frames # << >>
    /\ frames' = Tail(frames)
    /\ IF Head(frames) = EndOfTrack
       THEN ended' = TRUE /\ UNCHANGED flight
       ELSE flight' = Head(frames) /\ UNCHANGED ended
    /\ UNCHANGED <<said, waiting, holding, closed, heard, flushes>>

(* and returns it when its time has come.                                  *)
Play ==
    /\ flight # NoFrame
    /\ heard' = Append(heard, flight) /\ flight' = NoFrame
    /\ UNCHANGED <<said, waiting, holding, frames, closed, ended, flushes>>

(* flush_outbound_audio, on a BARGE_IN of the client.                      *)
Flush ==
    /\ ~closed /\ flushes < MaxFlushes
    /\ frames' = << >>
    /\ flushes' = flushes + 1
    /\ UNCHANGED <<said, waiting, holding, closed, flight, ended, heard>>

(* Mutant: the sender is stopped and the queue left as it is. *)
CloseUndrained ==
    /\ ~closed /\ closed' = TRUE /\ ended' = TRUE
    /\ UNCHANGED <<said, waiting, holding, frames, flight, heard, flushes>>

(* Mutant: the end mark goes behind what is in the queue. *)
CloseBehind ==
    /\ ~closed /\ closed' = TRUE
    /\ frames' = Append(IF Len(frames) = TrackRoom THEN Tail(frames) ELSE frames, EndOfTrack)
    /\ UNCHANGED <<said, waiting, holding, flight, ended, heard, flushes>>

(* close_session: clear and close.                                         *)
Close ==
    /\ ~closed /\ closed' = TRUE
    /\ frames' = <<EndOfTrack>>
    /\ UNCHANGED <<said, waiting, holding, flight, ended, heard, flushes>>

Next == Broadcast \/ Enqueue \/ GoesOn \/ Take \/ Play \/ Flush \/ Close

(* The tasks of the loop go on when they can; the sender of a connection    *)
(* that is open calls recv again and again.                                *)
Fairness == WF_vars(Enqueue) /\ WF_vars(GoesOn) /\ WF_vars(Take) /\ WF_vars(Play)

Spec == Init /\ [][Next]_vars /\ Fairness

-----------------------------------------------------------------------------
Frames == [chunk : 1..MaxChunks, frame : 1..ChunkFrames]

TrackTypeOK ==
    /\ said \in 0..MaxChunks
    /\ waiting \in Seq([chunk : 1..MaxChunks, size : 1..ChunkFrames, sent : 0..ChunkFrames])
    /\ holding \in BOOLEAN /\ closed \in BOOLEAN /\ ended \in BOOLEAN
    /\ frames \in Seq(Frames \union {EndOfTrack})
    /\ flight \in Frames \union {NoFrame}
    /\ heard \in Seq(Frames)
    /\ flushes \in 0..MaxFlushes

(* What the learner hears, then the frame in flight, then what is in the   *)
(* queue is in the order it was said, no frame twice, though every chunk    *)
(* comes from a task of its own and a flush may fall between any two puts. *)
Before(f, g) == f.chunk < g.chunk \/ (f.chunk = g.chunk /\ f.frame < g.frame)
Queued == {i \in DOMAIN frames : frames[i] # EndOfTrack}
FramesInOrder ==
    /\ \A i, j \in DOMAIN heard : i < j => Before(heard[i], heard[j])
    /\ \A i, j \in Queued : i < j => Before(frames[i], frames[j])
    /\ \A i \in DOMAIN heard, j \in Queued : Before(heard[i], frames[j])
    /\ flight # NoFrame =>
        /\ \A i \in DOMAIN heard : Before(heard[i], flight)
        /\ \A j \in Queued : Before(flight, frames[j])

(* No broadcast waits for ever once the track is closed and nobody takes    *)
(* frames any more: the queue is within its bound, and the one at work has  *)
(* room in it for all it has left.                                         *)
RoomToFinish ==
    /\ Len(frames) <= TrackRoom
    /\ closed /\ holding => Len(frames) + Left(Head(waiting)) <= TrackRoom

(* The sender of a closed track meets its end before any frame, so that     *)
(* nothing of a session is heard behind its end but the frame in flight.    *)
EndComesFirst == closed => ended \/ (frames # << >> /\ Head(frames) = EndOfTrack)

(* Every broadcast comes to its end, however flushes and the close cross it. *)
BroadcastsEnd == waiting # << >> ~> waiting = << >>

================================================================================
