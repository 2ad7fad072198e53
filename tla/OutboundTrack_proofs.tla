-------------------------- MODULE OutboundTrack_proofs --------------------------
(***************************************************************************)
(* The order of frames and the end of the outbound track, for queues,       *)
(* chunks and numbers of them of every size.                               *)
(***************************************************************************)
EXTENDS OutboundTrack, SequenceTheorems, TLAPS

(* The frame a broadcast puts next.                                        *)
NextFrame(broadcast) == Frame(broadcast.chunk, broadcast.sent + 1)

(* What is queued or heard was said, and comes before all that waits.      *)
Awaited(f) ==
    /\ f.chunk <= said
    /\ \A i \in DOMAIN waiting : Before(f, NextFrame(waiting[i]))

(* The broadcasts wait in the order of their chunks with something left to *)
(* put.                                                                    *)
WaitingInOrder ==
    \A i \in DOMAIN waiting :
        /\ waiting[i].chunk <= said
        /\ waiting[i].sent < waiting[i].size
        /\ \A j \in DOMAIN waiting : i < j => waiting[i].chunk < waiting[j].chunk

PutComesNext ==
    /\ \A i \in DOMAIN heard : Awaited(heard[i])
    /\ \A i \in Queued : Awaited(frames[i])
    /\ flight # NoFrame => Awaited(flight)

TrackInv ==
    /\ TrackTypeOK
    /\ holding => waiting # << >>
    /\ WaitingInOrder
    /\ PutComesNext
    /\ FramesInOrder
    /\ RoomToFinish
    /\ EndComesFirst

Broadcasts == [chunk : 1..MaxChunks, size : 1..ChunkFrames, sent : 0..ChunkFrames]

-----------------------------------------------------------------------------
(* Nothing is said, queued or heard at first.                              *)
LEMMA TrackInvInit == Init => TrackInv
<1> SUFFICES ASSUME Init PROVE TrackInv
    OBVIOUS
<1>1. TrackTypeOK
  <2>1. said \in 0..MaxChunks /\ flushes \in 0..MaxFlushes
      BY TrackAssumption DEF Init
  <2>2. \A S : << >> \in Seq(S)
      BY EmptySeq
  <2> QED BY <2>1, <2>2 DEF Init, TrackTypeOK
<1>2. DOMAIN waiting = {} /\ DOMAIN heard = {} /\ DOMAIN frames = {}
    BY DEF Init
<1>3. WaitingInOrder /\ PutComesNext /\ FramesInOrder
    BY <1>2 DEF Init, WaitingInOrder, PutComesNext, FramesInOrder, Queued
<1>4. RoomToFinish /\ EndComesFirst
    BY TrackAssumption DEF Init, RoomToFinish, EndComesFirst
<1> QED
    BY <1>1, <1>3, <1>4 DEF Init, TrackInv

(* A new chunk waits behind all the others.                                *)
LEMMA BroadcastKeeps == TrackInv /\ Broadcast => TrackInv'
<1> SUFFICES ASSUME TrackInv, Broadcast PROVE TrackInv'
    OBVIOUS
<1>u. UNCHANGED <<holding, frames, closed, flight, ended, heard, flushes>> /\ said' = said + 1
    BY DEF Broadcast
<1>1. PICK size \in 1..ChunkFrames :
        waiting' = Append(waiting, [chunk |-> said + 1, size |-> size, sent |-> 0])
    BY DEF Broadcast
<1> DEFINE new == [chunk |-> said + 1, size |-> size, sent |-> 0]
<1>t. said \in 0..(MaxChunks - 1) /\ waiting \in Seq(Broadcasts)
    BY TrackAssumption DEF Broadcast, TrackInv, TrackTypeOK, Broadcasts
<1>2. new \in Broadcasts
    BY <1>t, TrackAssumption DEF Broadcasts
<1> HIDE DEF new
<1>3. /\ waiting' \in Seq(Broadcasts) /\ Len(waiting') = Len(waiting) + 1
      /\ \A i \in 1..Len(waiting) : waiting'[i] = waiting[i]
      /\ waiting'[Len(waiting) + 1] = new
    BY <1>1, <1>2, <1>t, AppendProperties DEF new
<1>4. DOMAIN waiting = 1..Len(waiting) /\ DOMAIN waiting' = 1..Len(waiting') /\ Len(waiting) \in Nat
    BY <1>3, <1>t, LenProperties
<1>5. TrackTypeOK'
    BY <1>u, <1>3, <1>t, TrackAssumption DEF TrackInv, TrackTypeOK, Broadcasts, Frames
<1>6. \A i \in DOMAIN waiting :
        waiting[i] \in Broadcasts /\ waiting[i].chunk <= said /\ waiting[i].sent < waiting[i].size
    BY <1>t, <1>4, ElementOfSeq DEF TrackInv, WaitingInOrder
<1>7. new.chunk = said + 1 /\ new.sent = 0 /\ new.size \in 1..ChunkFrames
    BY DEF new
<1>8. WaitingInOrder'
  <2>1. ASSUME NEW i \in 1..(Len(waiting) + 1)
        PROVE  waiting'[i].chunk <= said + 1 /\ waiting'[i].sent < waiting'[i].size
    <3>1. CASE i \in DOMAIN waiting
      <4>1. waiting'[i] = waiting[i]
          BY <3>1, <1>3, <1>4
      <4>2. waiting[i].chunk \in Int /\ waiting[i].chunk <= said /\ waiting[i].sent < waiting[i].size
          BY <3>1, <1>6 DEF Broadcasts
      <4> QED BY <4>1, <4>2, <1>t
    <3>2. CASE i = Len(waiting) + 1
        BY <3>2, <1>3, <1>7, <1>t
    <3> QED BY <3>1, <3>2, <1>4
  <2>2. ASSUME NEW i \in 1..(Len(waiting) + 1), NEW j \in 1..(Len(waiting) + 1), i < j
        PROVE  waiting'[i].chunk < waiting'[j].chunk
    <3>0. i \in DOMAIN waiting
        BY <2>2, <1>4
    <3>1. CASE j \in DOMAIN waiting
        BY <3>0, <3>1, <2>2, <1>3, <1>4 DEF TrackInv, WaitingInOrder
    <3>2. CASE j = Len(waiting) + 1
        BY <3>0, <3>2, <1>3, <1>4, <1>6, <1>7, <1>t DEF Broadcasts
    <3> QED BY <3>1, <3>2, <1>4
  <2> QED BY <2>1, <2>2, <1>3, <1>4, <1>u DEF WaitingInOrder
<1>9. ASSUME NEW f \in Frames, Awaited(f)
      PROVE  Awaited(f)'
  <2>1. f.chunk \in Nat /\ f.chunk <= said
      BY <1>9, TrackAssumption DEF Awaited, Frames
  <2>2. ASSUME NEW i \in 1..(Len(waiting) + 1)
        PROVE  Before(f, NextFrame(waiting'[i]))
    <3>1. CASE i \in DOMAIN waiting
        BY <3>1, <1>9, <1>3, <1>4 DEF Awaited
    <3>2. CASE i = Len(waiting) + 1
        BY <3>2, <2>1, <1>3, <1>7, <1>t DEF Before, NextFrame, Frame
    <3> QED BY <3>1, <3>2, <1>4
  <2>3. f.chunk <= said'
      BY <2>1, <1>u, <1>t
  <2> QED BY <2>2, <2>3, <1>3, <1>4 DEF Awaited
<1>10. PutComesNext'
  <2>1. \A i \in DOMAIN heard : heard[i] \in Frames
      BY ElementOfSeq, LenProperties DEF TrackInv, TrackTypeOK
  <2>2. \A i \in Queued : frames[i] \in Frames
      BY ElementOfSeq, LenProperties DEF TrackInv, TrackTypeOK, Queued
  <2>3. flight # NoFrame => flight \in Frames
      BY DEF TrackInv, TrackTypeOK
  <2>4. UNCHANGED <<heard, frames, flight, Queued>>
      BY <1>u DEF Queued
  <2>a. \A i \in DOMAIN heard : Awaited(heard[i])'
      BY <2>1, <1>9, <2>4 DEF TrackInv, PutComesNext
  <2>b. \A i \in Queued : Awaited(frames[i])'
      BY <2>2, <1>9, <2>4 DEF TrackInv, PutComesNext
  <2>c. flight # NoFrame => Awaited(flight)'
      BY <2>3, <1>9, <2>4 DEF TrackInv, PutComesNext
  <2> QED BY <2>a, <2>b, <2>c, <2>4 DEF PutComesNext
<1>11. FramesInOrder'
    BY <1>u DEF TrackInv, FramesInOrder, Queued
<1>12. RoomToFinish' /\ EndComesFirst'
    BY <1>u DEF Broadcast, TrackInv, RoomToFinish, EndComesFirst
<1>13. holding' => waiting' # << >>
    BY <1>3, <1>4
<1> QED
    BY <1>5, <1>8, <1>10, <1>11, <1>12, <1>13 DEF TrackInv

-----------------------------------------------------------------------------
(* What the first broadcast adds to the queue.                             *)
LEMMA PutAdds ==
  ASSUME TrackInv, waiting # << >>, PutFrames
  PROVE  /\ Fit \in Nat /\ Fit <= Left(waiting[1]) /\ Len(frames) + Fit <= TrackRoom
         /\ frames' \in Seq(Frames \union {EndOfTrack})
         /\ Len(frames') = Len(frames) + Fit
         /\ \A i \in 1..Len(frames) : frames'[i] = frames[i]
         /\ \A i \in 1..Fit :
              /\ Frame(waiting[1].chunk, waiting[1].sent + i) \in Frames
              /\ frames'[Len(frames) + i] = Frame(waiting[1].chunk, waiting[1].sent + i)
<1> DEFINE new == [i \in 1..Fit |-> Frame(Head(waiting).chunk, Head(waiting).sent + i)]
<1>1. waiting \in Seq(Broadcasts) /\ frames \in Seq(Frames \union {EndOfTrack})
    BY DEF TrackInv, TrackTypeOK, Broadcasts
<1>2. Len(waiting) \in Nat /\ DOMAIN waiting = 1..Len(waiting) /\ Len(frames) \in Nat /\ 1 \in DOMAIN waiting
    BY <1>1, LenProperties, EmptySeq
<1>3. Head(waiting) = waiting[1] /\ waiting[1] \in Broadcasts
    BY <1>1, <1>2, ElementOfSeq
<1>4. Left(waiting[1]) \in Nat \ {0}
    BY <1>2, <1>3 DEF TrackInv, WaitingInOrder, Left, Broadcasts
<1>5. Len(frames) <= TrackRoom
    BY DEF TrackInv, RoomToFinish
<1>6. Fit \in Nat /\ Fit <= Left(waiting[1]) /\ Len(frames) + Fit <= TrackRoom
    BY <1>2, <1>3, <1>4, <1>5, TrackAssumption DEF Fit
<1>7. ASSUME NEW i \in 1..Fit
      PROVE  Frame(waiting[1].chunk, waiting[1].sent + i) \in Frames
  <2>1. waiting[1].sent + i \in 1..ChunkFrames /\ waiting[1].chunk \in 1..MaxChunks
      BY <1>3, <1>4, <1>6, TrackAssumption DEF Left, Broadcasts
  <2> QED BY <2>1 DEF Frame, Frames
<1>8. new \in Seq(Frames \union {EndOfTrack}) /\ Len(new) = Fit
    BY <1>3, <1>6, <1>7
<1>9. frames' = frames \o new
    BY DEF PutFrames
<1>10. \A i \in 1..Fit : new[i] = Frame(waiting[1].chunk, waiting[1].sent + i)
    BY <1>3
<1> HIDE DEF new
<1>11. /\ frames' \in Seq(Frames \union {EndOfTrack})
       /\ Len(frames') = Len(frames) + Fit
       /\ \A i \in 1..(Len(frames) + Fit) :
            frames'[i] = IF i <= Len(frames) THEN frames[i] ELSE new[i - Len(frames)]
    BY <1>1, <1>8, <1>9, ConcatProperties
<1>12. \A i \in 1..Len(frames) : frames'[i] = frames[i]
    BY <1>11, <1>2, <1>6
<1>13. ASSUME NEW i \in 1..Fit
       PROVE  frames'[Len(frames) + i] = Frame(waiting[1].chunk, waiting[1].sent + i)
  <2>1. /\ Len(frames) + i \in 1..(Len(frames) + Fit) /\ ~(Len(frames) + i <= Len(frames))
        /\ (Len(frames) + i) - Len(frames) = i
      BY <1>2, <1>6
  <2>2. frames'[Len(frames) + i] = new[(Len(frames) + i) - Len(frames)]
      BY <1>11, <2>1
  <2> QED BY <2>1, <2>2, <1>10
<1> QED
    BY <1>6, <1>7, <1>11, <1>12, <1>13

(* What is left of the broadcasts: each was there before, and only the     *)
(* first has put anything.                                                 *)
LEMMA PutLeaves ==
  ASSUME TrackInv, waiting # << >>, PutFrames
  PROVE  /\ waiting' \in Seq(Broadcasts)
         /\ holding' \in BOOLEAN /\ (holding' => waiting' # << >> /\ Left(Head(waiting')) = Left(waiting[1]) - Fit)
         /\ \E skip \in {0, 1} :
              /\ Len(waiting') = Len(waiting) - skip
              /\ \A i \in 1..Len(waiting') :
                   /\ i + skip \in DOMAIN waiting
                   /\ waiting'[i].chunk = waiting[i + skip].chunk
                   /\ waiting'[i].size = waiting[i + skip].size
                   /\ IF i + skip = 1
                      THEN waiting'[i].sent = waiting[1].sent + Fit /\ Fit < Left(waiting[1])
                      ELSE waiting'[i].sent = waiting[i + skip].sent
<1>1. waiting \in Seq(Broadcasts)
    BY DEF TrackInv, TrackTypeOK, Broadcasts
<1>2. Len(waiting) \in Nat /\ DOMAIN waiting = 1..Len(waiting) /\ 1 \in DOMAIN waiting
    BY <1>1, LenProperties, EmptySeq
<1>3. Head(waiting) = waiting[1] /\ waiting[1] \in Broadcasts
    BY <1>1, <1>2, ElementOfSeq
<1>4. Fit \in Nat /\ Fit <= Left(waiting[1])
    BY PutAdds
<1>5. CASE Fit = Left(Head(waiting))
  <2>1. waiting' = Tail(waiting) /\ holding' = FALSE
      BY <1>5 DEF PutFrames
  <2>2. /\ Tail(waiting) \in Seq(Broadcasts) /\ Len(Tail(waiting)) = Len(waiting) - 1
        /\ \A i \in 1..Len(Tail(waiting)) : Tail(waiting)[i] = waiting[i + 1]
      BY <1>1, HeadTailProperties
  <2>3. \A i \in 1..Len(waiting') : i + 1 \in DOMAIN waiting /\ i + 1 # 1 /\ waiting'[i] = waiting[i + 1]
      BY <2>1, <2>2, <1>2
  <2> QED BY <2>1, <2>2, <2>3
<1>6. CASE Fit # Left(Head(waiting))
  <2> DEFINE first == [waiting[1] EXCEPT !.sent = @ + Fit]
  <2>1. waiting' = <<first>> \o Tail(waiting) /\ holding' = TRUE
      BY <1>6, <1>3 DEF PutFrames
  <2>2. Fit < Left(waiting[1])
      BY <1>3, <1>4, <1>6 DEF Left, Broadcasts
  <2>3. /\ first \in Broadcasts /\ first.chunk = waiting[1].chunk /\ first.size = waiting[1].size
        /\ first.sent = waiting[1].sent + Fit
      BY <1>3, <1>4, <2>2, TrackAssumption DEF Left, Broadcasts
  <2> HIDE DEF first
  <2>4. <<first>> \in Seq(Broadcasts) /\ Len(<<first>>) = 1 /\ <<first>>[1] = first
      BY <2>3
  <2>5. /\ Tail(waiting) \in Seq(Broadcasts) /\ Len(Tail(waiting)) = Len(waiting) - 1
        /\ \A i \in 1..Len(Tail(waiting)) : Tail(waiting)[i] = waiting[i + 1]
      BY <1>1, HeadTailProperties
  <2>6. /\ waiting' \in Seq(Broadcasts) /\ Len(waiting') = 1 + (Len(waiting) - 1)
        /\ \A i \in 1..(1 + (Len(waiting) - 1)) :
              waiting'[i] = IF i <= 1 THEN <<first>>[i] ELSE Tail(waiting)[i - 1]
      BY <2>1, <2>4, <2>5, ConcatProperties
  <2>7. waiting'[1] = first /\ \A i \in 2..Len(waiting) : waiting'[i] = waiting[i]
      BY <2>4, <2>5, <2>6, <1>2
  <2>8. Len(waiting') = Len(waiting) /\ waiting' # << >> /\ Head(waiting') = waiting'[1]
      BY <2>6, <1>2
  <2>9. Left(Head(waiting')) = Left(waiting[1]) - Fit
      BY <2>3, <2>7, <2>8, <1>3, <1>4 DEF Left, Broadcasts
  <2>10. ASSUME NEW i \in 1..Len(waiting')
         PROVE  /\ i + 0 \in DOMAIN waiting
                /\ waiting'[i].chunk = waiting[i + 0].chunk
                /\ waiting'[i].size = waiting[i + 0].size
                /\ IF i + 0 = 1
                   THEN waiting'[i].sent = waiting[1].sent + Fit /\ Fit < Left(waiting[1])
                   ELSE waiting'[i].sent = waiting[i + 0].sent
      BY <1>2, <2>2, <2>3, <2>7, <2>8
  <2>11. Len(waiting') = Len(waiting) - 0
      BY <2>8, <1>2
  <2> QED BY <2>1, <2>6, <2>8, <2>9, <2>10, <2>11
<1> QED
    BY <1>5, <1>6

(* A put keeps the order, whether it is the first of its broadcast or one  *)
(* that waited for room.                                                   *)
LEMMA PutKeeps ==
  ASSUME TrackInv, waiting # << >>, PutFrames, closed => holding,
         UNCHANGED <<said, closed, flight, ended, heard, flushes>>
  PROVE  TrackInv'
<1>1. waiting \in Seq(Broadcasts) /\ frames \in Seq(Frames \union {EndOfTrack}) /\ heard \in Seq(Frames)
    BY DEF TrackInv, TrackTypeOK, Broadcasts
<1>2. /\ Len(waiting) \in Nat /\ DOMAIN waiting = 1..Len(waiting) /\ 1 \in DOMAIN waiting
      /\ Len(frames) \in Nat /\ DOMAIN frames = 1..Len(frames) /\ DOMAIN heard = 1..Len(heard)
    BY <1>1, LenProperties, EmptySeq
<1>3. /\ \A i \in DOMAIN waiting : waiting[i] \in Broadcasts
      /\ \A i \in DOMAIN heard : heard[i] \in Frames
      /\ \A i \in Queued : frames[i] \in Frames
      /\ flight # NoFrame => flight \in Frames
    BY <1>1, <1>2, ElementOfSeq DEF TrackInv, TrackTypeOK, Queued
<1> DEFINE new(k) == Frame(waiting[1].chunk, waiting[1].sent + k)
<1> DEFINE Later(f) == /\ f.chunk <= said'
                       /\ \A i \in DOMAIN waiting' : Before(f, NextFrame(waiting'[i]))
<1>4. /\ Fit \in Nat /\ Fit <= Left(waiting[1]) /\ Len(frames) + Fit <= TrackRoom
      /\ frames' \in Seq(Frames \union {EndOfTrack})
      /\ Len(frames') = Len(frames) + Fit
      /\ \A i \in 1..Len(frames) : frames'[i] = frames[i]
      /\ \A i \in 1..Fit : new(i) \in Frames /\ frames'[Len(frames) + i] = new(i)
    BY PutAdds
<1>5. /\ waiting' \in Seq(Broadcasts)
      /\ holding' \in BOOLEAN /\ (holding' => waiting' # << >> /\ Left(Head(waiting')) = Left(waiting[1]) - Fit)
    BY PutLeaves
<1>6. PICK skip \in {0, 1} :
        /\ Len(waiting') = Len(waiting) - skip
        /\ \A i \in 1..Len(waiting') :
             /\ i + skip \in DOMAIN waiting
             /\ waiting'[i].chunk = waiting[i + skip].chunk
             /\ waiting'[i].size = waiting[i + skip].size
             /\ IF i + skip = 1
                THEN waiting'[i].sent = waiting[1].sent + Fit /\ Fit < Left(waiting[1])
                ELSE waiting'[i].sent = waiting[i + skip].sent
    BY PutLeaves
<1>7. DOMAIN waiting' = 1..Len(waiting') /\ DOMAIN frames' = 1..Len(frames')
    BY <1>4, <1>5, LenProperties
<1>8. Head(waiting) = waiting[1] /\ waiting[1] \in Broadcasts
    BY <1>2, <1>3
<1>9. TrackTypeOK'
    BY <1>4, <1>5 DEF TrackInv, TrackTypeOK, Broadcasts, Frames
<1>10. WaitingInOrder'
  <2>1. ASSUME NEW i \in 1..Len(waiting')
        PROVE  waiting'[i].chunk <= said /\ waiting'[i].sent < waiting'[i].size
    <3>1. CASE i + skip = 1
      <4>1. /\ waiting'[i].chunk = waiting[1].chunk /\ waiting'[i].size = waiting[1].size
            /\ waiting'[i].sent = waiting[1].sent + Fit /\ Fit < Left(waiting[1])
          BY <3>1, <1>6
      <4>2. waiting[1].chunk <= said
          BY <1>2 DEF TrackInv, WaitingInOrder
      <4> QED BY <4>1, <4>2, <1>4, <1>8 DEF Left, Broadcasts
    <3>2. CASE i + skip # 1
        BY <3>2, <1>6 DEF TrackInv, WaitingInOrder
    <3> QED BY <3>1, <3>2
  <2>2. ASSUME NEW i \in 1..Len(waiting'), NEW j \in 1..Len(waiting'), i < j
        PROVE  waiting'[i].chunk < waiting'[j].chunk
    <3>1. i + skip \in DOMAIN waiting /\ j + skip \in DOMAIN waiting /\ i + skip < j + skip
        BY <2>2, <1>6
    <3>2. waiting[i + skip].chunk < waiting[j + skip].chunk
        BY <3>1 DEF TrackInv, WaitingInOrder
    <3> QED BY <3>2, <1>6
  <2> QED BY <2>1, <2>2, <1>7 DEF WaitingInOrder
<1>11. ASSUME NEW f \in Frames, Awaited(f)
       PROVE  Later(f)
  <2>1. ASSUME NEW i \in 1..Len(waiting')
        PROVE  Before(f, NextFrame(waiting'[i]))
    <3>1. i + skip \in DOMAIN waiting /\ Before(f, NextFrame(waiting[i + skip]))
        BY <1>6, <1>11 DEF Awaited
    <3>2. waiting'[i].chunk = waiting[i + skip].chunk /\ waiting'[i].sent >= waiting[i + skip].sent
      <4>1. CASE i + skip = 1
          BY <4>1, <1>4, <1>6, <1>8 DEF Broadcasts
      <4>2. CASE i + skip # 1
          BY <4>2, <1>3, <1>6 DEF Broadcasts
      <4> QED BY <4>1, <4>2
    <3>3. waiting'[i] \in Broadcasts /\ waiting[i + skip] \in Broadcasts
        BY <1>3, <1>5, <3>1, ElementOfSeq
    <3> QED BY <3>1, <3>2, <3>3 DEF Before, NextFrame, Frame, Broadcasts, Frames
  <2>2. f.chunk <= said' BY <1>11 DEF Awaited
  <2> QED BY <2>1, <2>2, <1>7
<1>12. ASSUME NEW k \in 1..Fit
       PROVE  Later(new(k))
  <2>1. waiting[1].chunk <= said
      BY <1>2 DEF TrackInv, WaitingInOrder
  <2>2. ASSUME NEW i \in 1..Len(waiting')
        PROVE  Before(new(k), NextFrame(waiting'[i]))
    <3>0. waiting'[i] \in Broadcasts
        BY <1>5, ElementOfSeq
    <3>1. CASE i + skip = 1
        BY <3>0, <3>1, <1>4, <1>6, <1>8 DEF Before, NextFrame, Frame, Broadcasts
    <3>2. CASE i + skip # 1
      <4>1. i + skip \in DOMAIN waiting /\ 1 < i + skip
          BY <3>2, <1>2, <1>6
      <4>2. waiting[1].chunk < waiting'[i].chunk
          BY <4>1, <1>2, <1>6 DEF TrackInv, WaitingInOrder
      <4> QED BY <4>2 DEF Before, NextFrame, Frame
    <3> QED BY <3>1, <3>2
  <2>3. new(k).chunk <= said' BY <2>1 DEF Frame
  <2> QED BY <2>2, <2>3, <1>7
<1>13. ASSUME NEW j \in Queued'
       PROVE  \/ j \in Queued /\ frames'[j] = frames[j]
              \/ j - Len(frames) \in 1..Fit /\ frames'[j] = new(j - Len(frames))
  <2>1. CASE j <= Len(frames)
      BY <2>1, <1>2, <1>4, <1>7 DEF Queued
  <2>2. CASE j > Len(frames)
    <3>1. j - Len(frames) \in 1..Fit /\ Len(frames) + (j - Len(frames)) = j
        BY <2>2, <1>2, <1>4, <1>7 DEF Queued
    <3> QED BY <3>1, <1>4
  <2> QED BY <2>1, <2>2, <1>2, <1>7 DEF Queued
<1>14. PutComesNext'
  <2>1. ASSUME NEW i \in DOMAIN heard PROVE Later(heard[i])
      BY <1>3, <1>11 DEF TrackInv, PutComesNext
  <2>2. ASSUME NEW j \in Queued' PROVE Later(frames'[j])
    <3>1. CASE j \in Queued /\ frames'[j] = frames[j]
      <4>1. Awaited(frames[j]) /\ frames[j] \in Frames
          BY <3>1, <1>3 DEF TrackInv, PutComesNext
      <4>2. Later(frames[j])
          BY <4>1, <1>11
      <4> QED BY <3>1, <4>2
    <3>2. CASE j - Len(frames) \in 1..Fit /\ frames'[j] = new(j - Len(frames))
        BY <3>2, <1>12
    <3> QED BY <1>13, <3>1, <3>2
  <2>3. ASSUME flight # NoFrame PROVE Later(flight)
      BY <2>3, <1>3, <1>11 DEF TrackInv, PutComesNext
  <2>4. UNCHANGED <<heard, flight>>
      OBVIOUS
  <2> QED BY <2>1, <2>2, <2>3, <2>4 DEF PutComesNext, Awaited
<1>15. ASSUME NEW f \in Frames, Awaited(f), NEW k \in 1..Fit
       PROVE  Before(f, new(k))
  <2>1. Before(f, NextFrame(waiting[1]))
      BY <1>2, <1>15 DEF Awaited
  <2> QED BY <2>1, <1>8 DEF Before, NextFrame, Frame, Broadcasts, Frames
<1>16. FramesInOrder'
  <2>1. ASSUME NEW i \in Queued', NEW j \in Queued', i < j
        PROVE  Before(frames'[i], frames'[j])
    <3>0. i \in Nat /\ j \in Nat
        BY <1>7 DEF Queued
    <3>1. CASE i \in Queued /\ frames'[i] = frames[i] /\ j \in Queued /\ frames'[j] = frames[j]
        BY <3>1, <2>1 DEF TrackInv, FramesInOrder
    <3>2. CASE i \in Queued /\ frames'[i] = frames[i]
               /\ j - Len(frames) \in 1..Fit /\ frames'[j] = new(j - Len(frames))
        BY <3>2, <1>3, <1>15 DEF TrackInv, PutComesNext
    <3>3. CASE i - Len(frames) \in 1..Fit /\ frames'[i] = new(i - Len(frames))
               /\ j - Len(frames) \in 1..Fit /\ frames'[j] = new(j - Len(frames))
        BY <3>0, <3>3, <2>1, <1>2, <1>8 DEF Before, Frame, Broadcasts
    <3>4. CASE i - Len(frames) \in 1..Fit /\ j \in Queued
        BY <3>0, <3>4, <2>1, <1>2 DEF Queued
    <3> QED BY <1>13, <3>1, <3>2, <3>3, <3>4
  <2>2. ASSUME NEW i \in DOMAIN heard, NEW j \in Queued'
        PROVE  Before(heard[i], frames'[j])
    <3>1. CASE j \in Queued /\ frames'[j] = frames[j]
        BY <3>1 DEF TrackInv, FramesInOrder
    <3>2. CASE j - Len(frames) \in 1..Fit /\ frames'[j] = new(j - Len(frames))
        BY <3>2, <1>3, <1>15 DEF TrackInv, PutComesNext
    <3> QED BY <1>13, <3>1, <3>2
  <2>3. ASSUME flight # NoFrame, NEW j \in Queued'
        PROVE  Before(flight, frames'[j])
    <3>1. CASE j \in Queued /\ frames'[j] = frames[j]
        BY <2>3, <3>1 DEF TrackInv, FramesInOrder
    <3>2. CASE j - Len(frames) \in 1..Fit /\ frames'[j] = new(j - Len(frames))
        BY <2>3, <3>2, <1>3, <1>15 DEF TrackInv, PutComesNext
    <3> QED BY <1>13, <3>1, <3>2
  <2>4. \A i, j \in DOMAIN heard : i < j => Before(heard[i], heard[j])
      BY DEF TrackInv, FramesInOrder
  <2>5. flight # NoFrame => \A i \in DOMAIN heard : Before(heard[i], flight)
      BY DEF TrackInv, FramesInOrder
  <2>6. UNCHANGED <<heard, flight>>
      OBVIOUS
  <2> QED BY <2>1, <2>2, <2>3, <2>4, <2>5, <2>6 DEF FramesInOrder
<1>17. RoomToFinish'
  <2>1. Len(frames') <= TrackRoom
      BY <1>4
  <2>2. ASSUME closed, holding' PROVE Len(frames') + Left(Head(waiting')) <= TrackRoom
    <3>1. Len(frames) + Left(waiting[1]) <= TrackRoom
        BY <2>2, <1>8 DEF TrackInv, RoomToFinish
    <3>2. Left(waiting[1]) \in Int
        BY <1>8 DEF Left, Broadcasts
    <3>3. Left(Head(waiting')) = Left(waiting[1]) - Fit
        BY <2>2, <1>5
    <3> QED BY <3>1, <3>2, <3>3, <1>2, <1>4, TrackAssumption
  <2>3. Left(Head(waiting))' = Left(Head(waiting'))
      BY DEF Left
  <2> QED BY <2>1, <2>2, <2>3 DEF RoomToFinish
<1>18. EndComesFirst'
  <2>1. ASSUME frames # << >> PROVE frames' # << >> /\ Head(frames') = Head(frames)
    <3>1. Len(frames) > 0
        BY <2>1, <1>1, EmptySeq
    <3>2. Head(frames) = frames[1] /\ frames'[1] = frames[1] /\ Len(frames') > 0
        BY <2>1, <3>1, <1>2, <1>4
    <3> QED BY <3>2, <1>4
  <2> QED BY <2>1 DEF TrackInv, EndComesFirst
<1> QED
    BY <1>5, <1>9, <1>10, <1>14, <1>16, <1>17, <1>18 DEF TrackInv

-----------------------------------------------------------------------------
(* The next broadcast in the line.  On a closed track it ends.             *)
LEMMA EnqueueKeeps == TrackInv /\ Enqueue => TrackInv'
<1> SUFFICES ASSUME TrackInv, Enqueue PROVE TrackInv'
    OBVIOUS
<1>0. waiting # << >> /\ ~holding /\ UNCHANGED <<said, closed, flight, ended, heard, flushes>>
    BY DEF Enqueue
<1>1. CASE ~closed
  <2>1. PutFrames
      BY <1>1 DEF Enqueue
  <2> QED BY <1>0, <1>1, <2>1, PutKeeps
<1>2. CASE closed
  <2>1. waiting' = Tail(waiting) /\ UNCHANGED <<frames, holding>>
      BY <1>2 DEF Enqueue
  <2>2. waiting \in Seq(Broadcasts)
      BY DEF TrackInv, TrackTypeOK, Broadcasts
  <2>3. /\ waiting' \in Seq(Broadcasts) /\ Len(waiting') = Len(waiting) - 1
        /\ \A i \in 1..Len(waiting') : waiting'[i] = waiting[i + 1]
      BY <1>0, <2>1, <2>2, HeadTailProperties
  <2>4. /\ DOMAIN waiting = 1..Len(waiting) /\ DOMAIN waiting' = 1..Len(waiting')
        /\ Len(waiting) \in Nat /\ Len(waiting') \in Nat
      BY <2>2, <2>3, LenProperties
  <2>5. \A i \in DOMAIN waiting' : i + 1 \in DOMAIN waiting /\ waiting'[i] = waiting[i + 1]
      BY <2>3, <2>4
  <2>6. TrackTypeOK'
      BY <1>0, <2>1, <2>3 DEF TrackInv, TrackTypeOK, Broadcasts, Frames
  <2>7. WaitingInOrder'
    <3>1. ASSUME NEW i \in DOMAIN waiting', NEW j \in DOMAIN waiting', i < j
          PROVE  waiting'[i].chunk < waiting'[j].chunk
      <4>1. i + 1 \in DOMAIN waiting /\ j + 1 \in DOMAIN waiting /\ i + 1 < j + 1
          BY <3>1, <2>4, <2>5
      <4> QED BY <4>1, <2>5 DEF TrackInv, WaitingInOrder
    <3>2. \A i \in DOMAIN waiting' :
            waiting'[i].chunk <= said' /\ waiting'[i].sent < waiting'[i].size
        BY <1>0, <2>5 DEF TrackInv, WaitingInOrder
    <3> QED BY <3>1, <3>2 DEF WaitingInOrder
  <2>8. ASSUME NEW f, Awaited(f) PROVE Awaited(f)'
      BY <1>0, <2>5, <2>8 DEF Awaited
  <2>9. PutComesNext'
    <3>1. \A i \in DOMAIN heard : Awaited(heard[i])'
        BY <1>0, <2>8 DEF TrackInv, PutComesNext
    <3>2. \A i \in Queued : Awaited(frames[i])'
        BY <2>1, <2>8 DEF TrackInv, PutComesNext
    <3>3. flight # NoFrame => Awaited(flight)'
        BY <1>0, <2>8 DEF TrackInv, PutComesNext
    <3> QED BY <1>0, <2>1, <3>1, <3>2, <3>3 DEF PutComesNext, Queued
  <2>10. FramesInOrder'
      BY <1>0, <2>1 DEF TrackInv, FramesInOrder, Queued
  <2>11. RoomToFinish' /\ EndComesFirst'
      BY <1>0, <2>1 DEF TrackInv, RoomToFinish, EndComesFirst
  <2>12. ~holding'
      BY <1>0, <2>1
  <2> QED BY <2>6, <2>7, <2>9, <2>10, <2>11, <2>12 DEF TrackInv
<1> QED
    BY <1>1, <1>2

LEMMA GoesOnKeeps == TrackInv /\ GoesOn => TrackInv'
<1> SUFFICES ASSUME TrackInv, GoesOn PROVE TrackInv'
    OBVIOUS
<1>1. waiting # << >> /\ holding
    BY DEF GoesOn, TrackInv
<1>2. PutFrames /\ UNCHANGED <<said, closed, flight, ended, heard, flushes>>
    BY DEF GoesOn
<1> QED
    BY <1>1, <1>2, PutKeeps

(* A frame leaves the queue for the sender, or the sender meets the end.   *)
LEMMA TakeKeeps == TrackInv /\ Take => TrackInv'
<1> SUFFICES ASSUME TrackInv, Take PROVE TrackInv'
    OBVIOUS
<1>0. /\ flight = NoFrame /\ ~ended /\ frames # << >> /\ frames' = Tail(frames)
      /\ UNCHANGED <<said, waiting, holding, closed, heard, flushes>>
    BY DEF Take
<1>1. frames \in Seq(Frames \union {EndOfTrack}) /\ heard \in Seq(Frames)
    BY DEF TrackInv, TrackTypeOK
<1>2. /\ frames' \in Seq(Frames \union {EndOfTrack}) /\ Len(frames') = Len(frames) - 1
      /\ \A i \in 1..Len(frames') : frames'[i] = frames[i + 1]
    BY <1>0, <1>1, HeadTailProperties
<1>3. /\ DOMAIN frames = 1..Len(frames) /\ DOMAIN frames' = 1..Len(frames')
      /\ Len(frames) \in Nat /\ Len(frames') \in Nat /\ 1 \in DOMAIN frames
    BY <1>0, <1>1, <1>2, LenProperties, EmptySeq
<1>4. \A i \in Queued' : i \in Nat \ {0} /\ i + 1 \in Queued /\ frames'[i] = frames[i + 1]
    BY <1>2, <1>3 DEF Queued
<1>5. Head(frames) = frames[1] /\ frames[1] \in Frames \union {EndOfTrack}
    BY <1>1, <1>3, ElementOfSeq
<1>6. \/ frames[1] = EndOfTrack /\ ended' = TRUE /\ flight' = NoFrame
      \/ 1 \in Queued /\ frames[1] \in Frames /\ flight' = frames[1] /\ ended' = ended
    BY <1>0, <1>3, <1>5 DEF Take, Queued
<1>7. TrackTypeOK'
    BY <1>0, <1>2, <1>6 DEF TrackInv, TrackTypeOK, Frames
<1>8. WaitingInOrder'
    BY <1>0 DEF TrackInv, WaitingInOrder
<1>9. PutComesNext'
  <2>1. \A f : Awaited(f) <=> Awaited(f)'
      BY <1>0 DEF Awaited
  <2>2. \A i \in DOMAIN heard' : Awaited(heard'[i])
      BY <1>0 DEF TrackInv, PutComesNext
  <2>3. \A i \in Queued' : Awaited(frames'[i])
      BY <1>4 DEF TrackInv, PutComesNext
  <2>4. flight' # NoFrame => Awaited(flight')
      BY <1>6 DEF TrackInv, PutComesNext
  <2> QED BY <1>0, <2>2, <2>3, <2>4 DEF PutComesNext, Awaited
<1>10. FramesInOrder'
  <2>1. \A i, j \in Queued' : i < j => Before(frames'[i], frames'[j])
    <3>1. ASSUME NEW i \in Queued', NEW j \in Queued', i < j
          PROVE  Before(frames'[i], frames'[j])
      <4>1. i + 1 \in Queued /\ j + 1 \in Queued /\ i + 1 < j + 1
          BY <1>4, <3>1
      <4> QED BY <4>1, <1>4 DEF TrackInv, FramesInOrder
    <3> QED BY <3>1
  <2>2. \A i \in DOMAIN heard, j \in Queued' : Before(heard[i], frames'[j])
      BY <1>4 DEF TrackInv, FramesInOrder
  <2>3. flight' # NoFrame =>
          /\ \A i \in DOMAIN heard : Before(heard[i], flight')
          /\ \A j \in Queued' : Before(flight', frames'[j])
    <3>1. ASSUME 1 \in Queued, flight' = frames[1], NEW j \in Queued'
          PROVE  Before(flight', frames'[j])
      <4>1. j + 1 \in Queued /\ 1 < j + 1 /\ frames'[j] = frames[j + 1]
          BY <1>4
      <4> QED BY <3>1, <4>1 DEF TrackInv, FramesInOrder
    <3>2. ASSUME 1 \in Queued, flight' = frames[1], NEW i \in DOMAIN heard
          PROVE  Before(heard[i], flight')
        BY <3>2 DEF TrackInv, FramesInOrder
    <3> QED BY <1>6, <3>1, <3>2
  <2>4. \A i, j \in DOMAIN heard : i < j => Before(heard[i], heard[j])
      BY DEF TrackInv, FramesInOrder
  <2> QED BY <1>0, <2>1, <2>2, <2>3, <2>4 DEF FramesInOrder
<1>11. RoomToFinish'
  <2>1. Len(frames') <= TrackRoom
      BY <1>2, <1>3, TrackAssumption DEF TrackInv, RoomToFinish
  <2>2. ASSUME closed, holding PROVE Len(frames') + Left(Head(waiting)) <= TrackRoom
    <3>1. waiting # << >> /\ waiting \in Seq(Broadcasts)
        BY <2>2 DEF TrackInv, TrackTypeOK, Broadcasts
    <3>0. Head(waiting) \in Broadcasts
        BY <3>1, HeadTailProperties
    <3>2. Left(Head(waiting)) \in Int
        BY <3>0 DEF Left, Broadcasts
    <3>3. Len(frames) + Left(Head(waiting)) <= TrackRoom
        BY <2>2 DEF TrackInv, RoomToFinish
    <3> QED BY <3>2, <3>3, <1>2, <1>3, TrackAssumption
  <2> QED BY <1>0, <2>1, <2>2 DEF RoomToFinish, Left
<1>12. EndComesFirst'
  <2>1. closed => frames[1] = EndOfTrack
      BY <1>0, <1>5 DEF TrackInv, EndComesFirst
  <2>2. closed => ended'
      BY <2>1, <1>0, <1>5 DEF Take
  <2> QED BY <1>0, <2>2 DEF EndComesFirst
<1>13. holding' => waiting' # << >>
    BY <1>0 DEF TrackInv
<1> QED
    BY <1>7, <1>8, <1>9, <1>10, <1>11, <1>12, <1>13 DEF TrackInv

(* The frame in flight is heard.                                           *)
LEMMA PlayKeeps == TrackInv /\ Play => TrackInv'
<1> SUFFICES ASSUME TrackInv, Play PROVE TrackInv'
    OBVIOUS
<1>0. /\ flight # NoFrame /\ heard' = Append(heard, flight) /\ flight' = NoFrame
      /\ UNCHANGED <<said, waiting, holding, frames, closed, ended, flushes>>
    BY DEF Play
<1>1. heard \in Seq(Frames) /\ flight \in Frames
    BY <1>0 DEF TrackInv, TrackTypeOK
<1>2. /\ heard' \in Seq(Frames) /\ Len(heard') = Len(heard) + 1
      /\ \A i \in 1..Len(heard) : heard'[i] = heard[i]
      /\ heard'[Len(heard) + 1] = flight
    BY <1>0, <1>1, AppendProperties
<1>3. DOMAIN heard = 1..Len(heard) /\ DOMAIN heard' = 1..Len(heard') /\ Len(heard) \in Nat
    BY <1>1, <1>2, LenProperties
<1>4. \A i \in DOMAIN heard' : (i \in DOMAIN heard /\ heard'[i] = heard[i])
                               \/ (i = Len(heard) + 1 /\ heard'[i] = flight)
    BY <1>2, <1>3
<1>5. TrackTypeOK'
    BY <1>0, <1>2 DEF TrackInv, TrackTypeOK, Frames
<1>6. WaitingInOrder'
    BY <1>0 DEF TrackInv, WaitingInOrder
<1>7. PutComesNext'
  <2>1. \A i \in DOMAIN heard' : Awaited(heard'[i])
      BY <1>0, <1>4 DEF TrackInv, PutComesNext
  <2>2. \A i \in Queued' : Awaited(frames'[i])
      BY <1>0 DEF TrackInv, PutComesNext, Queued
  <2> QED BY <1>0, <2>1, <2>2 DEF PutComesNext, Awaited
<1>8. FramesInOrder'
  <2>1. ASSUME NEW i \in DOMAIN heard', NEW j \in DOMAIN heard', i < j
        PROVE  Before(heard'[i], heard'[j])
    <3>1. i \in DOMAIN heard /\ heard'[i] = heard[i]
        BY <2>1, <1>2, <1>3
    <3> QED BY <1>0, <1>4, <2>1, <3>1 DEF TrackInv, FramesInOrder
  <2>2. \A i \in DOMAIN heard', j \in Queued : Before(heard'[i], frames[j])
      BY <1>0, <1>4 DEF TrackInv, FramesInOrder
  <2>3. \A i, j \in Queued : i < j => Before(frames[i], frames[j])
      BY DEF TrackInv, FramesInOrder
  <2>4. UNCHANGED <<frames, Queued>>
      BY <1>0 DEF Queued
  <2> QED BY <1>0, <2>1, <2>2, <2>3, <2>4 DEF FramesInOrder
<1>9. RoomToFinish' /\ EndComesFirst' /\ (holding' => waiting' # << >>)
    BY <1>0 DEF TrackInv, RoomToFinish, EndComesFirst, Left
<1> QED
    BY <1>5, <1>6, <1>7, <1>8, <1>9 DEF TrackInv

(* A flush and the close throw away what is queued.                        *)
LEMMA DropKeeps ==
  ASSUME TrackInv, UNCHANGED <<said, waiting, holding, flight, heard>>,
         frames' \in Seq({EndOfTrack}), Len(frames') <= TrackRoom,
         closed' \in BOOLEAN, ended' = ended, flushes' \in 0..MaxFlushes, RoomToFinish', EndComesFirst'
  PROVE  TrackInv'
<1>1. DOMAIN frames' = 1..Len(frames') /\ \A i \in DOMAIN frames' : frames'[i] = EndOfTrack
    BY LenProperties, ElementOfSeq
<1>2. Queued' = {}
    BY <1>1 DEF Queued
<1>3. frames' \in Seq(Frames \union {EndOfTrack})
    BY SeqMonotonic
<1>4. TrackTypeOK'
    BY <1>3 DEF TrackInv, TrackTypeOK, Frames
<1>5. WaitingInOrder'
    BY DEF TrackInv, WaitingInOrder
<1>6. PutComesNext'
    BY <1>2 DEF TrackInv, PutComesNext, Awaited
<1>7. FramesInOrder'
    BY <1>2 DEF TrackInv, FramesInOrder
<1> QED
    BY <1>4, <1>5, <1>6, <1>7 DEF TrackInv

LEMMA FlushKeeps == TrackInv /\ Flush => TrackInv'
<1> SUFFICES ASSUME TrackInv, Flush PROVE TrackInv'
    OBVIOUS
<1>1. /\ frames' = << >> /\ ~closed /\ flushes' = flushes + 1 /\ flushes < MaxFlushes
      /\ UNCHANGED <<said, waiting, holding, closed, flight, ended, heard>>
    BY DEF Flush
<1>2. frames' \in Seq({EndOfTrack}) /\ Len(frames') = 0
    BY <1>1, EmptySeq
<1>3. closed' \in BOOLEAN /\ flushes' \in 0..MaxFlushes /\ Len(frames') <= TrackRoom
    BY <1>1, <1>2, TrackAssumption DEF TrackInv, TrackTypeOK
<1>4. RoomToFinish' /\ EndComesFirst'
    BY <1>1, <1>3 DEF RoomToFinish, EndComesFirst
<1> QED
    BY <1>1, <1>2, <1>3, <1>4, DropKeeps

(* The end mark finds room, and leaves room for the broadcast that waits.  *)
LEMMA CloseKeeps == TrackInv /\ Close => TrackInv'
<1> SUFFICES ASSUME TrackInv, Close PROVE TrackInv'
    OBVIOUS
<1>1. /\ frames' = <<EndOfTrack>> /\ closed' = TRUE
      /\ UNCHANGED <<said, waiting, holding, flight, ended, heard, flushes>>
    BY DEF Close
<1>2. frames' \in Seq({EndOfTrack}) /\ Len(frames') = 1 /\ frames' # << >> /\ Head(frames') = EndOfTrack
    BY <1>1
<1>3. flushes' \in 0..MaxFlushes /\ Len(frames') <= TrackRoom
    BY <1>1, <1>2, TrackAssumption DEF TrackInv, TrackTypeOK
<1>4. RoomToFinish'
  <2>1. ASSUME holding PROVE 1 + Left(Head(waiting)) <= TrackRoom
    <3>1. waiting # << >> /\ waiting \in Seq(Broadcasts)
        BY <2>1 DEF TrackInv, TrackTypeOK, Broadcasts
    <3>2. Head(waiting) \in Broadcasts
        BY <3>1, HeadTailProperties
    <3> QED BY <3>2, TrackAssumption DEF Left, Broadcasts
  <2> QED BY <1>1, <1>2, <1>3, <2>1 DEF RoomToFinish, Left
<1>5. EndComesFirst'
    BY <1>2 DEF EndComesFirst
<1> QED
    BY <1>1, <1>2, <1>3, <1>4, <1>5, DropKeeps

LEMMA StutterKeeps == TrackInv /\ UNCHANGED vars => TrackInv'
    BY DEF TrackInv, vars, TrackTypeOK, WaitingInOrder, PutComesNext, FramesInOrder, Awaited, Queued,
           RoomToFinish, EndComesFirst, Left, Frames

LEMMA TrackInvStep == TrackInv /\ [Next]_vars => TrackInv'
    BY BroadcastKeeps, EnqueueKeeps, GoesOnKeeps, TakeKeeps, PlayKeeps, FlushKeeps, CloseKeeps,
       StutterKeeps DEF Next

THEOREM TrackInvariant == Spec => []TrackInv
    BY TrackInvInit, TrackInvStep, PTL DEF Spec

-----------------------------------------------------------------------------
(* Type correctness of the queue, the broadcasts and the sender.           *)
THEOREM TrackTypeCorrect == Spec => []TrackTypeOK
<1>1. TrackInv => TrackTypeOK
    BY DEF TrackInv
<1> QED
    BY <1>1, TrackInvariant, PTL

(* The learner hears the frames in the order in which they were said, and  *)
(* none twice, for any number of broadcast tasks, flushes and a close.     *)
THEOREM HeardInOrder == Spec => []FramesInOrder
<1>1. TrackInv => FramesInOrder
    BY DEF TrackInv
<1> QED
    BY <1>1, TrackInvariant, PTL

(* A broadcast that waits for room while the track is closed finds it: one *)
(* place for the end mark, and a chunk is shorter than what is left.       *)
THEOREM WaitingBroadcastHasRoom == Spec => []RoomToFinish
<1>1. TrackInv => RoomToFinish
    BY DEF TrackInv
<1> QED
    BY <1>1, TrackInvariant, PTL

(* The sender of a closed track meets the end before any frame, although a *)
(* broadcast may put its frames behind the close.                          *)
THEOREM EndMetFirst == Spec => []EndComesFirst
<1>1. TrackInv => EndComesFirst
    BY DEF TrackInv
<1> QED
    BY <1>1, TrackInvariant, PTL
=============================================================================
