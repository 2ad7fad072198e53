-------------------------- MODULE PracticeScreen_proofs --------------------------
(***************************************************************************)
(* Microphone, commands, transcript and grading of the practice screen, for *)
(* any number of sessions and of requests under way.                        *)
(***************************************************************************)
EXTENDS PracticeScreen, SequenceTheorems, TLAPS

(* What holds of a call: h when the screen holds it, g when the page is     *)
(* gone.                                                                   *)
Fresh(call, h) == call.at = "new" => call = NewCall /\ ~h

ChannelFollowsMic(call) ==
    /\ call.channel # "none" => call.mic
    /\ call.at \in {"new", "mic"} => /\ call.channel = "none" /\ ~call.mic
                                     /\ call.lost \in {"no", "forgotten", "unmounted"}
    /\ call.armed => call.at \in {"up", "over"}
    /\ call.lost = "unloaded" => ~call.mic /\ call.at \in {"up", "over"}
    /\ call.channel = "open" => call.at \in {"remote", "up", "over"}
    /\ call.channel = "open" /\ call.saying => call.lost # "no"

Held(call, h) ==
    h => /\ call.lost \in {"no", "unloaded"} /\ ~call.saying
         /\ call.at = "mic" => call.life = "on"
         /\ call.at \in {"offer", "answer", "remote"} => call.mic
         /\ call.lost = "no" => call.sent \in {<< >>, <<START>>}

Owned(call, h) ==
    /\ call.at = "mic" => h \/ call.saying \/ call.life = "ended" \/ call.lost # "no"
    /\ call.mic => h \/ call.saying \/ call.lost \in {"late mic", "raised", "forgotten", "unmounted"}

Commanded(call, h, g) ==
    /\ call.at \in {"new", "mic", "offer", "answer"} \/ call.channel = "opening"
        => call.sent \in {<< >>, <<END>>} \/ call.lost # "no"
    /\ call.life = "on" /\ call.lost = "no" => h \/ g
    /\ call.lost = "no" => /\ call.sent \in {<< >>, <<START>>, <<END>>, <<START, END>>}
                           /\ call.sent = <<START>> => h \/ call.life = "ended" \/ g

Gone(call, g) == g => call.at = "over" /\ ~call.mic /\ ~call.saying

Sound(call, h, g) ==
    /\ Fresh(call, h) /\ ChannelFollowsMic(call) /\ Held(call, h)
    /\ Owned(call, h) /\ Commanded(call, h, g) /\ Gone(call, g)

CallsSound == \A c \in Calls : Sound(calls[c], c = held, stage = "gone")

(* The session on the screen, the one that is being created, the one whose  *)
(* analysis is to be shown.                                                *)
ScreenSound ==
    /\ held # Nobody => stage = "live" /\ held = active
    /\ stage \in {"live", "out", "gone"} => timer = Nobody
    /\ starting # Nobody => calls[starting].at = "new" /\ stage \notin {"live", "gone"}
    /\ timer # Nobody => active \in {timer, Nobody}

(* A request that can still bring a result is for the session in view.      *)
LoadsAreOfView ==
    \A l \in loads : l.current /\ stage = "analysis" /\ InView # Nobody => l.session = InView

ScreenInv ==
    /\ ClientTypeOK
    /\ CallsSound
    /\ ScreenSound
    /\ LoadsAreOfView
    /\ GradingIsOfView

-----------------------------------------------------------------------------
(***************************************************************************)
(* What becomes of one call.                                                *)
(***************************************************************************)
(* The commands a call has sent, as far as they matter.                     *)
LEMMA Commands ==
    /\ \A s \in Seq({START, END}), x \in {START, END} : Append(s, x) \in Seq({START, END})
    /\ << >> \in Seq({START, END})
    /\ Append(<< >>, START) = <<START>> /\ Append(<< >>, END) = <<END>>
    /\ Append(<<START>>, END) = <<START, END>>
    /\ <<START>> # << >> /\ <<END>> # << >>
    /\ <<START>> # <<END>> /\ <<START>> # <<START, END>>
<1>1. \A s \in Seq({START, END}), x \in {START, END} : Append(s, x) \in Seq({START, END})
    BY AppendProperties
<1>2. << >> \in Seq({START, END})
    OBVIOUS
<1>3. Append(<< >>, START) = <<START>> /\ Append(<< >>, END) = <<END>>
    OBVIOUS
<1>4. Append(<<START>>, END) = <<START, END>>
  <2>1. <<START>> \in Seq({START, END}) /\ <<START, END>> \in Seq({START, END})
      OBVIOUS
  <2>2. /\ Append(<<START>>, END) \in Seq({START, END})
        /\ Len(Append(<<START>>, END)) = 2
        /\ Append(<<START>>, END)[1] = START /\ Append(<<START>>, END)[2] = END
      BY <2>1, AppendProperties
  <2>3. /\ Len(<<START, END>>) = 2
        /\ <<START, END>>[1] = START /\ <<START, END>>[2] = END
      OBVIOUS
  <2>4. \A i \in 1..2 : i = 1 \/ i = 2
      OBVIOUS
  <2>5. \A i \in 1..2 : Append(<<START>>, END)[i] = <<START, END>>[i]
      BY <2>2, <2>3, <2>4
  <2> QED
      BY <2>1, <2>2, <2>3, <2>5, SeqEqual
<1>5. <<START>> # << >> /\ <<END>> # << >>
    OBVIOUS
<1>6. <<START>> # <<END>> /\ <<START>> # <<START, END>>
    BY DEF START, END
<1> QED
    BY <1>1, <1>2, <1>3, <1>4, <1>5, <1>6

(* The microphone is granted.                                               *)
LEMMA MicGrantedSound ==
    ASSUME NEW call \in Call, NEW h \in BOOLEAN, NEW g \in BOOLEAN, Sound(call, h, g),
           call.at = "mic"
    PROVE  /\ [call EXCEPT !.at = "offer", !.mic = TRUE, !.peer = TRUE, !.channel = "opening",
                         !.lost = IF call.life = "ended" THEN Loses(call, "late mic") ELSE @] \in Call
           /\ Sound([call EXCEPT !.at = "offer", !.mic = TRUE, !.peer = TRUE, !.channel = "opening",
                         !.lost = IF call.life = "ended" THEN Loses(call, "late mic") ELSE @], h, g)
<1> DEFINE after == [call EXCEPT !.at = "offer", !.mic = TRUE, !.peer = TRUE, !.channel = "opening",
                         !.lost = IF call.life = "ended" THEN Loses(call, "late mic") ELSE @]
<1>1. after \in Call
    BY Commands DEF Call, Places, Lives, Loses
<1>2. /\ after.at = "offer"
      /\ after.life = call.life
      /\ after.peer = TRUE
      /\ after.mic = TRUE
      /\ after.channel = "opening"
      /\ after.armed = call.armed
      /\ after.saying = call.saying
      /\ after.sent = call.sent
      /\ after.lost = (IF call.life = "ended" THEN Loses(call, "late mic") ELSE call.lost)
    BY DEF Call
<1> HIDE DEF after
<1>3. Fresh(after, h) /\ Gone(after, g)
    BY <1>2 DEF Sound, Fresh, Gone, ChannelFollowsMic, Held, NewCall
<1>4. ChannelFollowsMic(after)
    BY <1>2 DEF Sound, Fresh, ChannelFollowsMic, Held, Call, NewCall, Loses
<1>5. Held(after, h)
    BY <1>2, Commands DEF Sound, Fresh, ChannelFollowsMic, Held, Owned, Commanded, NewCall
<1>6. Owned(after, h)
    BY <1>2 DEF Sound, Fresh, ChannelFollowsMic, Held, Owned, Commanded, Gone, Call, NewCall, Loses
<1>7. Commanded(after, h, g)
    BY <1>2, Commands DEF Sound, Fresh, ChannelFollowsMic, Held, Owned, Commanded, Gone, Call, NewCall, Loses
<1> QED
    BY <1>1, <1>3, <1>4, <1>5, <1>6, <1>7 DEF Sound, after

(* connect() comes to its next await, or to its end.                        *)
LEMMA PlaceSound ==
    ASSUME NEW call \in Call, NEW h \in BOOLEAN, NEW g \in BOOLEAN, Sound(call, h, g),
           NEW place \in {"answer", "remote", "over"},
           call.at \in {"offer", "answer"} \/ (call.at = "new" /\ place = "over")
    PROVE  /\ [call EXCEPT !.at = place] \in Call
           /\ Sound([call EXCEPT !.at = place], h, g)
<1> DEFINE after == [call EXCEPT !.at = place]
<1>1. after \in Call
    BY Commands DEF Call, Places, Lives, Loses
<1>2. /\ after.at = place
      /\ after.life = call.life
      /\ after.peer = call.peer
      /\ after.mic = call.mic
      /\ after.channel = call.channel
      /\ after.armed = call.armed
      /\ after.saying = call.saying
      /\ after.sent = call.sent
      /\ after.lost = call.lost
    BY DEF Call
<1> HIDE DEF after
<1>3. Fresh(after, h) /\ Gone(after, g)
    BY <1>2 DEF Sound, Fresh, Gone, ChannelFollowsMic, Held, NewCall
<1>4. ChannelFollowsMic(after)
    BY <1>2 DEF Sound, Fresh, ChannelFollowsMic, Held, Call, NewCall, Loses
<1>5. Held(after, h)
    BY <1>2, Commands DEF Sound, Fresh, ChannelFollowsMic, Held, Owned, Commanded, NewCall
<1>6. Owned(after, h)
    BY <1>2 DEF Sound, Fresh, ChannelFollowsMic, Held, Owned, Commanded, Gone, Call, NewCall, Loses
<1>7. Commanded(after, h, g)
    BY <1>2, Commands DEF Sound, Fresh, ChannelFollowsMic, Held, Owned, Commanded, Gone, Call, NewCall, Loses
<1> QED
    BY <1>1, <1>3, <1>4, <1>5, <1>6, <1>7 DEF Sound, after

(* connect() is through.                                                    *)
LEMMA ConnectedSound ==
    ASSUME NEW call \in Call, NEW h \in BOOLEAN, NEW g \in BOOLEAN, Sound(call, h, g),
           call.at = "remote"
    PROVE  /\ [call EXCEPT !.at = "up", !.armed = TRUE] \in Call
           /\ Sound([call EXCEPT !.at = "up", !.armed = TRUE], h, g)
<1> DEFINE after == [call EXCEPT !.at = "up", !.armed = TRUE]
<1>1. after \in Call
    BY Commands DEF Call, Places, Lives, Loses
<1>2. /\ after.at = "up"
      /\ after.life = call.life
      /\ after.peer = call.peer
      /\ after.mic = call.mic
      /\ after.channel = call.channel
      /\ after.armed = TRUE
      /\ after.saying = call.saying
      /\ after.sent = call.sent
      /\ after.lost = call.lost
    BY DEF Call
<1> HIDE DEF after
<1>3. Fresh(after, h) /\ Gone(after, g)
    BY <1>2 DEF Sound, Fresh, Gone, ChannelFollowsMic, Held, NewCall
<1>4. ChannelFollowsMic(after)
    BY <1>2 DEF Sound, Fresh, ChannelFollowsMic, Held, Call, NewCall, Loses
<1>5. Held(after, h)
    BY <1>2, Commands DEF Sound, Fresh, ChannelFollowsMic, Held, Owned, Commanded, NewCall
<1>6. Owned(after, h)
    BY <1>2 DEF Sound, Fresh, ChannelFollowsMic, Held, Owned, Commanded, Gone, Call, NewCall, Loses
<1>7. Commanded(after, h, g)
    BY <1>2, Commands DEF Sound, Fresh, ChannelFollowsMic, Held, Owned, Commanded, Gone, Call, NewCall, Loses
<1> QED
    BY <1>1, <1>3, <1>4, <1>5, <1>6, <1>7 DEF Sound, after

(* The channel opens and START is sent.                                     *)
LEMMA ChannelOpensSound ==
    ASSUME NEW call \in Call, NEW h \in BOOLEAN, NEW g \in BOOLEAN, Sound(call, h, g),
           call.channel = "opening",
           call.at \in {"remote", "up"}
    PROVE  /\ Sending([call EXCEPT !.channel = "open",
                                 !.lost = IF call.saying THEN Loses(call, "late start") ELSE @], START) \in Call
           /\ Sound(Sending([call EXCEPT !.channel = "open",
                                 !.lost = IF call.saying THEN Loses(call, "late start") ELSE @], START), h, g)
<1> DEFINE after == Sending([call EXCEPT !.channel = "open",
                                 !.lost = IF call.saying THEN Loses(call, "late start") ELSE @], START)
<1>1. after \in Call
    BY Commands DEF Call, Places, Lives, Loses, Sending
<1>2. /\ after.at = call.at
      /\ after.life = call.life
      /\ after.peer = call.peer
      /\ after.mic = call.mic
      /\ after.channel = "open"
      /\ after.armed = call.armed
      /\ after.saying = call.saying
      /\ after.sent = Append(call.sent, START)
      /\ after.lost = (IF call.saying THEN Loses(call, "late start") ELSE call.lost)
    BY DEF Call, Sending
<1> HIDE DEF after
<1>3. Fresh(after, h) /\ Gone(after, g)
    BY <1>2 DEF Sound, Fresh, Gone, ChannelFollowsMic, Held, NewCall
<1>4. ChannelFollowsMic(after)
    BY <1>2 DEF Sound, Fresh, ChannelFollowsMic, Held, Call, NewCall, Loses
<1>5. Held(after, h)
    BY <1>2, Commands DEF Sound, Fresh, ChannelFollowsMic, Held, Owned, Commanded, NewCall
<1>6. Owned(after, h)
    BY <1>2 DEF Sound, Fresh, ChannelFollowsMic, Held, Owned, Commanded, Gone, Call, NewCall, Loses
<1>7. Commanded(after, h, g)
    BY <1>2, Commands DEF Sound, Fresh, ChannelFollowsMic, Held, Owned, Commanded, Gone, Call, NewCall, Loses
<1> QED
    BY <1>1, <1>3, <1>4, <1>5, <1>6, <1>7 DEF Sound, after

(* An event over the open channel.                                          *)
LEMMA LifeSound ==
    ASSUME NEW call \in Call, NEW h \in BOOLEAN, NEW g \in BOOLEAN, Sound(call, h, g),
           NEW life \in {"on", "error", "ended"},
           call.channel = "open"
    PROVE  /\ [call EXCEPT !.life = life] \in Call
           /\ Sound([call EXCEPT !.life = life], h, g)
<1> DEFINE after == [call EXCEPT !.life = life]
<1>1. after \in Call
    BY Commands DEF Call, Places, Lives, Loses
<1>2. /\ after.at = call.at
      /\ after.life = life
      /\ after.peer = call.peer
      /\ after.mic = call.mic
      /\ after.channel = call.channel
      /\ after.armed = call.armed
      /\ after.saying = call.saying
      /\ after.sent = call.sent
      /\ after.lost = call.lost
    BY DEF Call
<1> HIDE DEF after
<1>3. Fresh(after, h) /\ Gone(after, g)
    BY <1>2 DEF Sound, Fresh, Gone, ChannelFollowsMic, Held, NewCall
<1>4. ChannelFollowsMic(after)
    BY <1>2 DEF Sound, Fresh, ChannelFollowsMic, Held, Call, NewCall, Loses
<1>5. Held(after, h)
    BY <1>2, Commands DEF Sound, Fresh, ChannelFollowsMic, Held, Owned, Commanded, NewCall
<1>6. Owned(after, h)
    BY <1>2 DEF Sound, Fresh, ChannelFollowsMic, Held, Owned, Commanded, Gone, Call, NewCall, Loses
<1>7. Commanded(after, h, g)
    BY <1>2, Commands DEF Sound, Fresh, ChannelFollowsMic, Held, Owned, Commanded, Gone, Call, NewCall, Loses
<1> QED
    BY <1>1, <1>3, <1>4, <1>5, <1>6, <1>7 DEF Sound, after

(* The channel is closed by the other side.                                *)
LEMMA ChannelLostSound ==
    ASSUME NEW call \in Call, NEW h \in BOOLEAN, NEW g \in BOOLEAN, Sound(call, h, g),
           call.channel = "open"
    PROVE  /\ [call EXCEPT !.channel = "none"] \in Call
           /\ Sound([call EXCEPT !.channel = "none"], h, g)
<1> DEFINE after == [call EXCEPT !.channel = "none"]
<1>1. after \in Call
    BY Commands DEF Call, Places, Lives, Loses
<1>2. /\ after.at = call.at
      /\ after.life = call.life
      /\ after.peer = call.peer
      /\ after.mic = call.mic
      /\ after.channel = "none"
      /\ after.armed = call.armed
      /\ after.saying = call.saying
      /\ after.sent = call.sent
      /\ after.lost = call.lost
    BY DEF Call
<1> HIDE DEF after
<1>3. Fresh(after, h) /\ Gone(after, g)
    BY <1>2 DEF Sound, Fresh, Gone, ChannelFollowsMic, Held, NewCall
<1>4. ChannelFollowsMic(after)
    BY <1>2 DEF Sound, Fresh, ChannelFollowsMic, Held, Call, NewCall, Loses
<1>5. Held(after, h)
    BY <1>2, Commands DEF Sound, Fresh, ChannelFollowsMic, Held, Owned, Commanded, NewCall
<1>6. Owned(after, h)
    BY <1>2 DEF Sound, Fresh, ChannelFollowsMic, Held, Owned, Commanded, Gone, Call, NewCall, Loses
<1>7. Commanded(after, h, g)
    BY <1>2, Commands DEF Sound, Fresh, ChannelFollowsMic, Held, Owned, Commanded, Gone, Call, NewCall, Loses
<1> QED
    BY <1>1, <1>3, <1>4, <1>5, <1>6, <1>7 DEF Sound, after

(* END_SESSION over HTTP is over.                                           *)
LEMMA SaidEndSound ==
    ASSUME NEW call \in Call, NEW h \in BOOLEAN, NEW g \in BOOLEAN, Sound(call, h, g),
           call.saying
    PROVE  /\ [Torn(call) EXCEPT !.saying = FALSE, !.life = "ended"] \in Call
           /\ Sound([Torn(call) EXCEPT !.saying = FALSE, !.life = "ended"], h, g)
<1> DEFINE after == [Torn(call) EXCEPT !.saying = FALSE, !.life = "ended"]
<1>1. after \in Call
    BY Commands DEF Call, Places, Lives, Loses, Torn
<1>2. /\ after.at = call.at
      /\ after.life = "ended"
      /\ after.peer = FALSE
      /\ after.mic = FALSE
      /\ after.channel = "none"
      /\ after.armed = FALSE
      /\ after.saying = FALSE
      /\ after.sent = call.sent
      /\ after.lost = call.lost
    BY DEF Call, Torn
<1> HIDE DEF after
<1>3. Fresh(after, h) /\ Gone(after, g)
    BY <1>2 DEF Sound, Fresh, Gone, ChannelFollowsMic, Held, NewCall
<1>4. ChannelFollowsMic(after)
    BY <1>2 DEF Sound, Fresh, ChannelFollowsMic, Held, Call, NewCall, Loses
<1>5. Held(after, h)
    BY <1>2, Commands DEF Sound, Fresh, ChannelFollowsMic, Held, Owned, Commanded, NewCall
<1>6. Owned(after, h)
    BY <1>2 DEF Sound, Fresh, ChannelFollowsMic, Held, Owned, Commanded, Gone, Call, NewCall, Loses
<1>7. Commanded(after, h, g)
    BY <1>2, Commands DEF Sound, Fresh, ChannelFollowsMic, Held, Owned, Commanded, Gone, Call, NewCall, Loses
<1> QED
    BY <1>1, <1>3, <1>4, <1>5, <1>6, <1>7 DEF Sound, after

(* The screen forgets its call.                                             *)
LEMMA ForgottenSound ==
    ASSUME NEW call \in Call, NEW h \in BOOLEAN, NEW g \in BOOLEAN, Sound(call, h, g),
           h
    PROVE  /\ [call EXCEPT !.lost = Loses(call, "forgotten")] \in Call
           /\ Sound([call EXCEPT !.lost = Loses(call, "forgotten")], FALSE, g)
<1> DEFINE after == [call EXCEPT !.lost = Loses(call, "forgotten")]
<1>1. after \in Call
    BY Commands DEF Call, Places, Lives, Loses
<1>2. /\ after.at = call.at
      /\ after.life = call.life
      /\ after.peer = call.peer
      /\ after.mic = call.mic
      /\ after.channel = call.channel
      /\ after.armed = call.armed
      /\ after.saying = call.saying
      /\ after.sent = call.sent
      /\ after.lost = Loses(call, "forgotten")
    BY DEF Call
<1> HIDE DEF after
<1>3. Fresh(after, FALSE) /\ Gone(after, g)
    BY <1>2 DEF Sound, Fresh, Gone, ChannelFollowsMic, Held, NewCall
<1>4. ChannelFollowsMic(after)
    BY <1>2 DEF Sound, Fresh, ChannelFollowsMic, Held, Call, NewCall, Loses
<1>5. Held(after, FALSE)
    BY <1>2, Commands DEF Sound, Fresh, ChannelFollowsMic, Held, Owned, Commanded, NewCall
<1>6. Owned(after, FALSE)
    BY <1>2 DEF Sound, Fresh, ChannelFollowsMic, Held, Owned, Commanded, Gone, Call, NewCall, Loses
<1>7. Commanded(after, FALSE, g)
    BY <1>2, Commands DEF Sound, Fresh, ChannelFollowsMic, Held, Owned, Commanded, Gone, Call, NewCall, Loses
<1> QED
    BY <1>1, <1>3, <1>4, <1>5, <1>6, <1>7 DEF Sound, after

(* connect() fails and tears everything down,                               *)
LEMMA RefusedSound ==
    ASSUME NEW call \in Call, NEW h \in BOOLEAN, NEW g \in BOOLEAN, Sound(call, h, g),
           call.at \in {"mic", "answer"}
    PROVE  /\ Refused(call) \in Call
           /\ Sound(Refused(call), FALSE, g)
<1> DEFINE after == Refused(call)
<1>1. after \in Call
    BY Commands DEF Call, Places, Lives, Loses, Refused, Torn
<1>2. /\ after.at = "over"
      /\ after.life = "error"
      /\ after.peer = FALSE
      /\ after.mic = FALSE
      /\ after.channel = "none"
      /\ after.armed = FALSE
      /\ after.saying = call.saying
      /\ after.sent = call.sent
      /\ after.lost = call.lost
    BY DEF Call, Refused, Torn
<1> HIDE DEF after
<1>3. Fresh(after, FALSE) /\ Gone(after, g)
    BY <1>2 DEF Sound, Fresh, Gone, ChannelFollowsMic, Held, NewCall
<1>4. ChannelFollowsMic(after)
    BY <1>2 DEF Sound, Fresh, ChannelFollowsMic, Held, Call, NewCall, Loses
<1>5. Held(after, FALSE)
    BY <1>2, Commands DEF Sound, Fresh, ChannelFollowsMic, Held, Owned, Commanded, NewCall
<1>6. Owned(after, FALSE)
    BY <1>2 DEF Sound, Fresh, ChannelFollowsMic, Held, Owned, Commanded, Gone, Call, NewCall, Loses
<1>7. Commanded(after, FALSE, g)
    BY <1>2, Commands DEF Sound, Fresh, ChannelFollowsMic, Held, Owned, Commanded, Gone, Call, NewCall, Loses
<1> QED
    BY <1>1, <1>3, <1>4, <1>5, <1>6, <1>7 DEF Sound, after

(* or raises and tears nothing down.                                        *)
LEMMA RaisedSound ==
    ASSUME NEW call \in Call, NEW h \in BOOLEAN, NEW g \in BOOLEAN, Sound(call, h, g),
           call.at \in {"offer", "answer", "remote"}
    PROVE  /\ Raised(call) \in Call
           /\ Sound(Raised(call), FALSE, g)
<1> DEFINE after == Raised(call)
<1>1. after \in Call
    BY Commands DEF Call, Places, Lives, Loses, Raised
<1>2. /\ after.at = "over"
      /\ after.life = call.life
      /\ after.peer = call.peer
      /\ after.mic = call.mic
      /\ after.channel = call.channel
      /\ after.armed = call.armed
      /\ after.saying = call.saying
      /\ after.sent = call.sent
      /\ after.lost = (IF call.mic THEN Loses(call, "raised") ELSE call.lost)
    BY DEF Call, Raised
<1> HIDE DEF after
<1>3. Fresh(after, FALSE) /\ Gone(after, g)
    BY <1>2 DEF Sound, Fresh, Gone, ChannelFollowsMic, Held, NewCall
<1>4. ChannelFollowsMic(after)
    BY <1>2 DEF Sound, Fresh, ChannelFollowsMic, Held, Call, NewCall, Loses
<1>5. Held(after, FALSE)
    BY <1>2, Commands DEF Sound, Fresh, ChannelFollowsMic, Held, Owned, Commanded, NewCall
<1>6. Owned(after, FALSE)
    BY <1>2 DEF Sound, Fresh, ChannelFollowsMic, Held, Owned, Commanded, Gone, Call, NewCall, Loses
<1>7. Commanded(after, FALSE, g)
    BY <1>2, Commands DEF Sound, Fresh, ChannelFollowsMic, Held, Owned, Commanded, Gone, Call, NewCall, Loses
<1> QED
    BY <1>1, <1>3, <1>4, <1>5, <1>6, <1>7 DEF Sound, after

(* A new call is the screen's own.                                          *)
LEMMA ConnectingSound ==
    ASSUME NEW call \in Call, NEW h \in BOOLEAN, NEW g \in BOOLEAN, Sound(call, h, g),
           call.at = "new",
           ~g
    PROVE  /\ Connecting(call) \in Call
           /\ Sound(Connecting(call), TRUE, g)
<1> DEFINE after == Connecting(call)
<1>1. after \in Call
    BY Commands DEF Call, Places, Lives, Loses, Connecting
<1>2. /\ after.at = "mic"
      /\ after.life = "on"
      /\ after.peer = call.peer
      /\ after.mic = call.mic
      /\ after.channel = call.channel
      /\ after.armed = call.armed
      /\ after.saying = call.saying
      /\ after.sent = call.sent
      /\ after.lost = call.lost
    BY DEF Call, Connecting
<1> HIDE DEF after
<1>3. Fresh(after, TRUE) /\ Gone(after, g)
    BY <1>2 DEF Sound, Fresh, Gone, ChannelFollowsMic, Held, NewCall
<1>4. ChannelFollowsMic(after)
    BY <1>2 DEF Sound, Fresh, ChannelFollowsMic, Held, Call, NewCall, Loses
<1>5. Held(after, TRUE)
  <2>1. call.lost = "no" /\ ~call.saying /\ call.sent = << >>
      BY DEF Sound, Fresh, NewCall
  <2> QED
      BY <1>2, <2>1 DEF Held
<1>6. Owned(after, TRUE)
    BY <1>2 DEF Sound, Fresh, ChannelFollowsMic, Held, Owned, Commanded, Gone, Call, NewCall, Loses
<1>7. Commanded(after, TRUE, g)
    BY <1>2, Commands DEF Sound, Fresh, ChannelFollowsMic, Held, Owned, Commanded, Gone, Call, NewCall, Loses
<1> QED
    BY <1>1, <1>3, <1>4, <1>5, <1>6, <1>7 DEF Sound, after

(* A screen that is not there makes a call nobody holds.                   *)
LEMMA UnmountedSound ==
    ASSUME NEW call \in Call, NEW h \in BOOLEAN, NEW g \in BOOLEAN, Sound(call, h, g),
           call.at = "new", ~g
    PROVE  /\ [Connecting(call) EXCEPT !.lost = Loses(call, "unmounted")] \in Call
           /\ Sound([Connecting(call) EXCEPT !.lost = Loses(call, "unmounted")], FALSE, g)
<1> DEFINE after == [Connecting(call) EXCEPT !.lost = Loses(call, "unmounted")]
<1>1. after \in Call
    BY Commands DEF Call, Places, Lives, Loses, Connecting
<1>2. /\ after.at = "mic"
      /\ after.life = "on"
      /\ after.peer = call.peer
      /\ after.mic = call.mic
      /\ after.channel = call.channel
      /\ after.armed = call.armed
      /\ after.saying = call.saying
      /\ after.sent = call.sent
      /\ after.lost = Loses(call, "unmounted")
    BY DEF Call, Connecting
<1> HIDE DEF after
<1>3. Fresh(after, FALSE) /\ Gone(after, g)
    BY <1>2 DEF Sound, Fresh, Gone, ChannelFollowsMic, Held, NewCall
<1>4. ChannelFollowsMic(after)
    BY <1>2 DEF Sound, Fresh, ChannelFollowsMic, Held, Call, NewCall, Loses
<1>5. Held(after, FALSE)
    BY <1>2, Commands DEF Sound, Fresh, ChannelFollowsMic, Held, Owned, Commanded, NewCall
<1>6. Owned(after, FALSE)
    BY <1>2 DEF Sound, Fresh, ChannelFollowsMic, Held, Owned, Commanded, Gone, Call, NewCall, Loses
<1>7. Commanded(after, FALSE, g)
    BY <1>2, Commands DEF Sound, Fresh, ChannelFollowsMic, Held, Owned, Commanded, Gone, Call, NewCall, Loses
<1> QED
    BY <1>1, <1>3, <1>4, <1>5, <1>6, <1>7 DEF Sound, after

(* The screen lets go of its call: what is over is torn down,               *)
LEMMA TornSound ==
    ASSUME NEW call \in Call, NEW h \in BOOLEAN, NEW g \in BOOLEAN, Sound(call, h, g),
           h,
           ~g,
           call.life \in {"idle", "ending", "ended"}
    PROVE  /\ Torn([call EXCEPT !.life = "ended"]) \in Call
           /\ Sound(Torn([call EXCEPT !.life = "ended"]), FALSE, g)
<1> DEFINE after == Torn([call EXCEPT !.life = "ended"])
<1>1. after \in Call
    BY Commands DEF Call, Places, Lives, Loses, Torn
<1>2. /\ after.at = call.at
      /\ after.life = "ended"
      /\ after.peer = FALSE
      /\ after.mic = FALSE
      /\ after.channel = "none"
      /\ after.armed = FALSE
      /\ after.saying = call.saying
      /\ after.sent = call.sent
      /\ after.lost = call.lost
    BY DEF Call, Torn
<1> HIDE DEF after
<1>3. Fresh(after, FALSE) /\ Gone(after, g)
    BY <1>2 DEF Sound, Fresh, Gone, ChannelFollowsMic, Held, NewCall
<1>4. ChannelFollowsMic(after)
    BY <1>2 DEF Sound, Fresh, ChannelFollowsMic, Held, Call, NewCall, Loses
<1>5. Held(after, FALSE)
    BY <1>2, Commands DEF Sound, Fresh, ChannelFollowsMic, Held, Owned, Commanded, NewCall
<1>6. Owned(after, FALSE)
    BY <1>2 DEF Sound, Fresh, ChannelFollowsMic, Held, Owned, Commanded, Gone, Call, NewCall, Loses
<1>7. Commanded(after, FALSE, g)
    BY <1>2, Commands DEF Sound, Fresh, ChannelFollowsMic, Held, Owned, Commanded, Gone, Call, NewCall, Loses
<1> QED
    BY <1>1, <1>3, <1>4, <1>5, <1>6, <1>7 DEF Sound, after

(* what has a channel says so and is torn down,                             *)
LEMMA EndSentSound ==
    ASSUME NEW call \in Call, NEW h \in BOOLEAN, NEW g \in BOOLEAN, Sound(call, h, g),
           h,
           ~g,
           call.channel = "open"
    PROVE  /\ Torn([Sending(call, END) EXCEPT !.life = "ended"]) \in Call
           /\ Sound(Torn([Sending(call, END) EXCEPT !.life = "ended"]), FALSE, g)
<1> DEFINE after == Torn([Sending(call, END) EXCEPT !.life = "ended"])
<1>1. after \in Call
    BY Commands DEF Call, Places, Lives, Loses, Torn, Sending
<1>2. /\ after.at = call.at
      /\ after.life = "ended"
      /\ after.peer = FALSE
      /\ after.mic = FALSE
      /\ after.channel = "none"
      /\ after.armed = FALSE
      /\ after.saying = call.saying
      /\ after.sent = Append(call.sent, END)
      /\ after.lost = call.lost
    BY DEF Call, Torn, Sending
<1> HIDE DEF after
<1>3. Fresh(after, FALSE) /\ Gone(after, g)
    BY <1>2 DEF Sound, Fresh, Gone, ChannelFollowsMic, Held, NewCall
<1>4. ChannelFollowsMic(after)
    BY <1>2 DEF Sound, Fresh, ChannelFollowsMic, Held, Call, NewCall, Loses
<1>5. Held(after, FALSE)
    BY <1>2, Commands DEF Sound, Fresh, ChannelFollowsMic, Held, Owned, Commanded, NewCall
<1>6. Owned(after, FALSE)
    BY <1>2 DEF Sound, Fresh, ChannelFollowsMic, Held, Owned, Commanded, Gone, Call, NewCall, Loses
<1>7. Commanded(after, FALSE, g)
  <2>1. call.lost = "no" => call.sent \in {<< >>, <<START>>}
      BY DEF Sound, Held
  <2>2. call.at \notin {"new", "mic", "offer", "answer"}
      BY DEF Sound, ChannelFollowsMic
  <2> QED
      BY <1>2, <2>1, <2>2, Commands DEF Commanded
<1> QED
    BY <1>1, <1>3, <1>4, <1>5, <1>6, <1>7 DEF Sound, after

(* and what has none says so over HTTP.                                     *)
LEMMA EndingSound ==
    ASSUME NEW call \in Call, NEW h \in BOOLEAN, NEW g \in BOOLEAN, Sound(call, h, g),
           h,
           ~g,
           call.channel # "open"
    PROVE  /\ [Sending(call, END) EXCEPT !.life = "ending", !.saying = TRUE] \in Call
           /\ Sound([Sending(call, END) EXCEPT !.life = "ending", !.saying = TRUE], FALSE, g)
<1> DEFINE after == [Sending(call, END) EXCEPT !.life = "ending", !.saying = TRUE]
<1>1. after \in Call
    BY Commands DEF Call, Places, Lives, Loses, Sending
<1>2. /\ after.at = call.at
      /\ after.life = "ending"
      /\ after.peer = call.peer
      /\ after.mic = call.mic
      /\ after.channel = call.channel
      /\ after.armed = call.armed
      /\ after.saying = TRUE
      /\ after.sent = Append(call.sent, END)
      /\ after.lost = call.lost
    BY DEF Call, Sending
<1> HIDE DEF after
<1>3. Fresh(after, FALSE) /\ Gone(after, g)
    BY <1>2 DEF Sound, Fresh, Gone, ChannelFollowsMic, Held, NewCall
<1>4. ChannelFollowsMic(after)
    BY <1>2 DEF Sound, Fresh, ChannelFollowsMic, Held, Call, NewCall, Loses
<1>5. Held(after, FALSE)
    BY <1>2, Commands DEF Sound, Fresh, ChannelFollowsMic, Held, Owned, Commanded, NewCall
<1>6. Owned(after, FALSE)
    BY <1>2 DEF Sound, Fresh, ChannelFollowsMic, Held, Owned, Commanded, Gone, Call, NewCall, Loses
<1>7. Commanded(after, FALSE, g)
  <2>1. call.lost = "no" => call.sent \in {<< >>, <<START>>}
      BY DEF Sound, Held
  <2>2. /\ call.at \in {"new", "mic", "offer", "answer"} \/ call.channel = "opening"
        /\ call.lost = "no"
        => call.sent = << >>
      BY <2>1, Commands DEF Sound, Commanded
  <2> QED
      BY <1>2, <2>1, <2>2, Commands DEF Commanded
<1> QED
    BY <1>1, <1>3, <1>4, <1>5, <1>6, <1>7 DEF Sound, after

LEMMA DisconnectedSound ==
    ASSUME NEW call \in Call, NEW g \in BOOLEAN, Sound(call, TRUE, g), ~g
    PROVE  Disconnected(call) \in Call /\ Sound(Disconnected(call), FALSE, g)
<1>1. CASE call.life \in {"idle", "ending", "ended"}
    BY <1>1, TornSound DEF Disconnected
<1>2. CASE call.life \notin {"idle", "ending", "ended"} /\ call.channel = "open"
    BY <1>2, EndSentSound DEF Disconnected
<1>3. CASE call.life \notin {"idle", "ending", "ended"} /\ call.channel # "open"
    BY <1>3, EndingSound DEF Disconnected
<1> QED
    BY <1>1, <1>2, <1>3

(* The handlers of a page that stays have run.                             *)
LEMMA SurvivedSound ==
    ASSUME NEW call \in Call, NEW h \in BOOLEAN, NEW g \in BOOLEAN, Sound(call, h, g),
           call.armed, ~g
    PROVE  /\ Survived(call) \in Call
           /\ Sound(Survived(call), h, g)
<1> DEFINE after == Survived(call)
<1>1. after \in Call
    BY Commands DEF Call, Places, Lives, Loses, Survived, Unloaded, Torn, Sending
<1>2. /\ after.at = call.at
      /\ after.life = call.life
      /\ after.peer = FALSE
      /\ after.mic = FALSE
      /\ after.channel = "none"
      /\ after.armed = FALSE
      /\ after.saying = call.saying
      /\ after.sent = (IF call.life = "on" THEN Append(call.sent, END) ELSE call.sent)
      /\ after.lost = (IF call.life = "on" THEN Loses(call, "unloaded") ELSE call.lost)
    BY DEF Call, Survived, Unloaded, Torn, Sending
<1> HIDE DEF after
<1>3. Fresh(after, h) /\ Gone(after, g)
    BY <1>2 DEF Sound, Fresh, Gone, ChannelFollowsMic, Held, NewCall
<1>4. ChannelFollowsMic(after)
    BY <1>2 DEF Sound, Fresh, ChannelFollowsMic, Held, Call, NewCall, Loses
<1>5. Held(after, h)
    BY <1>2, Commands DEF Sound, Fresh, ChannelFollowsMic, Held, Owned, Commanded, NewCall, Loses
<1>6. Owned(after, h)
    BY <1>2 DEF Sound, Fresh, ChannelFollowsMic, Held, Owned, Commanded, Gone, Call, NewCall, Loses
<1>7. Commanded(after, h, g)
    BY <1>2, Commands DEF Sound, Fresh, ChannelFollowsMic, Held, Owned, Commanded, Gone, Call, NewCall, Loses
<1> QED
    BY <1>1, <1>3, <1>4, <1>5, <1>6, <1>7 DEF Sound, after

(* The page is left: nothing stays open.                                    *)
LEMMA UnloadedSound ==
    ASSUME NEW call \in Call, NEW h \in BOOLEAN, Sound(call, h, FALSE)
    PROVE  /\ [Unloaded(call) EXCEPT !.at = "over", !.saying = FALSE, !.mic = FALSE,
                                     !.channel = "none"] \in Call
           /\ Sound([Unloaded(call) EXCEPT !.at = "over", !.saying = FALSE, !.mic = FALSE,
                                           !.channel = "none"], FALSE, TRUE)
<1> DEFINE left == Unloaded(call)
           after == [left EXCEPT !.at = "over", !.saying = FALSE, !.mic = FALSE, !.channel = "none"]
<1>1. left \in Call /\ left.lost = call.lost
           /\ (left.sent = call.sent \/ (call.life = "on" /\ left.sent = Append(call.sent, END)))
  <2>1. Torn(call) \in Call /\ Torn(call).sent = call.sent /\ Torn(call).lost = call.lost
      BY DEF Call, Torn
  <2>2. Append(call.sent, END) \in Seq({START, END})
      BY Commands DEF Call
  <2>3. /\ Torn(Sending(call, END)) \in Call
        /\ Torn(Sending(call, END)).sent = Append(call.sent, END)
        /\ Torn(Sending(call, END)).lost = call.lost
      BY <2>2 DEF Call, Torn, Sending
  <2> QED
      BY <2>1, <2>3 DEF Unloaded
<1> HIDE DEF left
<1>2. after \in Call
    BY <1>1 DEF Call, Places
<1>3. /\ after.at = "over" /\ ~after.mic /\ ~after.saying /\ after.channel = "none"
      /\ after.sent = left.sent /\ after.lost = left.lost
    BY <1>1 DEF Call
<1> HIDE DEF after
<1>4. after.lost = "no" => after.sent \in {<< >>, <<START>>, <<END>>, <<START, END>>}
  <2> SUFFICES ASSUME after.lost = "no" PROVE after.sent \in {<< >>, <<START>>, <<END>>, <<START, END>>}
      OBVIOUS
  <2>1. CASE left.sent = call.sent
      BY <2>1, <1>1, <1>3 DEF Sound, Commanded
  <2>2. CASE call.life = "on" /\ left.sent = Append(call.sent, END)
    <3>1. call.sent \in {<< >>, <<START>>}
        BY <2>2, <1>1, <1>3 DEF Sound, Commanded, Held
    <3> QED
        BY <2>2, <3>1, <1>3, Commands
  <2> QED
      BY <2>1, <2>2, <1>1
<1>5. Sound(after, FALSE, TRUE)
    BY <1>3, <1>4 DEF Sound, Fresh, ChannelFollowsMic, Held, Owned, Commanded, Gone
<1> QED
    BY <1>2, <1>5 DEF after, left

-----------------------------------------------------------------------------
(***************************************************************************)
(* The screen.                                                              *)
(***************************************************************************)
(* Nothing is open at first.                                                *)
LEMMA ScreenInvInit == Init => ScreenInv
<1> SUFFICES ASSUME Init PROVE ScreenInv
    OBVIOUS
<1>1. NewCall \in Call
    BY Commands DEF NewCall, Call, Places, Lives
<1>2. calls = [c \in Calls |-> NewCall]
    BY DEF Init, CallsInit
<1>3. ClientTypeOK
    BY <1>1, <1>2 DEF Init, ClientTypeOK, OrNobody
<1>4. Sound(NewCall, FALSE, FALSE)
    BY DEF NewCall, Sound, Fresh, ChannelFollowsMic, Held, Owned, Commanded, Gone
<1>5. \A c \in Calls : (c = held) = FALSE
    BY ScreenAssumption DEF Init
<1>6. (stage = "gone") = FALSE
    BY DEF Init
<1>7. CallsSound
    BY <1>2, <1>4, <1>5, <1>6 DEF CallsSound
<1>8. ScreenSound /\ LoadsAreOfView /\ GradingIsOfView
    BY DEF Init, ScreenSound, LoadsAreOfView, GradingIsOfView
<1> QED
    BY <1>3, <1>7, <1>8 DEF ScreenInv

(* A call becomes another of which the same is true.                        *)
LEMMA BecomesSound ==
    ASSUME ScreenInv, NEW c \in Calls, NEW call \in Call, Becomes(c, call),
           Sound(call, c = held', stage' = "gone"), stage' = "gone" <=> stage = "gone",
           \A k \in Calls \ {c} : (k = held') = (k = held)
    PROVE  calls' \in [Calls -> Call] /\ CallsSound'
<1>1. calls \in [Calls -> Call]
    BY DEF ScreenInv, ClientTypeOK
<1>2. calls' = [calls EXCEPT ![c] = call]
    BY DEF Becomes
<1>3. ASSUME NEW k \in Calls PROVE Sound(calls'[k], k = held', stage' = "gone")
  <2>1. CASE k = c
      BY <2>1, <1>1, <1>2
  <2>2. CASE k # c
    <3>1. calls'[k] = calls[k]
        BY <2>2, <1>1, <1>2
    <3>2. Sound(calls[k], k = held, stage = "gone")
        BY DEF ScreenInv, CallsSound
    <3>3. (k = held') = (k = held) /\ (stage' = "gone") = (stage = "gone")
        BY <2>2
    <3> QED
        BY <3>1, <3>2, <3>3
  <2> QED
      BY <2>1, <2>2
<1>4. CallsSound'
    BY <1>3 DEF CallsSound, Sound, Fresh, ChannelFollowsMic, Held, Owned, Commanded, Gone
<1> QED
    BY <1>1, <1>2, <1>4

(* What a step of a call makes of it.                                       *)
LEMMA CallStepSound ==
    ASSUME ScreenInv, NEW c \in Calls, CallStep(c)
    PROVE  /\ calls[c].at # "new"
           /\ \E call \in Call : Becomes(c, call) /\ Sound(call, c = held, stage = "gone")
<1> DEFINE h == c = held
           g == stage = "gone"
<1>1. calls[c] \in Call /\ Sound(calls[c], h, g) /\ h \in BOOLEAN /\ g \in BOOLEAN
    BY DEF ScreenInv, CallsSound, ClientTypeOK
<1>2. calls[c].at = "new" => ~calls[c].saying /\ calls[c].channel = "none"
    BY <1>1 DEF Sound, Fresh, NewCall
<1> HIDE DEF h, g
<1>3. CASE MicGranted(c)
    BY <1>3, <1>1, MicGrantedSound DEF MicGranted, h, g
<1>4. CASE Offered(c)
  <2>1. calls[c].at \in {"offer", "answer"} /\ Becomes(c, [calls[c] EXCEPT !.at = "answer"])
      BY <1>4 DEF Offered
  <2>2. /\ [calls[c] EXCEPT !.at = "answer"] \in Call
        /\ Sound([calls[c] EXCEPT !.at = "answer"], h, g)
      BY <2>1, <1>1, PlaceSound
  <2> QED
      BY <2>1, <2>2 DEF h, g
<1>5. CASE Answered(c)
  <2> DEFINE place == IF calls[c].peer THEN "remote" ELSE "over"
  <2>1. place \in {"answer", "remote", "over"} /\ calls[c].at \in {"offer", "answer"}
      BY <1>5 DEF Answered
  <2>2. Becomes(c, [calls[c] EXCEPT !.at = place])
      BY <1>5 DEF Answered
  <2> HIDE DEF place
  <2>3. [calls[c] EXCEPT !.at = place] \in Call /\ Sound([calls[c] EXCEPT !.at = place], h, g)
      BY <2>1, <1>1, PlaceSound
  <2> QED
      BY <2>1, <2>2, <2>3 DEF h, g
<1>6. CASE Connected(c)
    BY <1>6, <1>1, ConnectedSound DEF Connected, h, g
<1>7. CASE ChannelOpens(c)
    BY <1>7, <1>1, <1>2, ChannelOpensSound DEF ChannelOpens, h, g
<1>8. CASE Ready(c) \/ EngineFails(c) \/ GatewayEnds(c)
    BY <1>8, <1>1, <1>2, LifeSound DEF Ready, EngineFails, GatewayEnds, h, g
<1>9. CASE SaidEnd(c)
    BY <1>9, <1>1, <1>2, SaidEndSound DEF SaidEnd, h, g
<1>10. CASE ChannelLost(c)
    BY <1>10, <1>1, <1>2, ChannelLostSound DEF ChannelLost, h, g
<1> QED
    BY <1>3, <1>4, <1>5, <1>6, <1>7, <1>8, <1>9, <1>10 DEF CallStep

LEMMA CallStepKeeps ==
    ASSUME ScreenInv, NEW c \in Calls, CallStep(c), UNCHANGED <<screen, analysis>>
    PROVE  ScreenInv'
<1>1. PICK call \in Call : Becomes(c, call) /\ Sound(call, c = held, stage = "gone")
    BY CallStepSound
<1>2. calls[c].at # "new"
    BY CallStepSound
<1>3. UNCHANGED <<stage, starting, active, held, viewed, timer, loads, result>>
    BY DEF screen, analysis
<1>4. calls' \in [Calls -> Call] /\ CallsSound'
    BY <1>1, <1>3, BecomesSound
<1>5. ScreenSound'
    BY <1>1, <1>2, <1>3 DEF ScreenInv, ScreenSound, ClientTypeOK, Becomes, OrNobody
<1>6. ClientTypeOK' /\ LoadsAreOfView' /\ GradingIsOfView'
    BY <1>3, <1>4 DEF ScreenInv, ClientTypeOK, LoadsAreOfView, GradingIsOfView, InView
<1> QED
    BY <1>4, <1>5, <1>6 DEF ScreenInv

(* A connect() that fails: the call of the screen is forgotten, whosesoever *)
(* the failure is.                                                          *)
LEMMA ConnectCaughtKeeps ==
    ASSUME ScreenInv, NEW c \in Calls, NEW after \in Call, ConnectCaught(c, after),
           Sound(after, FALSE, stage = "gone"), calls[c].at \notin {"new", "over"}
    PROVE  ScreenInv'
<1>1. calls \in [Calls -> Call] /\ CallsSound /\ stage # "gone"
    BY DEF ScreenInv, ClientTypeOK, CallsSound, Sound, Gone
<1>2. /\ UNCHANGED <<starting, active, viewed, timer, loads, result>>
      /\ held' = Nobody /\ stage' \in {"home", "out"} /\ (stage' = "out" => stage = "out")
    BY <1>1 DEF ConnectCaught, analysis, Mounted
<1>3. ASSUME NEW k \in Calls PROVE calls'[k] \in Call /\ Sound(calls'[k], FALSE, FALSE)
  <2>1. CASE k = c
      BY <2>1, <1>1 DEF ConnectCaught
  <2>2. CASE k # c /\ k = held
    <3>1. calls'[k] = [calls[k] EXCEPT !.lost = Loses(calls[k], "forgotten")]
        BY <2>2 DEF ConnectCaught
    <3>2. Sound(calls[k], TRUE, FALSE)
        BY <2>2, <1>1 DEF CallsSound
    <3> QED
        BY <3>1, <3>2, <1>1, ForgottenSound
  <2>3. CASE k # c /\ k # held
    <3>1. calls'[k] = calls[k]
        BY <2>3 DEF ConnectCaught
    <3>2. Sound(calls[k], FALSE, FALSE)
        BY <2>3, <1>1 DEF CallsSound
    <3> QED
        BY <3>1, <3>2, <1>1
  <2> QED
      BY <2>1, <2>2, <2>3
<1>4. calls' \in [Calls -> Call]
    BY <1>3 DEF ConnectCaught
<1>5. \A k \in Calls : (k = held') = FALSE /\ (stage' = "gone") = FALSE
    BY <1>2, ScreenAssumption
<1>6. CallsSound'
    BY <1>3, <1>5 DEF CallsSound, Sound, Fresh, ChannelFollowsMic, Held, Owned, Commanded, Gone
<1>7. starting # Nobody => calls'[starting].at = "new"
  <2> SUFFICES ASSUME starting # Nobody PROVE calls'[starting].at = "new"
      OBVIOUS
  <2>1. starting \in Calls /\ starting # c /\ calls[starting].at = "new"
      BY DEF ScreenInv, ScreenSound, ClientTypeOK, OrNobody
  <2>2. starting # held
      BY <2>1, <1>1 DEF CallsSound, Sound, Fresh
  <2> QED
      BY <2>1, <2>2, <1>1 DEF ConnectCaught
<1>8. ScreenSound'
    BY <1>2, <1>7 DEF ScreenInv, ScreenSound
<1>9. ClientTypeOK' /\ LoadsAreOfView' /\ GradingIsOfView'
    BY <1>2, <1>4 DEF ScreenInv, ClientTypeOK, OrNobody, LoadsAreOfView, GradingIsOfView, InView
<1> QED
    BY <1>4, <1>6, <1>8, <1>9 DEF ScreenInv

LEMMA ConnectFailsKeeps ==
    ASSUME ScreenInv, NEW c \in Calls, ConnectRefused(c) \/ ConnectRaises(c)
    PROVE  ScreenInv'
<1> DEFINE h == c = held
           g == stage = "gone"
<1>1. calls[c] \in Call /\ Sound(calls[c], h, g) /\ h \in BOOLEAN /\ g \in BOOLEAN
    BY DEF ScreenInv, CallsSound, ClientTypeOK
<1> HIDE DEF h
<1>2. CASE ConnectRefused(c)
  <2>1. calls[c].at \in {"mic", "answer"} /\ ConnectCaught(c, Refused(calls[c]))
      BY <1>2 DEF ConnectRefused, MicDeniable, OfferRefusable
  <2>2. Refused(calls[c]) \in Call /\ Sound(Refused(calls[c]), FALSE, g)
      BY <1>1, <2>1, RefusedSound
  <2> QED
      BY <2>1, <2>2, ConnectCaughtKeeps
<1>3. CASE ConnectRaises(c)
  <2>1. calls[c].at \in {"offer", "answer", "remote"} /\ ConnectCaught(c, Raised(calls[c]))
      BY <1>3 DEF ConnectRaises, Raisable
  <2>2. Raised(calls[c]) \in Call /\ Sound(Raised(calls[c]), FALSE, g)
      BY <1>1, <2>1, RaisedSound
  <2> QED
      BY <2>1, <2>2, ConnectCaughtKeeps
<1> QED
    BY <1>2, <1>3

(* The screen lets go of the call it holds.                                 *)
LEMMA ReleaseSound ==
    ASSUME ScreenInv, Release, held' = Nobody, stage # "gone", stage' # "gone"
    PROVE  /\ calls' \in [Calls -> Call] /\ CallsSound'
           /\ starting # Nobody => calls'[starting].at = "new"
<1>1. calls \in [Calls -> Call] /\ CallsSound /\ held \in OrNobody(Calls)
    BY DEF ScreenInv, ClientTypeOK
<1>2. ASSUME NEW k \in Calls PROVE calls'[k] \in Call /\ Sound(calls'[k], FALSE, FALSE)
  <2>1. CASE k = held
    <3>1. calls'[k] = Disconnected(calls[k])
        BY <2>1, <1>1, ScreenAssumption DEF Release
    <3>2. Sound(calls[k], TRUE, FALSE)
        BY <2>1, <1>1 DEF CallsSound
    <3> QED
        BY <3>1, <3>2, <1>1, DisconnectedSound
  <2>2. CASE k # held
    <3>1. calls'[k] = calls[k]
        BY <2>2, <1>1 DEF Release
    <3>2. Sound(calls[k], FALSE, FALSE)
        BY <2>2, <1>1 DEF CallsSound
    <3> QED
        BY <3>1, <3>2, <1>1
  <2> QED
      BY <2>1, <2>2
<1>3. calls' \in [Calls -> Call]
    BY <1>1, <1>2 DEF Release
<1>4. \A k \in Calls : (k = held') = FALSE /\ (stage' = "gone") = FALSE
    BY ScreenAssumption
<1>5. CallsSound'
    BY <1>2, <1>4 DEF CallsSound, Sound, Fresh, ChannelFollowsMic, Held, Owned, Commanded, Gone
<1>6. starting # Nobody => starting # held /\ starting \in Calls /\ calls[starting].at = "new"
    BY <1>1 DEF ScreenInv, ScreenSound, ClientTypeOK, OrNobody, CallsSound, Sound, Fresh
<1> QED
    BY <1>1, <1>3, <1>5, <1>6 DEF Release

LEMMA EndSessionKeeps ==
    ASSUME ScreenInv, EndSession
    PROVE  ScreenInv'
<1>1. calls' \in [Calls -> Call] /\ CallsSound' /\ (starting # Nobody => calls'[starting].at = "new")
    BY ReleaseSound DEF EndSession
<1>2. UNCHANGED <<loads, result>>
    BY DEF EndSession, analysis
<1>3. ScreenSound' /\ LoadsAreOfView' /\ GradingIsOfView'
    BY <1>1 DEF EndSession, ScreenInv, ScreenSound, LoadsAreOfView, GradingIsOfView
<1>4. ClientTypeOK'
    BY <1>1, <1>2 DEF EndSession, ScreenInv, ClientTypeOK, OrNobody
<1> QED
    BY <1>1, <1>3, <1>4 DEF ScreenInv

(* A request that is outdated stays a request.                              *)
LEMMA OutdatedLoads ==
    ASSUME ClientTypeOK
    PROVE  /\ Outdated \subseteq Load
           /\ \A l \in Outdated : ~l.current
  BY DEF ClientTypeOK, Outdated, Load

LEMMA UnmountKeeps ==
    ASSUME ScreenInv, Unmount
    PROVE  ScreenInv'
<1>1. calls' \in [Calls -> Call] /\ CallsSound' /\ (starting # Nobody => calls'[starting].at = "new")
    BY ReleaseSound DEF Unmount, Forget, Mounted
<1>2. ScreenSound' /\ LoadsAreOfView' /\ GradingIsOfView'
    BY <1>1, OutdatedLoads DEF Unmount, Forget, ScreenInv, ScreenSound, LoadsAreOfView, GradingIsOfView
<1>3. ClientTypeOK'
    BY <1>1, OutdatedLoads DEF Unmount, Forget, ScreenInv, ClientTypeOK, OrNobody
<1> QED
    BY <1>1, <1>2, <1>3 DEF ScreenInv

LEMMA LeavePageKeeps ==
    ASSUME ScreenInv, LeavePage
    PROVE  ScreenInv'
<1>1. calls \in [Calls -> Call] /\ CallsSound /\ stage # "gone" /\ stage' = "gone"
    BY DEF ScreenInv, ClientTypeOK, LeavePage
<1>2. ASSUME NEW k \in Calls PROVE calls'[k] \in Call /\ Sound(calls'[k], FALSE, TRUE)
  <2> DEFINE h == k = held
  <2>1. calls[k] \in Call /\ h \in BOOLEAN /\ Sound(calls[k], h, FALSE)
      BY <1>1 DEF CallsSound
  <2> HIDE DEF h
  <2>2. calls'[k] = [Unloaded(calls[k]) EXCEPT !.at = "over", !.saying = FALSE, !.mic = FALSE,
                                               !.channel = "none"]
      BY DEF LeavePage
  <2> QED
      BY <2>1, <2>2, UnloadedSound
<1>3. calls' \in [Calls -> Call]
    BY <1>2 DEF LeavePage
<1>4. \A k \in Calls : (k = held') = FALSE /\ (stage' = "gone") = TRUE
    BY <1>1, ScreenAssumption DEF LeavePage, Forget
<1>5. CallsSound'
    BY <1>2, <1>4 DEF CallsSound, Sound, Fresh, ChannelFollowsMic, Held, Owned, Commanded, Gone
<1>6. ScreenSound' /\ LoadsAreOfView' /\ GradingIsOfView'
    BY DEF LeavePage, Forget, ScreenInv, ScreenSound, LoadsAreOfView, GradingIsOfView
<1>7. ClientTypeOK'
    BY <1>3 DEF LeavePage, Forget, ScreenInv, ClientTypeOK, OrNobody
<1> QED
    BY <1>3, <1>5, <1>6, <1>7 DEF ScreenInv

(* The handlers run, and the page stays.                                    *)
LEMMA BeforeUnloadKeeps ==
    ASSUME ScreenInv, BeforeUnload
    PROVE  ScreenInv'
<1>1. calls \in [Calls -> Call] /\ CallsSound /\ stage # "gone"
    BY DEF ScreenInv, ClientTypeOK, BeforeUnload
<1>2. UNCHANGED <<stage, starting, active, held, viewed, timer, loads, result>>
    BY DEF BeforeUnload, screen, analysis
<1>3. ASSUME NEW k \in Calls
      PROVE  calls'[k] \in Call /\ Sound(calls'[k], k = held, FALSE) /\ calls'[k].at = calls[k].at
  <2> DEFINE h == k = held
  <2>1. calls[k] \in Call /\ h \in BOOLEAN /\ Sound(calls[k], h, FALSE)
      BY <1>1 DEF CallsSound
  <2>2. calls'[k] = Survived(calls[k])
      BY DEF BeforeUnload
  <2> HIDE DEF h
  <2>3. CASE calls[k].armed
    <3>1. Survived(calls[k]) \in Call /\ Sound(Survived(calls[k]), h, FALSE)
        BY <2>1, <2>3, SurvivedSound
    <3>2. Survived(calls[k]).at = calls[k].at
        BY <2>1, <2>3 DEF Survived, Unloaded, Torn, Sending, Call
    <3> QED
        BY <2>2, <3>1, <3>2 DEF h
  <2>4. CASE ~calls[k].armed
      BY <2>1, <2>2, <2>4 DEF Survived, Unloaded, h
  <2> QED
      BY <2>3, <2>4
<1>4. calls' \in [Calls -> Call]
    BY <1>3 DEF BeforeUnload
<1>5. CallsSound'
    BY <1>1, <1>2, <1>3 DEF CallsSound, Sound, Fresh, ChannelFollowsMic, Held, Owned, Commanded, Gone
<1>6. ScreenSound'
    BY <1>2, <1>3 DEF ScreenInv, ScreenSound, ClientTypeOK, OrNobody
<1>7. ClientTypeOK' /\ LoadsAreOfView' /\ GradingIsOfView'
    BY <1>2, <1>4 DEF ScreenInv, ClientTypeOK, LoadsAreOfView, GradingIsOfView, InView
<1> QED
    BY <1>4, <1>5, <1>6, <1>7 DEF ScreenInv

(* A session is created and connected.                                      *)
LEMMA StartKeeps ==
    ASSUME ScreenInv, Start \/ CreateFails
    PROVE  ScreenInv'
<1>1. UNCHANGED <<calls, stage, active, held, viewed, timer, loads, result>>
    BY DEF Start, CreateFails, analysis
<1>2. starting' # Nobody => starting' \in Calls /\ calls[starting'].at = "new" /\ stage = "home"
    BY DEF Start, CreateFails
<1>3. CallsSound'
    BY <1>1 DEF ScreenInv, CallsSound, Sound, Fresh, ChannelFollowsMic, Held, Owned, Commanded, Gone
<1>4. ScreenSound' /\ LoadsAreOfView' /\ GradingIsOfView'
    BY <1>1, <1>2 DEF ScreenInv, ScreenSound, LoadsAreOfView, GradingIsOfView, InView
<1>5. ClientTypeOK'
    BY <1>1, <1>2 DEF ScreenInv, ClientTypeOK, OrNobody
<1> QED
    BY <1>3, <1>4, <1>5 DEF ScreenInv

LEMMA CreatedKeeps ==
    ASSUME ScreenInv, Created
    PROVE  ScreenInv'
<1> DEFINE c == starting
           call == Connecting(calls[c])
<1>1. /\ c \in Calls /\ calls[c] \in Call /\ calls[c].at = "new"
      /\ held = Nobody /\ stage # "gone"
    BY DEF Created, Mounted, ScreenInv, ClientTypeOK, ScreenSound, OrNobody
<1>2. Sound(calls[c], FALSE, FALSE)
  <2>1. Sound(calls[c], c = held, stage = "gone") /\ (c = held) = FALSE /\ (stage = "gone") = FALSE
      BY <1>1, ScreenAssumption DEF ScreenInv, CallsSound
  <2> QED
      BY <2>1
<1>3. call \in Call /\ Sound(call, TRUE, FALSE)
    BY <1>1, <1>2, ConnectingSound
<1>4. /\ Becomes(c, call) /\ held' = c /\ active' = c /\ stage' = "live"
      /\ starting' = Nobody /\ viewed' = Nobody /\ timer' = Nobody /\ result' = Nobody
      /\ loads' = loads
    BY DEF Created
<1>5. /\ (c = held') = TRUE /\ (stage' = "gone") = FALSE /\ (stage = "gone") = FALSE
      /\ \A k \in Calls \ {c} : (k = held') = (k = held)
    BY <1>1, <1>4, ScreenAssumption
<1> HIDE DEF call
<1>6. calls' \in [Calls -> Call] /\ CallsSound'
    BY <1>1, <1>3, <1>4, <1>5, BecomesSound
<1>7. ScreenSound' /\ LoadsAreOfView' /\ GradingIsOfView'
    BY <1>4 DEF ScreenSound, LoadsAreOfView, GradingIsOfView
<1>8. ClientTypeOK'
    BY <1>1, <1>4, <1>6 DEF ScreenInv, ClientTypeOK, OrNobody
<1> QED
    BY <1>6, <1>7, <1>8 DEF ScreenInv

(* A session is created for a learner who has signed out: the call is not   *)
(* made, or is made by a screen that is not there.                          *)
LEMMA CreatedLateKeeps ==
    ASSUME ScreenInv, CreatedSignedOut \/ CreatedUnmounted
    PROVE  ScreenInv'
<1> DEFINE c == starting
<1>1. /\ c \in Calls /\ calls[c] \in Call /\ calls[c].at = "new"
      /\ held = Nobody /\ stage \notin {"live", "gone"}
    BY DEF CreatedSignedOut, CreatedUnmounted, ScreenInv, ClientTypeOK, ScreenSound, OrNobody
<1>2. Sound(calls[c], FALSE, FALSE)
  <2>1. Sound(calls[c], c = held, stage = "gone") /\ (c = held) = FALSE /\ (stage = "gone") = FALSE
      BY <1>1, ScreenAssumption DEF ScreenInv, CallsSound
  <2> QED
      BY <2>1
<1>3. PICK call \in Call : Becomes(c, call) /\ Sound(call, FALSE, FALSE)
  <2>1. CASE CreatedSignedOut
      BY <2>1, <1>1, <1>2, PlaceSound DEF CreatedSignedOut
  <2>2. CASE CreatedUnmounted
      BY <2>2, <1>1, <1>2, UnmountedSound DEF CreatedUnmounted
  <2> QED
      BY <2>1, <2>2
<1>4. /\ starting' = Nobody /\ held' = held /\ loads' = loads
      /\ \/ UNCHANGED <<stage, active, viewed, timer, result>>
         \/ /\ active' = c /\ viewed' = Nobody /\ timer' = Nobody
            /\ stage' = "home" /\ result' = Nobody
    BY DEF CreatedSignedOut, CreatedUnmounted, analysis
<1>5. /\ (c = held') = FALSE /\ (stage' = "gone") = FALSE /\ (stage = "gone") = FALSE
      /\ \A k \in Calls \ {c} : (k = held') = (k = held)
    BY <1>1, <1>4, ScreenAssumption
<1>6. calls' \in [Calls -> Call] /\ CallsSound'
    BY <1>1, <1>3, <1>5, BecomesSound
<1>7. ScreenSound'
    BY <1>1, <1>4 DEF ScreenInv, ScreenSound
<1>8. LoadsAreOfView' /\ GradingIsOfView'
    BY <1>4 DEF ScreenInv, LoadsAreOfView, GradingIsOfView, InView
<1>9. ClientTypeOK'
    BY <1>1, <1>4, <1>6 DEF ScreenInv, ClientTypeOK, OrNobody
<1> QED
    BY <1>6, <1>7, <1>8, <1>9 DEF ScreenInv

-----------------------------------------------------------------------------
(***************************************************************************)
(* The grading.                                                             *)
(***************************************************************************)
(* A new request outdates the others: no other can bring a result.          *)
LEMMA LoadGradingKeeps ==
    ASSUME ScreenInv, NEW session \in Sessions, LoadGrading(session),
           UNCHANGED <<calls, starting, active, held>>, stage' = "analysis", stage \notin {"live", "gone"},
           InView' \in {session, Nobody}, viewed' \in OrNobody(Sessions), timer' \in {timer, Nobody}
    PROVE  ScreenInv'
<1> DEFINE load == [session |-> session, at |-> "status", current |-> TRUE]
<1>1. loads' = Outdated \union {load} /\ result' = Nobody
    BY DEF LoadGrading
<1>2. load \in Load /\ load.session = session
    BY DEF Load
<1>3. Outdated \subseteq Load /\ \A l \in Outdated : ~l.current
    BY OutdatedLoads DEF ScreenInv
<1> HIDE DEF load
<1>4. held = Nobody
    BY DEF ScreenInv, ScreenSound
<1>5. CallsSound'
    BY <1>4 DEF ScreenInv, CallsSound, Sound, Fresh, ChannelFollowsMic, Held, Owned, Commanded, Gone
<1>6. ScreenSound'
    BY <1>4 DEF ScreenInv, ScreenSound
<1>7. LoadsAreOfView' /\ GradingIsOfView'
    BY <1>1, <1>2, <1>3 DEF LoadsAreOfView, GradingIsOfView
<1>8. ClientTypeOK'
    BY <1>1, <1>2, <1>3 DEF ScreenInv, ClientTypeOK, OrNobody
<1> QED
    BY <1>5, <1>6, <1>7, <1>8 DEF ScreenInv

LEMMA TimerKeeps ==
    ASSUME ScreenInv, TimerFires
    PROVE  ScreenInv'
<1>1. timer \in Sessions /\ active \in {timer, Nobody} /\ stage \notin {"live", "gone"}
    BY ScreenAssumption DEF TimerFires, ScreenInv, ScreenSound, ClientTypeOK, OrNobody, Sessions
<1>2. InView' \in {timer, Nobody} /\ viewed' \in OrNobody(Sessions) /\ timer' \in {timer, Nobody}
    BY <1>1 DEF TimerFires, InView, OrNobody
<1> QED
    BY <1>1, <1>2, LoadGradingKeeps DEF TimerFires

LEMMA SelectKeeps ==
    ASSUME ScreenInv, NEW s \in History, SelectHistory(s)
    PROVE  ScreenInv'
<1>1. s \in Sessions /\ s # Nobody
    BY ScreenAssumption DEF History, Sessions
<1>2. InView' = s /\ viewed' \in OrNobody(Sessions) /\ timer' \in {timer, Nobody}
    BY <1>1 DEF SelectHistory, InView, OrNobody
<1> QED
    BY <1>1, <1>2, LoadGradingKeeps DEF SelectHistory

LEMMA RefreshKeeps ==
    ASSUME ScreenInv, Refresh
    PROVE  ScreenInv'
<1>1. UNCHANGED <<calls, stage, starting, active, held, viewed, timer>>
    BY DEF Refresh, screen
<1>2. InView \in Sessions /\ viewed \in OrNobody(Sessions)
    BY DEF Refresh, InView, ScreenInv, ClientTypeOK, OrNobody, Sessions
<1>3. InView' = InView
    BY <1>1 DEF InView
<1> QED
    BY <1>1, <1>2, <1>3, LoadGradingKeeps DEF Refresh

LEMMA PracticeAgainKeeps ==
    ASSUME ScreenInv, PracticeAgain
    PROVE  ScreenInv'
<1>1. held = Nobody
    BY DEF PracticeAgain, ScreenInv, ScreenSound
<1>2. CallsSound'
    BY <1>1 DEF PracticeAgain, ScreenInv, CallsSound, Sound, Fresh, ChannelFollowsMic, Held, Owned,
                Commanded, Gone
<1>3. ScreenSound' /\ LoadsAreOfView' /\ GradingIsOfView'
    BY <1>1 DEF PracticeAgain, ScreenInv, ScreenSound, LoadsAreOfView, GradingIsOfView
<1>4. ClientTypeOK'
    BY OutdatedLoads DEF PracticeAgain, ScreenInv, ClientTypeOK, OrNobody
<1> QED
    BY <1>2, <1>3, <1>4 DEF ScreenInv

(* An answer moves its request or ends it; only the current one shows a      *)
(* result.                                                                  *)
LEMMA LoadStepKeeps ==
    ASSUME ScreenInv, LoadStep
    PROVE  ScreenInv'
<1>1. PICK l \in loads : StaleLoadEnds(l) \/ StatusArrives(l) \/ PauseEnds(l) \/ ResultArrives(l)
    BY DEF LoadStep
<1>2. UNCHANGED <<calls, stage, starting, active, held, viewed, timer>>
    BY DEF LoadStep, screen
<1>3. l \in Load /\ loads \subseteq Load
    BY DEF ScreenInv, ClientTypeOK
<1>4. \/ loads' = loads \ {l}
      \/ \E place \in {"status", "result", "pause"} :
            loads' = (loads \ {l}) \union {[l EXCEPT !.at = place]}
    BY <1>1 DEF StaleLoadEnds, StatusArrives, PauseEnds, ResultArrives, Goes, Ends
<1>5. \A place \in {"status", "result", "pause"} :
        LET moved == [l EXCEPT !.at = place] IN
        moved \in Load /\ moved.session = l.session /\ moved.current = l.current
    BY <1>3 DEF Load
<1>6. \A k \in loads' : k \in Load /\ (k \in loads \/ (k.session = l.session /\ k.current = l.current))
    BY <1>3, <1>4, <1>5
<1>7. \A j, k \in loads' : j.current /\ k.current => j = k
    BY <1>4, <1>5 DEF ScreenInv, ClientTypeOK
<1>8. result' = result \/ (result' = l.session /\ l.current)
    BY <1>1 DEF StaleLoadEnds, StatusArrives, PauseEnds, ResultArrives
<1>9. InView' = InView
    BY <1>2 DEF InView
<1>10. CallsSound' /\ ScreenSound'
    BY <1>2 DEF ScreenInv, ScreenSound, CallsSound, Sound, Fresh, ChannelFollowsMic, Held, Owned, Commanded,
                Gone
<1>11. LoadsAreOfView' /\ GradingIsOfView'
    BY <1>2, <1>6, <1>8, <1>9 DEF ScreenInv, LoadsAreOfView, GradingIsOfView
<1>12. l.session \in Sessions
    BY <1>3 DEF Load
<1>13. ClientTypeOK'
    BY <1>2, <1>6, <1>7, <1>8, <1>12 DEF ScreenInv, ClientTypeOK, OrNobody
<1> QED
    BY <1>10, <1>11, <1>13 DEF ScreenInv

-----------------------------------------------------------------------------
(***************************************************************************)
(* The theorems.                                                            *)
(***************************************************************************)
LEMMA ScreenInvNext == ScreenInv /\ [Next]_vars => ScreenInv'
<1> SUFFICES ASSUME ScreenInv, [Next]_vars PROVE ScreenInv'
    OBVIOUS
<1>1. CASE Start \/ CreateFails
    BY <1>1, StartKeeps
<1>2. CASE Created
    BY <1>2, CreatedKeeps
<1>3. CASE EndSession
    BY <1>3, EndSessionKeeps
<1>4. CASE PracticeAgain
    BY <1>4, PracticeAgainKeeps
<1>5. CASE Unmount
    BY <1>5, UnmountKeeps
<1>6. CASE LeavePage
    BY <1>6, LeavePageKeeps
<1>7. CASE TimerFires
    BY <1>7, TimerKeeps
<1>8. CASE Refresh
    BY <1>8, RefreshKeeps
<1>9. CASE LoadStep
    BY <1>9, LoadStepKeeps
<1>10. CASE \E s \in History : SelectHistory(s)
    BY <1>10, SelectKeeps
<1>11. CASE \E c \in Calls : ConnectRefused(c) \/ ConnectRaises(c)
    BY <1>11, ConnectFailsKeeps
<1>12. CASE \E c \in Calls : CallStep(c) /\ UNCHANGED <<screen, analysis>>
    BY <1>12, CallStepKeeps
<1>13. CASE CreatedSignedOut \/ CreatedUnmounted
    BY <1>13, CreatedLateKeeps
<1>14. CASE BeforeUnload
    BY <1>14, BeforeUnloadKeeps
<1>15. CASE UNCHANGED vars
  <2>1. UNCHANGED <<calls, stage, starting, active, held, viewed, timer, loads, result>>
      BY <1>15 DEF vars, screen, analysis
  <2>2. CallsSound'
      BY <2>1 DEF ScreenInv, CallsSound, Sound, Fresh, ChannelFollowsMic, Held, Owned, Commanded, Gone
  <2>3. ClientTypeOK' /\ ScreenSound' /\ LoadsAreOfView' /\ GradingIsOfView'
      BY <2>1 DEF ScreenInv, ClientTypeOK, ScreenSound, LoadsAreOfView, GradingIsOfView, InView
  <2> QED
      BY <2>2, <2>3 DEF ScreenInv
<1> QED
    BY <1>1, <1>2, <1>3, <1>4, <1>5, <1>6, <1>7, <1>8, <1>9, <1>10, <1>11, <1>12, <1>13, <1>14, <1>15
       DEF Next

(* The invariant from which the rest follows.                               *)
THEOREM ScreenInvariant == Spec => []ScreenInv
    BY ScreenInvInit, ScreenInvNext, PTL DEF Spec

(* The calls, the screen and the requests have their types, and one request  *)
(* is current at most, for any number of sessions.                          *)
THEOREM ClientTypeCorrect == Spec => []ClientTypeOK
<1>1. ScreenInv => ClientTypeOK
    BY DEF ScreenInv
<1> QED
    BY <1>1, ScreenInvariant, PTL

(* The microphone is open only for the call the screen holds or one whose    *)
(* END_SESSION is on its way, save the exceptions named.                    *)
THEOREM MicrophoneIsOwned == Spec => []MicIsOwned
<1>1. ScreenInv => MicIsOwned
    BY DEF ScreenInv, CallsSound, Sound, Owned, MicIsOwned
<1> QED
    BY <1>1, ScreenInvariant, PTL

(* START and END_SESSION are sent once each and in order, and no started     *)
(* session is left without its end.                                         *)
THEOREM CommandsAreInOrder == Spec => []CommandsInOrder
<1>1. ScreenInv => CommandsInOrder
    BY DEF ScreenInv, CallsSound, Sound, Commanded, CommandsInOrder
<1> QED
    BY <1>1, ScreenInvariant, PTL

(* What gets into the transcript on the screen is of its own session.       *)
THEOREM TranscriptStaysOwn == Spec => []TranscriptIsOwn
<1>1. ScreenInv => TranscriptIsOwn
  <2> SUFFICES ASSUME ScreenInv, NEW c \in Calls, calls[c].channel = "open", calls[c].lost = "no"
               PROVE  c = active
      BY DEF TranscriptIsOwn
  <2>1. Sound(calls[c], c = held, stage = "gone")
      BY DEF ScreenInv, CallsSound
  <2>2. calls[c].mic /\ ~calls[c].saying
      BY <2>1 DEF Sound, ChannelFollowsMic
  <2>3. c = held
      BY <2>1, <2>2 DEF Sound, Owned
  <2> QED
      BY <2>3, ScreenAssumption DEF ScreenInv, ScreenSound
<1> QED
    BY <1>1, ScreenInvariant, PTL

(* The grading shown is that of the session in view, for any number of       *)
(* requests under way.                                                      *)
THEOREM GradingStaysOfView == Spec => []GradingIsOfView
<1>1. ScreenInv => GradingIsOfView
    BY DEF ScreenInv
<1> QED
    BY <1>1, ScreenInvariant, PTL
================================================================================
