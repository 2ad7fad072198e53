---------------------------- MODULE RealtimeClient ----------------------------
(***************************************************************************)
(* The sessions of the browser (createRealtimeSession in realtime.ts): the  *)
(* microphone, the peer connection and the control channel of each, from    *)
(* connect() to disconnect().  JavaScript runs one callback at a time: what *)
(* runs between two awaits is one step.  The browser, the microphone's      *)
(* owner and the gateway answer whenever they like, or never.               *)
(***************************************************************************)
EXTENDS Naturals, Sequences

CONSTANT Calls      \* session objects, each for a session of its own

VARIABLE calls

START == "START"
END == "END_SESSION"

(* Where connect() awaits: the microphone, the offer, the gateway's answer, *)
(* the remote description; "up" and "over" when it has returned or raised.  *)
Places == {"new", "mic", "offer", "answer", "remote", "up", "over"}

(* What is asked of a session's state; connecting and live are "on" alike.   *)
Lives == {"idle", "on", "ending", "ended", "error"}

NewCall ==
    [at |-> "new", life |-> "idle", peer |-> FALSE, mic |-> FALSE, channel |-> "none", armed |-> FALSE,
     saying |-> FALSE, sent |-> << >>, lost |-> "no"]

Call ==
    [at : Places, life : Lives, peer : BOOLEAN, mic : BOOLEAN,
     channel : {"none", "opening", "open"},
     armed : BOOLEAN,      \* the pagehide handler is there
     saying : BOOLEAN,     \* disconnect() awaits the HTTP answer to its END_SESSION
     sent : Seq({START, END}),                          \* history: commands sent
     lost : {"no", "late mic", "late start", "raised", "forgotten", "unloaded", "unmounted"}]
                           \* history: how it has slipped out of the screen's hands

CallsInit == calls = [c \in Calls |-> NewCall]

Becomes(c, call) == calls' = [calls EXCEPT ![c] = call]

-----------------------------------------------------------------------------
(* Mutant: the microphone is left to the peer connection to stop. *)
TornButMic(call) == [call EXCEPT !.peer = FALSE, !.channel = "none", !.armed = FALSE]

(* teardown: everything the call holds is closed and let go of.             *)
Torn(call) ==
    [call EXCEPT !.peer = FALSE, !.mic = FALSE, !.channel = "none", !.armed = FALSE]

(* connect, up to the request for the microphone.                           *)
Connecting(call) == [call EXCEPT !.at = "mic", !.life = "on"]

Loses(call, how) == IF call.lost = "no" THEN how ELSE call.lost

(* The microphone is there.  Nobody looks whether the call still is.        *)
MicGranted(c) ==
    /\ calls[c].at = "mic"
    /\ Becomes(c, [calls[c] EXCEPT !.at = "offer", !.mic = TRUE, !.peer = TRUE,
                                   !.channel = "opening",
                                   !.lost = IF calls[c].life = "ended" THEN Loses(calls[c], "late mic")
                                            ELSE @])

(* The microphone is denied; the gateway cannot be reached or refuses the   *)
(* offer.                                                                   *)
MicDeniable(call) == call.at = "mic"
OfferRefusable(call) == call.at = "answer"

(* failConnect.                                                             *)
Refused(call) == [Torn(call) EXCEPT !.at = "over", !.life = "error"]

(* An await outside every try raises: the offer (of a connection that was   *)
(* closed meanwhile, for instance), the body of the answer, or the answer   *)
(* as remote description.  Nothing is torn down.                            *)
Raisable(call) == call.at \in {"offer", "answer", "remote"}
Raised(call) ==
    [call EXCEPT !.at = "over", !.lost = IF call.mic THEN Loses(call, "raised") ELSE @]

Offered(c) ==
    /\ calls[c].at = "offer" /\ calls[c].peer
    /\ Becomes(c, [calls[c] EXCEPT !.at = "answer"])

(* The gateway accepts; a call torn down meanwhile stops here.              *)
Answered(c) ==
    /\ calls[c].at = "answer"
    /\ Becomes(c, [calls[c] EXCEPT !.at = IF calls[c].peer THEN "remote" ELSE "over"])

(* The description and the candidates are in; the handlers of the page are  *)
(* set even if the call was torn down during the candidates.                *)
Connected(c) ==
    /\ calls[c].at = "remote"
    /\ Becomes(c, [calls[c] EXCEPT !.at = "up", !.armed = TRUE])

(* rawSend: over the channel if it is open, else over HTTP.                 *)
Sending(call, command) == [call EXCEPT !.sent = Append(@, command)]

ChannelOpens(c) ==
    /\ calls[c].channel = "opening" /\ calls[c].at \in {"remote", "up"}
    /\ LET call == [calls[c] EXCEPT !.channel = "open",
                                    !.lost = IF calls[c].saying
                                             THEN Loses(calls[c], "late start") ELSE @]
       IN Becomes(c, Sending(call, START))

(* The open channel is closed by the other side, or fails with the          *)
(* connection: commands go over HTTP from now on.                           *)
ChannelLost(c) ==
    /\ calls[c].channel = "open"
    /\ Becomes(c, [calls[c] EXCEPT !.channel = "none"])

(* applyEvent, of what the gateway sends over the open channel.             *)
Ready(c) ==
    /\ calls[c].channel = "open"
    /\ Becomes(c, [calls[c] EXCEPT !.life = "on"])

EngineFails(c) ==
    /\ calls[c].channel = "open"
    /\ Becomes(c, [calls[c] EXCEPT !.life = "error"])

GatewayEnds(c) ==
    /\ calls[c].channel = "open"
    /\ Becomes(c, [calls[c] EXCEPT !.life = "ended"])

-----------------------------------------------------------------------------
(* Mutant: with the command on its way over the channel all is said. *)
DisconnectedUntorn(call) ==
    IF call.life \in {"idle", "ending", "ended"}
    THEN Torn([call EXCEPT !.life = "ended"])
    ELSE IF call.channel = "open"
    THEN [Sending(call, END) EXCEPT !.life = "ended"]
    ELSE [Sending(call, END) EXCEPT !.life = "ending", !.saying = TRUE]

(* disconnect, up to its await: a call that is idle, ending or ended is torn *)
(* down, any other sends END_SESSION first.  Over the channel that takes no  *)
(* time; over HTTP it is answered later.                                     *)
Disconnected(call) ==
    IF call.life \in {"idle", "ending", "ended"}
    THEN Torn([call EXCEPT !.life = "ended"])
    ELSE IF call.channel = "open"
    THEN Torn([Sending(call, END) EXCEPT !.life = "ended"])
    ELSE [Sending(call, END) EXCEPT !.life = "ending", !.saying = TRUE]

(* The END_SESSION over HTTP is answered, or fails.                         *)
SaidEnd(c) ==
    /\ calls[c].saying
    /\ Becomes(c, [Torn(calls[c]) EXCEPT !.saying = FALSE, !.life = "ended"])

(* unloadHandler.                                                           *)
Unloaded(call) ==
    IF ~call.armed THEN call
    ELSE IF call.life = "on" THEN Torn(Sending(call, END))
    ELSE Torn(call)

(* The same when the page stays after all.  The handler leaves the state as  *)
(* it is: a call that was live will be ended once more.                     *)
Survived(call) ==
    IF call.armed /\ call.life = "on"
    THEN [Unloaded(call) EXCEPT !.lost = Loses(call, "unloaded")]
    ELSE Unloaded(call)
================================================================================
