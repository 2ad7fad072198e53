---------------------------- MODULE PracticeScreen ----------------------------
(***************************************************************************)
(* The practice screen of the browser (PracticeScreen.tsx) with the calls   *)
(* it makes (RealtimeClient): a session is created and connected, ended by  *)
(* the learner, graded, or looked at in the history.  Answers of the API    *)
(* and of the gateway arrive late, out of order or not at all, while the    *)
(* learner goes on clicking.                                                *)
(***************************************************************************)
EXTENDS RealtimeClient, FiniteSets

CONSTANTS
    Past,       \* sessions of earlier days, in the history only
    Nobody,     \* no call or session
    MaxLoads    \* bound: runs of loadGrading at the same time

ASSUME ScreenAssumption ==
    /\ Nobody \notin Calls \union Past
    /\ MaxLoads \in Nat

VARIABLES
    stage,      \* the screen: "home", "live", "ended", "analysis"; "out" unmounted, "gone"
                \* with the page
    starting,   \* the call whose session is being created
    active,     \* activeSessionId
    held,       \* realtimeRef
    viewed,     \* historySession
    timer,      \* the session whose analysis is shown 900 ms after its end
    loads,      \* the runs of loadGrading that await something; "current" is the one
                \* whose number gradingRequestRef has
    result      \* the session of gradingResult; what else analysisStatus can be
                \* does not matter here

screen == <<stage, starting, active, held, viewed, timer>>
analysis == <<loads, result>>
vars == <<calls, screen, analysis>>

Sessions == Calls \union Past
OrNobody(S) == S \union {Nobody}

Load == [session : Sessions, at : {"status", "result", "pause"},
         current : BOOLEAN]

Init ==
    /\ CallsInit
    /\ stage = "home" /\ starting = Nobody /\ active = Nobody /\ held = Nobody
    /\ viewed = Nobody /\ timer = Nobody
    /\ loads = {} /\ result = Nobody

Mounted == stage \notin {"out", "gone"}

-----------------------------------------------------------------------------
(***************************************************************************)
(* startSession, and the calls that come of it.                             *)
(***************************************************************************)
Start ==
    /\ stage = "home" /\ starting = Nobody
    /\ \E c \in Calls : calls[c].at = "new"
    /\ starting' = CHOOSE c \in Calls : calls[c].at = "new"
    /\ UNCHANGED <<calls, stage, active, held, viewed, timer, analysis>>

(* The session exists: the screen is made ready for it and connect() is     *)
(* called.                                                                  *)
Created ==
    /\ starting # Nobody /\ Mounted
    /\ starting' = Nobody
    /\ active' = starting /\ held' = starting /\ viewed' = Nobody
    /\ timer' = Nobody /\ stage' = "live"
    /\ result' = Nobody
    /\ Becomes(starting, Connecting(calls[starting]))
    /\ UNCHANGED loads

(* The session exists, and the learner has signed out meanwhile: its call   *)
(* is never made.                                                           *)
CreatedSignedOut ==
    /\ starting # Nobody
    /\ starting' = Nobody
    /\ Becomes(starting, [calls[starting] EXCEPT !.at = "over"])
    /\ IF Mounted
       THEN /\ active' = starting /\ viewed' = Nobody /\ timer' = Nobody
            /\ stage' = "home" /\ result' = Nobody
       ELSE UNCHANGED <<stage, active, viewed, timer, result>>
    /\ UNCHANGED <<held, loads>>

(* The learner has signed out and in again meanwhile: the screen that is    *)
(* gone finds a token and connects.  What it holds the call by is gone too.  *)
CreatedUnmounted ==
    /\ starting # Nobody /\ stage = "out"
    /\ starting' = Nobody
    /\ Becomes(starting, [Connecting(calls[starting]) EXCEPT
                             !.lost = Loses(calls[starting], "unmounted")])
    /\ UNCHANGED <<stage, active, held, viewed, timer, analysis>>

CreateFails ==
    /\ starting # Nobody
    /\ starting' = Nobody
    /\ UNCHANGED <<calls, stage, active, held, viewed, timer, analysis>>

(* The catch around connect(): back home, without a look at whose connect() *)
(* it was.  Another call, if the screen holds one, is forgotten.            *)
ConnectCaught(c, after) ==
    /\ calls' = [k \in Calls |->
                    IF k = c THEN after
                    ELSE IF k = held THEN [calls[k] EXCEPT !.lost = Loses(calls[k], "forgotten")]
                    ELSE calls[k]]
    /\ held' = Nobody
    /\ stage' = IF Mounted THEN "home" ELSE stage
    /\ UNCHANGED <<starting, active, viewed, timer, analysis>>

ConnectRefused(c) ==
    /\ MicDeniable(calls[c]) \/ OfferRefusable(calls[c])
    /\ ConnectCaught(c, Refused(calls[c]))

ConnectRaises(c) == Raisable(calls[c]) /\ ConnectCaught(c, Raised(calls[c]))

-----------------------------------------------------------------------------
(***************************************************************************)
(* endSession, practiceAgain, and the end of the screen.                    *)
(***************************************************************************)
Release == calls' = IF held = Nobody THEN calls
                    ELSE [calls EXCEPT ![held] = Disconnected(@)]

EndSession ==
    /\ stage = "live"
    /\ Release /\ held' = Nobody
    /\ timer' = active /\ stage' = "ended"
    /\ UNCHANGED <<starting, active, viewed, analysis>>

(* A new value of gradingRequestRef: what is under way stops at its next look *)
(* at it.                                                                    *)
Outdated == {[l EXCEPT !.current = FALSE] : l \in loads}

PracticeAgain ==
    /\ stage = "analysis"
    /\ loads' = Outdated
    /\ active' = Nobody /\ viewed' = Nobody /\ result' = Nobody /\ stage' = "home"
    /\ UNCHANGED <<calls, starting, held, timer>>

(* What a screen knows goes with it.                                        *)
Forget == held' = Nobody /\ timer' = Nobody /\ active' = Nobody /\ viewed' = Nobody /\ result' = Nobody

(* The learner signs out: the screen is unmounted.                          *)
Unmount ==
    /\ Mounted
    /\ stage' = "out"
    /\ Release /\ Forget
    /\ loads' = Outdated
    /\ UNCHANGED starting

(* The browser asks whether to leave the page, or starts a download: the    *)
(* handlers run, and the page stays.                                        *)
BeforeUnload ==
    /\ stage # "gone" /\ \E c \in Calls : calls[c].armed
    /\ calls' = [c \in Calls |-> Survived(calls[c])]
    /\ UNCHANGED <<screen, analysis>>

(* The page is left: nothing of it goes on.                                 *)
LeavePage ==
    /\ stage # "gone"
    /\ stage' = "gone"
    /\ calls' = [c \in Calls |-> [Unloaded(calls[c]) EXCEPT !.at = "over", !.saying = FALSE,
                                                            !.mic = FALSE, !.channel = "none"]]
    /\ Forget /\ starting' = Nobody /\ loads' = {}

-----------------------------------------------------------------------------
(***************************************************************************)
(* loadGrading.                                                             *)
(***************************************************************************)
(* Mutant: the request takes no number of its own. *)
LoadGradingUnnumbered(session) ==
    /\ Cardinality(loads) < MaxLoads
    /\ loads' = loads \union {[session |-> session, at |-> "status", current |-> TRUE]}
    /\ result' = Nobody

(* Up to the first question for the status, with a number of its own.       *)
LoadGrading(session) ==
    /\ Cardinality(loads) < MaxLoads
    /\ loads' = Outdated \union
                {[session |-> session, at |-> "status", current |-> TRUE]}
    /\ result' = Nobody

TimerFires ==
    /\ timer # Nobody
    /\ timer' = Nobody /\ stage' = "analysis" /\ viewed' = Nobody
    /\ LoadGrading(timer)
    /\ UNCHANGED <<calls, starting, active, held>>

(* The sessions that listSessions returns, be it as far as it has come.     *)
History == Past \union {c \in Calls : calls[c].at # "new"}

SelectHistory(s) ==
    /\ stage \in {"home", "analysis"}
    /\ viewed' = s /\ stage' = "analysis"
    /\ LoadGrading(s)
    /\ UNCHANGED <<calls, starting, active, held, timer>>

InView == IF viewed # Nobody THEN viewed ELSE active

Refresh ==
    /\ stage = "analysis" /\ InView # Nobody
    /\ LoadGrading(InView)
    /\ UNCHANGED <<calls, screen>>

Goes(l, place) == loads' = (loads \ {l}) \union {[l EXCEPT !.at = place]}
Ends(l) == loads' = loads \ {l}

StaleLoadEnds(l) ==
    /\ ~l.current /\ Ends(l)
    /\ UNCHANGED result

(* An answer to the question for the status: it is graded, it is not to be  *)
(* expected any more, or it is to be asked for again (as often as the code   *)
(* counts; here as often as one likes).                                     *)
StatusArrives(l) ==
    /\ l.at = "status" /\ l.current
    /\ Goes(l, "result") \/ Ends(l) \/ Goes(l, "pause")
    /\ UNCHANGED result

PauseEnds(l) ==
    /\ l.at = "pause" /\ l.current
    /\ Goes(l, "status")
    /\ UNCHANGED result

(* Mutant: the answer is taken without a look at the request it belongs to. *)
ResultArrivesAnyhow(l) ==
    /\ l.at = "result" /\ Ends(l)
    /\ result' = l.session \/ UNCHANGED result

ResultArrives(l) ==
    /\ l.at = "result" /\ l.current /\ Ends(l)
    /\ result' = l.session \/ UNCHANGED result

LoadStep ==
    /\ \E l \in loads : StaleLoadEnds(l) \/ StatusArrives(l) \/ PauseEnds(l) \/ ResultArrives(l)
    /\ UNCHANGED <<calls, screen>>

-----------------------------------------------------------------------------
CallStep(c) ==
    \/ MicGranted(c) \/ Offered(c) \/ Answered(c) \/ Connected(c) \/ ChannelOpens(c)
    \/ ChannelLost(c) \/ Ready(c) \/ EngineFails(c) \/ GatewayEnds(c) \/ SaidEnd(c)

Next ==
    \/ Start \/ Created \/ CreatedSignedOut \/ CreatedUnmounted \/ CreateFails
    \/ EndSession \/ PracticeAgain \/ Unmount \/ BeforeUnload \/ LeavePage
    \/ TimerFires \/ Refresh \/ LoadStep
    \/ \E s \in History : SelectHistory(s)
    \/ \E c \in Calls : ConnectRefused(c) \/ ConnectRaises(c)
    \/ \E c \in Calls : CallStep(c) /\ UNCHANGED <<screen, analysis>>

Spec == Init /\ [][Next]_vars

-----------------------------------------------------------------------------
(***************************************************************************)
(* Properties.                                                              *)
(***************************************************************************)

ClientTypeOK ==
    /\ calls \in [Calls -> Call]
    /\ stage \in {"home", "live", "ended", "analysis", "out", "gone"}
    /\ starting \in OrNobody(Calls) /\ active \in OrNobody(Calls) /\ held \in OrNobody(Calls)
    /\ viewed \in OrNobody(Sessions) /\ timer \in OrNobody(Calls)
    /\ loads \subseteq Load /\ \A k, l \in loads : k.current /\ l.current => k = l
    /\ result \in OrNobody(Sessions)

(* A microphone is open only for the call the screen holds, or while its    *)
(* END_SESSION is on the way, whatever awaits are crossed by the end, a     *)
(* failure or a new session.  The exceptions are calls whose microphone was *)
(* granted after the end, whose connect() raised outside its try blocks,    *)
(* that the failure of an older call made the screen forget, and that a     *)
(* screen makes which is not there any more.                                *)
MicIsOwned ==
    \A c \in Calls :
        calls[c].mic => \/ c = held \/ calls[c].saying
                        \/ calls[c].lost \in {"late mic", "raised", "forgotten", "unmounted"}

(* A session is started once and ended once, in this order, and a started   *)
(* one is not left behind without its end, unless the gateway ended it.     *)
(* (A channel that opens while END_SESSION is on its way over HTTP sends    *)
(* START behind it; a page that stays after beforeunload ends a call twice.) *)
CommandsInOrder ==
    \A c \in Calls :
        calls[c].lost = "no" =>
            /\ calls[c].sent \in {<< >>, <<START>>, <<END>>, <<START, END>>}
            /\ calls[c].sent = <<START>> => c = held \/ calls[c].life = "ended" \/ stage = "gone"

(* Nothing but what the session on the screen says can get into its          *)
(* transcript: whoever has an open channel puts its finals and replies there *)
(* and nobody asks whose they are.  The exceptions again are the calls that  *)
(* slipped out of the screen's hands.                                        *)
TranscriptIsOwn ==
    stage = "live" =>
        \A c \in Calls : calls[c].channel = "open" => c = active \/ calls[c].lost # "no"

(* The grading on the screen is that of the session in view, if there is    *)
(* one, in whatever order the answers to older questions come in.           *)
GradingIsOfView ==
    stage = "analysis" /\ result # Nobody /\ InView # Nobody => result = InView

Has(s, x) == \E i \in DOMAIN s : s[i] = x

(* realtime.ts: on disconnect the implementation must "stop every           *)
(* microphone track and release the MediaStream".                           *)
MicReleased == \A c \in Calls : Has(calls[c].sent, END) /\ ~calls[c].saying => ~calls[c].mic
================================================================================
