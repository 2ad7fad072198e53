--------------------------- MODULE RealtimeSession ---------------------------
(***************************************************************************)
(* How sessions begin and end in the TEN gateway process.  The gateway     *)
(* (WebRTCGatewayManager in ten_compat.py) keeps one SessionState per      *)
(* session id; the extension (luve_extension.py) keeps one set of          *)
(* variables for whatever session is active.  They share an event loop:    *)
(* what runs between two awaits is one step, and coroutines of both        *)
(* interleave at the awaits.  Persisting a session is CompletionDelivery.  *)
(***************************************************************************)
EXTENDS CompletionDelivery

CONSTANTS
    Conns,      \* offers, each with the peer connection it creates
    NoConn      \* no entry in _sessions

ASSUME RealtimeAssumption == NoConn \notin Conns

VARIABLES
    peer,       \* the session_id of each offer
    phase,      \* where its create_session is, and what its client has sent
    registry,   \* WebRTCGatewayManager._sessions
    closing,    \* popped entries whose close_session still runs
    gone,       \* peer connections that are closed for good
    ending,     \* END_SESSION handlers, by the session they were accepted for
    stopping    \* where the runtime's stop is

realtime == <<peer, phase, registry, closing, gone, ending, stopping>>
realtimeVars == <<deliveryVars, realtime>>

RTInit ==
    /\ CDInit
    /\ peer = [k \in Conns |-> NoSession]
    /\ phase = [k \in Conns |-> "new"]
    /\ registry = [s \in Sessions |-> NoConn]
    /\ closing = {}
    /\ gone = {}
    /\ ending = [h \in Handlers |-> NoSession]
    /\ stopping = "no"

RTTypeOK ==
    /\ CDTypeOK
    /\ peer \in [Conns -> Sessions \union {NoSession}]
    /\ phase \in [Conns -> {"new", "reserving", "reserved", "sdp", "live", "talking",
                            "left", "failing", "failed", "dead"}]
    /\ registry \in [Sessions -> Conns \union {NoConn}]
    /\ closing \in SUBSET Conns
    /\ gone \in SUBSET Conns
    /\ ending \in [Handlers -> Sessions \union {NoSession}]
    /\ stopping \in {"no", "persisting", "draining", "stopped"}

-----------------------------------------------------------------------------
(***************************************************************************)
(* Commands, as on_cmd handles them.                                       *)
(***************************************************************************)
(* Mutant: START takes over from the active session.                       *)
StartTakesOver(s) == active' = s /\ UNCHANGED faults

(* START is refused while another session is active and changes nothing    *)
(* for the one that is.  Starting a completed session uses up a fault.     *)
StartCmd(s) ==
    IF active # NoSession THEN UNCHANGED <<active, faults>>
    ELSE /\ active' = s
         /\ IF status[s] = "streaming" THEN UNCHANGED faults ELSE Fault

(* END_SESSION for another session than the active one is ignored, and so  *)
(* is any when the runtime has stopped; else a handler runs, even if one   *)
(* or the stop is at work already.                                         *)
EndCmd(s) ==
    IF active = s /\ stopping # "stopped"
    THEN \E h \in Handlers \ {Stopper} :
            /\ ending[h] = NoSession
            /\ ending' = [ending EXCEPT ![h] = s]
    ELSE UNCHANGED ending

-----------------------------------------------------------------------------
(***************************************************************************)
(* create_session.                                                         *)
(***************************************************************************)
(* The manager's lock is held from the capacity check to the registration. *)
LockFree == \A k \in Conns : phase[k] \notin {"reserving", "reserved"}

GoPhase(k, p) == phase' = [phase EXCEPT ![k] = p]

RowUnlocked(s) == \A h \in Handlers : hjob[h] = s => htx[h] = {}

(* The row is written back as joinable, whatever it has become.            *)
WriteJoinable(s) ==
    /\ RowUnlocked(s)
    /\ status' = [status EXCEPT ![s] = "streaming"]
    /\ IF status[s] = "completed" THEN Fault ELSE UNCHANGED faults

(* Connections that count against the capacity, or are about to.           *)
Admitted(k) ==
    \/ phase[k] \in {"reserving", "reserved"}
    \/ \E s \in Sessions : registry[s] = k

(* Mutant: the capacity check runs outside the lock.                       *)
OfferUnlocked(k, s) ==
    /\ phase[k] = "new"
    /\ stopping = "no"
    /\ \A u \in Sessions : registry[u] = NoConn
    /\ status[s] = "streaming" /\ s \notin deleted
    /\ peer' = [peer EXCEPT ![k] = s]
    /\ GoPhase(k, "reserving")
    /\ UNCHANGED <<deliveryVars, registry, closing, gone, ending, stopping>>

(* The capacity check passes and the reservation reads a joinable row.  A  *)
(* server that shuts down takes no new offers.                             *)
Offer(k, s) ==
    /\ phase[k] = "new"
    /\ stopping = "no"
    /\ LockFree
    /\ \A u \in Sessions : registry[u] = NoConn
    /\ status[s] = "streaming" /\ s \notin deleted
    /\ peer' = [peer EXCEPT ![k] = s]
    /\ GoPhase(k, "reserving")
    /\ UNCHANGED <<deliveryVars, registry, closing, gone, ending, stopping>>

Reserve(k) ==
    /\ phase[k] = "reserving"
    /\ WriteJoinable(peer[k])
    /\ GoPhase(k, "reserved")
    /\ UNCHANGED <<backup, deleted, queue, accepted, delivery, peer, registry, closing, gone,
                   ending, stopping>>

(* The reservation fails, and the offer with it.                           *)
ReserveFails(k) ==
    /\ phase[k] = "reserving"
    /\ GoPhase(k, "dead")
    /\ gone' = gone \union {k}
    /\ UNCHANGED <<deliveryVars, peer, registry, closing, ending, stopping>>

(* The session is registered and the extension told to START.              *)
Register(k) ==
    /\ phase[k] = "reserved"
    /\ registry' = [registry EXCEPT ![peer[k]] = k]
    /\ StartCmd(peer[k])
    /\ GoPhase(k, "sdp")
    /\ UNCHANGED <<status, backup, deleted, queue, accepted, hpc, hjob, htx, outbox, attempts,
                   claim, peer, closing, gone, ending, stopping>>

SdpDone(k) ==
    /\ phase[k] = "sdp"
    /\ GoPhase(k, "live")
    /\ UNCHANGED <<deliveryVars, peer, registry, closing, gone, ending, stopping>>

(* The SDP exchange raises: whatever is registered under the session id is *)
(* popped.  The extension is not told.                                     *)
SdpFails(k) ==
    /\ phase[k] = "sdp"
    /\ LockFree
    /\ registry' = [registry EXCEPT ![peer[k]] = NoConn]
    /\ GoPhase(k, "failing")
    /\ UNCHANGED <<deliveryVars, peer, closing, gone, ending, stopping>>

MarkReady(k) ==
    /\ phase[k] = "failing"
    /\ WriteJoinable(peer[k])
    /\ GoPhase(k, "failed")
    /\ UNCHANGED <<backup, deleted, queue, accepted, delivery, peer, registry, closing, gone,
                   ending, stopping>>

FailedClose(k) ==
    /\ phase[k] = "failed" /\ k \notin gone
    /\ gone' = gone \union {k}
    /\ UNCHANGED <<deliveryVars, peer, phase, registry, closing, ending, stopping>>

-----------------------------------------------------------------------------
(***************************************************************************)
(* close_session and the client's commands.                                *)
(***************************************************************************)
(* A peer connection that is not closed for good reports "disconnected",   *)
(* "failed" or "closed".  The callback pops the entry of its session id,   *)
(* which may by then belong to a later connection.                         *)
StateCallback(k) ==
    /\ phase[k] \notin {"new", "reserving", "reserved"} /\ k \notin gone
    /\ LockFree
    /\ registry[peer[k]] # NoConn
    /\ closing' = closing \union {registry[peer[k]]}
    /\ registry' = [registry EXCEPT ![peer[k]] = NoConn]
    /\ UNCHANGED <<deliveryVars, peer, phase, gone, ending, stopping>>

(* Mutant: close_session does not tell the extension.                      *)
CloseSilently(k) ==
    /\ k \in closing
    /\ closing' = closing \ {k}
    /\ gone' = gone \union {k}
    /\ UNCHANGED <<deliveryVars, peer, phase, registry, ending, stopping>>

(* Tasks are cancelled, the track and the connection closed; only then is  *)
(* the extension told to end the session.                                  *)
CloseDone(k) ==
    /\ k \in closing
    /\ closing' = closing \ {k}
    /\ gone' = gone \union {k}
    /\ EndCmd(peer[k])
    /\ UNCHANGED <<deliveryVars, peer, phase, registry, stopping>>

(* The client's control channel opens and START is sent over it.           *)
ClientStart(k) ==
    /\ phase[k] = "live" /\ k \notin gone
    /\ StartCmd(peer[k])
    /\ GoPhase(k, "talking")
    /\ UNCHANGED <<status, backup, deleted, queue, accepted, hpc, hjob, htx, outbox, attempts,
                   claim, peer, registry, closing, gone, ending, stopping>>

(* The client leaves: END_SESSION over the data channel or over HTTP, which *)
(* may be late.                                                            *)
ClientEnd(k) ==
    /\ phase[k] \in {"live", "talking"}
    /\ EndCmd(peer[k])
    /\ GoPhase(k, "left")
    /\ UNCHANGED <<deliveryVars, peer, registry, closing, gone, stopping>>

-----------------------------------------------------------------------------
(***************************************************************************)
(* The extension: END_SESSION handlers.                                    *)
(***************************************************************************)
(* A handler that has drained the inference queue, or waited five seconds  *)
(* for it, persists whatever session is active by then.                    *)
PersistActive(h) ==
    /\ ending[h] # NoSession
    /\ BeginPersist(h)
    /\ UNCHANGED realtime

(* No session is left to persist: the handler only resets.                 *)
NothingToPersist(h) ==
    /\ ending[h] # NoSession
    /\ hpc[h] = "idle"
    /\ active = NoSession
    /\ ending' = [ending EXCEPT ![h] = NoSession]
    /\ UNCHANGED <<deliveryVars, peer, phase, registry, closing, gone, stopping>>

(* The rest of the handler, with the reset at its end.                     *)
ResetWhenDone(h) ==
    /\ IF hpc'[h] = "idle"
       THEN ending' = [ending EXCEPT ![h] = NoSession]
       ELSE UNCHANGED ending
    /\ UNCHANGED <<peer, phase, registry, closing, gone, stopping>>

EndingStep(h) ==
    \/ PersistActive(h)
    \/ NothingToPersist(h)
    \/ HandlerStep(h) /\ ResetWhenDone(h)

EndingFault(h) == HandlerFault(h) /\ ResetWhenDone(h)

(* The process dies with everything but the rows.                          *)
Crash ==
    /\ GatewayCrash
    /\ phase' = [k \in Conns |-> IF phase[k] = "new" THEN "new" ELSE "dead"]
    /\ registry' = [s \in Sessions |-> NoConn]
    /\ closing' = {}
    /\ gone' = {k \in Conns : phase[k] # "new"}
    /\ ending' = [h \in Handlers |-> NoSession]
    /\ stopping' = "no"
    /\ UNCHANGED peer

-----------------------------------------------------------------------------
(***************************************************************************)
(* The shutdown: stop_async, then close_all, whose close_session is a      *)
(* StateCallback of every registered connection.                           *)
(***************************************************************************)
(* Offers that are being answered: the server waits for them.              *)
Answering(k) ==
    \/ phase[k] \in {"reserving", "reserved", "sdp", "failing"}
    \/ phase[k] = "failed" /\ k \notin gone

(* The stop persists whatever session is active, without a look at the     *)
(* handlers that may be ending it.  It uses up a fault if there is one.    *)
StopBegins ==
    /\ Stopper \in Handlers
    /\ stopping = "no"
    /\ \A k \in Conns : ~Answering(k)
    /\ \/ active # NoSession /\ BeginPersist(Stopper) /\ stopping' = "persisting"
       \/ active = NoSession /\ UNCHANGED deliveryVars /\ stopping' = "draining"
    /\ UNCHANGED <<peer, phase, registry, closing, gone, ending>>

StopPersisted ==
    /\ stopping' = IF hpc'[Stopper] = "idle" THEN "draining" ELSE "persisting"
    /\ UNCHANGED <<peer, phase, registry, closing, gone, ending>>

(* Loop and replies are gone, and the session is reset, also one that      *)
(* started or was joined again since it was persisted.                     *)
StopDone ==
    /\ stopping = "draining"
    /\ \/ StopResets
       \/ active = NoSession /\ UNCHANGED deliveryVars
    /\ stopping' = "stopped"
    /\ UNCHANGED <<peer, phase, registry, closing, gone, ending>>

StopStep ==
    \/ stopping = "persisting" /\ HandlerStep(Stopper) /\ StopPersisted
    \/ StopDone

StopFault == stopping = "persisting" /\ HandlerFault(Stopper) /\ StopPersisted

-----------------------------------------------------------------------------
CreateStep(k) ==
    \/ \E s \in Sessions : Offer(k, s)
    \/ Reserve(k)
    \/ ReserveFails(k)
    \/ Register(k)
    \/ SdpDone(k)
    \/ SdpFails(k)
    \/ MarkReady(k)
    \/ FailedClose(k)

ClientStep(k) == StateCallback(k) \/ ClientStart(k) \/ ClientEnd(k)

RTNext ==
    \/ \E k \in Conns : CreateStep(k) \/ ClientStep(k) \/ CloseDone(k)
    \/ \E h \in Handlers \ {Stopper} : EndingStep(h) \/ EndingFault(h)
    \/ StopBegins \/ StopStep \/ StopFault
    \/ Crash

(* Every await of close_session, of an END_SESSION handler and of the stop *)
(* returns: the wait for the inference queue has a timeout, the others     *)
(* finish.                                                                 *)
RTFairness ==
    /\ \A k \in Conns : WF_realtimeVars(CloseDone(k))
    /\ \A h \in Handlers \ {Stopper} : WF_realtimeVars(EndingStep(h))
    /\ WF_realtimeVars(StopStep)

RTSpec == RTInit /\ [][RTNext]_realtimeVars /\ RTFairness

-----------------------------------------------------------------------------
(***************************************************************************)
(* Properties.                                                             *)
(***************************************************************************)

(* What the gateway and the extension do to the rows and to the active     *)
(* session is what CompletionDelivery says: all of its safety properties   *)
(* hold here.                                                              *)
DeliverySteps == CDInit /\ [][CDNext]_deliveryVars

(* One session per node: no two offers are past the capacity check at the  *)
(* same time, also while a reservation is awaited.                         *)
CapacityOne == \A j, k \in Conns : Admitted(j) /\ Admitted(k) => j = k

(* The extension is never left with a session that nothing is going to     *)
(* end, unless an SDP exchange failed after START, or START came over a    *)
(* data channel when the runtime had stopped and the process is to end.    *)
ActiveIsTracked ==
    active # NoSession =>
        \/ stopping = "stopped"
        \/ \E k \in Conns :
            /\ peer[k] = active
            /\ \/ registry[active] = k
               \/ k \in closing
               \/ phase[k] \in {"failing", "failed"}
        \/ \E h \in Handlers : ending[h] # NoSession

(* A connection that was popped gets its session ended: the extension is   *)
(* free, works for another one, the same client is back, or the runtime    *)
(* has stopped.                                                            *)
ClosedSessionEnds ==
    \A k \in Conns, s \in Sessions :
        (k \in closing /\ peer[k] = s) ~>
            (active # s \/ registry[s] # NoConn \/ stopping = "stopped")

(* docs/ai/EXPERIENCE.md: END_SESSION must belong to one session.  A        *)
(* handler persists and resets only the session it was accepted for.       *)
EndIsScoped ==
    [][\A h \in Handlers :
        ending[h] # NoSession /\ ~Crash =>
            /\ hjob'[h] # hjob[h] => hjob'[h] \in {ending[h], NoSession}
            /\ ending'[h] = NoSession => active \in {ending[h], NoSession}]_realtimeVars
=============================================================================
