------------------------ MODULE RealtimeSession_proofs ------------------------
(***************************************************************************)
(* Proofs about the session lifecycle: the gateway and the extension       *)
(* implement CompletionDelivery, at most one connection is admitted, and   *)
(* no session is left active without anyone to end it.                     *)
(***************************************************************************)
EXTENDS RealtimeSession, CompletionDelivery_proofs

Joining == {"reserving", "reserved"}

(* Which session a connection is for, and where it can be.                 *)
PeerInv ==
    /\ deleted = {}
    /\ \A k \in Conns :
        /\ phase[k] # "new" => peer[k] \in Sessions
        /\ phase[k] \in Joining \union {"new"} => k \notin closing /\ k \notin gone
    /\ \A s \in Sessions :
        registry[s] # NoConn =>
            /\ peer[registry[s]] = s
            /\ phase[registry[s]] \notin Joining \union {"new"}

(* A connection over which START can still come is registered, is being    *)
(* closed, or belongs to a session whose SDP exchange failed.              *)
Followed(k) ==
    \/ registry[peer[k]] = k
    \/ k \in closing
    \/ \E j \in Conns : peer[j] = peer[k] /\ phase[j] \in {"failing", "failed"}

FollowInv ==
    \A k \in Conns :
        phase[k] \in {"sdp", "live", "talking"} /\ k \notin gone => Followed(k)

(* The runtime is stopped by a handler of its own.                         *)
StopInv == stopping = "no" \/ Stopper \in Handlers

LifecycleInv == PeerInv /\ CapacityOne /\ FollowInv /\ StopInv /\ ActiveIsTracked

RTInv == RTTypeOK /\ CDInv /\ LifecycleInv

-----------------------------------------------------------------------------
LEMMA RTInitInv == RTInit => RTInv
  <1> SUFFICES ASSUME RTInit PROVE RTInv
    OBVIOUS
  <1> USE RealtimeAssumption DEF RTInit
  <1>1. CDInv
    BY InitType, InitInv DEF CDInv
  <1>2. RTTypeOK
    BY <1>1 DEF CDInv, RTTypeOK
  <1>3. PeerInv
    BY DEF PeerInv, Joining, CDInit, TablesInit
  <1>4. CapacityOne
    BY DEF CapacityOne, Admitted
  <1>5. FollowInv /\ StopInv /\ ActiveIsTracked
    BY DEF FollowInv, StopInv, ActiveIsTracked, CDInit, DeliveryInit
  <1> QED BY <1>1, <1>2, <1>3, <1>4, <1>5 DEF RTInv, LifecycleInv

-----------------------------------------------------------------------------
(***************************************************************************)
(* What the lifecycle does to rows, outbox and active session is a step of *)
(* CompletionDelivery or no step at all.                                   *)
(***************************************************************************)
LEMMA WriteJoinableImplements ==
  ASSUME CDInv, NEW s \in Sessions, WriteJoinable(s),
         UNCHANGED <<backup, deleted, queue, accepted, delivery>>
  PROVE  [CDNext]_deliveryVars
  <1> USE DEF CDInv, CDTypeOK, TablesTypeOK
  <1>1. CASE status[s] = "completed"
    <2>1. Committed(s)
      BY <1>1 DEF DeliveryInv, CompletionInv, Committed
    <2>2. Reopen(s)
      BY <1>1, <2>1 DEF WriteJoinable, RowUnlocked, Reopen
    <2> QED BY <2>2 DEF CDNext, DeliveryNext
  <1>2. CASE status[s] # "completed"
    <2>1. status[s] = "streaming"
      BY <1>2
    <2>2. status' = status
      BY <2>1 DEF WriteJoinable
    <2>3. faults' = faults
      BY <1>2 DEF WriteJoinable
    <2> QED BY <2>2, <2>3 DEF deliveryVars, tables
  <1> QED BY <1>1, <1>2

LEMMA StartCmdImplements ==
  ASSUME CDInv, deleted = {}, NEW s \in Sessions, StartCmd(s),
         UNCHANGED <<status, backup, deleted, queue, accepted, hpc, hjob, htx, outbox, attempts,
                     claim>>
  PROVE  [CDNext]_deliveryVars
  <1>1. CASE active # NoSession
    BY <1>1 DEF StartCmd, deliveryVars, tables, delivery
  <1>2. CASE active = NoSession /\ status[s] = "streaming"
    <2>1. Start(s)
      BY <1>2 DEF StartCmd, Start, tables
    <2> QED BY <2>1 DEF CDNext, DeliveryNext
  <1>3. CASE active = NoSession /\ status[s] # "streaming"
    <2>1. status[s] = "completed"
      BY <1>3 DEF CDInv, CDTypeOK, TablesTypeOK
    <2>2. Committed(s)
      BY <2>1 DEF CDInv, DeliveryInv, CompletionInv, Committed
    <2>3. Restart(s)
      BY <1>3, <2>2 DEF StartCmd, Restart
    <2> QED BY <2>3 DEF CDNext, DeliveryNext
  <1> QED BY <1>1, <1>2, <1>3

LEMMA StepImplements ==
  ASSUME RTInv, [RTNext]_realtimeVars
  PROVE  [CDNext]_deliveryVars
  <1> USE DEF RTInv, LifecycleInv
  <1>1. ASSUME NEW k \in Conns, Reserve(k) PROVE [CDNext]_deliveryVars
    <2>1. peer[k] \in Sessions
      BY <1>1 DEF Reserve, PeerInv
    <2> QED BY <1>1, <2>1, WriteJoinableImplements DEF Reserve
  <1>2. ASSUME NEW k \in Conns, MarkReady(k) PROVE [CDNext]_deliveryVars
    <2>1. peer[k] \in Sessions
      BY <1>2 DEF MarkReady, PeerInv
    <2> QED BY <1>2, <2>1, WriteJoinableImplements DEF MarkReady
  <1>3. ASSUME NEW k \in Conns, Register(k) \/ ClientStart(k) PROVE [CDNext]_deliveryVars
    <2>1. peer[k] \in Sessions /\ deleted = {}
      BY <1>3 DEF Register, ClientStart, PeerInv
    <2> QED BY <1>3, <2>1, StartCmdImplements DEF Register, ClientStart
  <1>4. ASSUME NEW h \in Handlers, EndingStep(h) \/ EndingFault(h)
        PROVE  [CDNext]_deliveryVars
    BY <1>4 DEF EndingStep, EndingFault, PersistActive, NothingToPersist, CDNext, DeliveryNext
  <1>5. ASSUME Crash PROVE [CDNext]_deliveryVars
    BY <1>5 DEF Crash, CDNext, DeliveryNext
  <1>7. ASSUME Stopper \in Handlers, StopBegins \/ StopStep \/ StopFault
        PROVE  [CDNext]_deliveryVars
    BY <1>7 DEF StopBegins, StopStep, StopDone, StopFault, CDNext, DeliveryNext
  <1>8. StopBegins \/ StopStep \/ StopFault => Stopper \in Handlers \/ UNCHANGED deliveryVars
    BY DEF StopInv, StopBegins, StopStep, StopDone, StopFault, StopResets
  <1>6. ASSUME \/ \E k \in Conns :
                    \/ \E s \in Sessions : Offer(k, s)
                    \/ ReserveFails(k) \/ SdpDone(k) \/ SdpFails(k) \/ FailedClose(k)
                    \/ CloseDone(k)
                    \/ StateCallback(k) \/ ClientEnd(k)
               \/ UNCHANGED realtimeVars
        PROVE  UNCHANGED deliveryVars
    BY <1>6 DEF Offer, ReserveFails, SdpDone, SdpFails, FailedClose, CloseDone, StateCallback, ClientEnd,
       realtimeVars
  <1> QED
    BY <1>1, <1>2, <1>3, <1>4, <1>5, <1>6, <1>7, <1>8 DEF RTNext, CreateStep, ClientStep

-----------------------------------------------------------------------------
(***************************************************************************)
(* Types.                                                                  *)
(***************************************************************************)
LEMMA RTTypeStep ==
  ASSUME RTInv, [RTNext]_realtimeVars
  PROVE  RTTypeOK'
  <1> USE DEF RTInv, LifecycleInv, RTTypeOK, GoPhase
  <1>0. CDTypeOK'
    BY StepImplements, CDNextKeepsInv DEF CDInv
  <1>1. ASSUME NEW k \in Conns, NEW s \in Sessions, Offer(k, s) PROVE RTTypeOK'
    BY <1>0, <1>1 DEF Offer
  <1>2. ASSUME NEW k \in Conns, Reserve(k) \/ ReserveFails(k) \/ MarkReady(k) \/ SdpDone(k)
                                    \/ FailedClose(k)
        PROVE  RTTypeOK'
    BY <1>0, <1>2 DEF Reserve, ReserveFails, MarkReady, SdpDone, FailedClose
  <1>3. ASSUME NEW k \in Conns, Register(k) \/ ClientStart(k) PROVE RTTypeOK'
    BY <1>0, <1>3 DEF Register, ClientStart
  <1>4. ASSUME NEW k \in Conns, SdpFails(k) PROVE RTTypeOK'
    BY <1>0, <1>4 DEF SdpFails
  <1>5. ASSUME NEW k \in Conns, StateCallback(k) PROVE RTTypeOK'
    <2>1. peer[k] \in Sessions
      BY <1>5 DEF StateCallback, PeerInv, Joining
    <2>2. registry[peer[k]] \in Conns
      BY <1>5, <2>1 DEF StateCallback
    <2>3. closing' \in SUBSET Conns
      BY <1>5, <2>2 DEF StateCallback
    <2>4. registry' \in [Sessions -> Conns \union {NoConn}]
      BY <1>5 DEF StateCallback
    <2> QED BY <1>0, <1>5, <2>3, <2>4 DEF StateCallback
  <1>6. ASSUME NEW k \in Conns, CloseDone(k) \/ ClientEnd(k) PROVE RTTypeOK'
    <2>1. peer[k] \in Sessions \union {NoSession}
      OBVIOUS
    <2>2. EndCmd(peer[k])
      BY <1>6 DEF CloseDone, ClientEnd
    <2>3. ending' \in [Handlers -> Sessions \union {NoSession}]
      BY <2>1, <2>2 DEF EndCmd
    <2> QED BY <1>0, <1>6, <2>3 DEF CloseDone, ClientEnd
  <1>7. ASSUME NEW h \in Handlers, EndingStep(h) \/ EndingFault(h) PROVE RTTypeOK'
    BY <1>0, <1>7
    DEF EndingStep, EndingFault, PersistActive, NothingToPersist, ResetWhenDone, realtime
  <1>8. ASSUME UNCHANGED realtimeVars PROVE RTTypeOK'
    BY <1>0, <1>8 DEF realtimeVars, realtime
  <1>9. ASSUME Crash PROVE RTTypeOK'
    BY <1>0, <1>9 DEF Crash
  <1>10. ASSUME StopBegins \/ StopStep \/ StopFault PROVE RTTypeOK'
    BY <1>0, <1>10 DEF StopBegins, StopStep, StopPersisted, StopDone, StopFault
  <1> QED
    BY <1>1, <1>2, <1>3, <1>4, <1>5, <1>6, <1>7, <1>8, <1>9, <1>10
    DEF RTNext, CreateStep, ClientStep

-----------------------------------------------------------------------------
(***************************************************************************)
(* The lifecycle invariant, one lemma per action that can disturb it.      *)
(***************************************************************************)
LEMMA OfferKeeps ==
  ASSUME RTInv, NEW k \in Conns, NEW s \in Sessions, Offer(k, s)
  PROVE  LifecycleInv'
  <1> USE RealtimeAssumption DEF RTInv, LifecycleInv, RTTypeOK, GoPhase, Joining, Offer
  <1>1. PeerInv'
    BY DEF PeerInv, deliveryVars, tables
  <1>2. CapacityOne' /\ StopInv'
    BY DEF CapacityOne, Admitted, LockFree, StopInv
  <1>3. \A j \in Conns : j # k => peer'[j] = peer[j] /\ phase'[j] = phase[j]
    OBVIOUS
  <1>4. k \notin closing /\ \A u \in Sessions : registry[u] # k
    BY DEF PeerInv
  <1>5. FollowInv'
    BY <1>3, <1>4 DEF FollowInv, Followed
  <1>6. ActiveIsTracked'
    BY <1>3, <1>4 DEF ActiveIsTracked, deliveryVars, delivery
  <1> QED BY <1>1, <1>2, <1>5, <1>6

(* Steps that move a connection on and leave registry and START alone.     *)
LEMMA MoveKeeps ==
  ASSUME RTInv, NEW k \in Conns,
         Reserve(k) \/ ReserveFails(k) \/ MarkReady(k) \/ SdpDone(k) \/ FailedClose(k)
  PROVE  LifecycleInv'
  <1> USE RealtimeAssumption
          DEF RTInv, LifecycleInv, RTTypeOK, GoPhase, Joining, Reserve, ReserveFails, MarkReady,
              SdpDone, FailedClose
  <1>1. UNCHANGED <<deleted, active, peer, registry, closing, ending, stopping>>
    BY DEF deliveryVars, tables, delivery
  <1>2. \A j \in Conns : j # k => phase'[j] = phase[j]
    OBVIOUS
  <1>3. /\ phase'[k] # "new" => phase[k] # "new"
        /\ phase'[k] \in Joining \union {"new"} => phase[k] \in Joining \union {"new"}
        /\ phase[k] \in {"failing", "failed"} => phase'[k] \in {"failing", "failed"}
    OBVIOUS
  <1>4. /\ phase'[k] \in {"sdp", "live", "talking"} => phase[k] \in {"sdp", "live", "talking"}
        /\ gone \subseteq gone'
        /\ \A j \in Conns : j \in gone' => j \in gone \/ phase'[j] \in {"failed", "dead"}
    OBVIOUS
  <1>5. PeerInv'
    BY <1>1, <1>2, <1>3, <1>4 DEF PeerInv
  <1>6. CapacityOne' /\ StopInv'
    BY <1>1, <1>2, <1>3 DEF CapacityOne, Admitted, StopInv
  <1>7. FollowInv'
    BY <1>1, <1>2, <1>3, <1>4 DEF FollowInv, Followed
  <1>8. ActiveIsTracked'
    BY <1>1, <1>2, <1>3 DEF ActiveIsTracked
  <1> QED BY <1>5, <1>6, <1>7, <1>8

LEMMA RegisterKeeps ==
  ASSUME RTInv, NEW k \in Conns, Register(k)
  PROVE  LifecycleInv'
  <1> USE RealtimeAssumption DEF RTInv, LifecycleInv, RTTypeOK, GoPhase, Joining, Register
  <1>1. peer[k] \in Sessions
    BY DEF PeerInv
  <1>2. \A j \in Conns, u \in Sessions : registry[u] # j \/ j = k
    BY DEF CapacityOne, Admitted
  <1>3. /\ UNCHANGED <<deleted, peer, closing, gone, ending, stopping>>
        /\ \A j \in Conns : j # k => phase'[j] = phase[j]
        /\ phase'[k] = "sdp" /\ registry'[peer[k]] = k
        /\ \A u \in Sessions : u # peer[k] => registry'[u] = registry[u]
    BY <1>1
  <1>4. k \notin closing /\ \A u \in Sessions : registry[u] # k
    BY DEF PeerInv
  <1>5. \A u \in Sessions : registry[u] = NoConn
    BY <1>2, <1>4
  <1>6. PeerInv'
    BY <1>1, <1>3, <1>5 DEF PeerInv
  <1>7. CapacityOne' /\ StopInv'
    <2>1. \A j \in Conns : Admitted(j)' => j = k
      BY <1>3, <1>5 DEF CapacityOne, Admitted
    <2> QED BY <1>3, <2>1 DEF CapacityOne, StopInv
  <1>8. FollowInv'
    BY <1>1, <1>3, <1>5 DEF FollowInv, Followed, PeerInv
  <1>9. ActiveIsTracked'
    <2>1. CASE active = NoSession
      BY <1>1, <1>3, <2>1 DEF StartCmd, ActiveIsTracked
    <2>2. CASE active # NoSession
      <3>1. active' = active
        BY <2>2 DEF StartCmd
      <3> QED BY <1>3, <1>5, <2>2, <3>1 DEF ActiveIsTracked, CDTypeOK, DeliveryTypeOK
    <2> QED BY <2>1, <2>2
  <1> QED BY <1>6, <1>7, <1>8, <1>9

LEMMA ClientStartKeeps ==
  ASSUME RTInv, NEW k \in Conns, ClientStart(k)
  PROVE  LifecycleInv'
  <1> USE RealtimeAssumption DEF RTInv, LifecycleInv, RTTypeOK, GoPhase, Joining, ClientStart
  <1>1. /\ UNCHANGED <<deleted, peer, registry, closing, gone, ending, stopping>>
        /\ \A j \in Conns : j # k => phase'[j] = phase[j]
        /\ phase[k] = "live" /\ phase'[k] = "talking" /\ k \notin gone
    OBVIOUS
  <1>2. PeerInv'
    BY <1>1 DEF PeerInv
  <1>3. CapacityOne' /\ StopInv'
    BY <1>1 DEF CapacityOne, Admitted, StopInv
  <1>4. FollowInv'
    BY <1>1 DEF FollowInv, Followed
  <1>5. ActiveIsTracked'
    <2>1. CASE active = NoSession
      <3>1. active' = peer[k]
        BY <2>1 DEF StartCmd
      <3>2. Followed(k)
        BY <1>1 DEF FollowInv
      <3> QED BY <1>1, <3>1, <3>2 DEF Followed, ActiveIsTracked
    <2>2. CASE active # NoSession
      <3>1. active' = active
        BY <2>2 DEF StartCmd
      <3> QED BY <1>1, <2>2, <3>1 DEF ActiveIsTracked
    <2> QED BY <2>1, <2>2
  <1> QED BY <1>2, <1>3, <1>4, <1>5

LEMMA SdpFailsKeeps ==
  ASSUME RTInv, NEW k \in Conns, SdpFails(k)
  PROVE  LifecycleInv'
  <1> USE RealtimeAssumption DEF RTInv, LifecycleInv, RTTypeOK, GoPhase, Joining, SdpFails
  <1>1. /\ UNCHANGED <<deleted, active, peer, closing, gone, ending, stopping>>
        /\ \A j \in Conns : j # k => phase'[j] = phase[j]
        /\ phase[k] = "sdp" /\ phase'[k] = "failing"
        /\ \A u \in Sessions : registry'[u] = IF u = peer[k] THEN NoConn ELSE registry[u]
    BY DEF deliveryVars, tables, delivery
  <1>2. PeerInv'
    BY <1>1 DEF PeerInv
  <1>3. CapacityOne' /\ StopInv'
    BY <1>1 DEF CapacityOne, Admitted, StopInv
  <1>4. FollowInv'
    <2> SUFFICES ASSUME NEW j \in Conns, phase'[j] \in {"sdp", "live", "talking"}, j \notin gone
                 PROVE  Followed(j)'
      BY <1>1 DEF FollowInv
    <2>1. Followed(j) /\ peer[j] \in Sessions
      BY <1>1 DEF FollowInv, PeerInv
    <2>2. CASE peer[j] = peer[k]
      BY <1>1, <2>2 DEF Followed
    <2>3. CASE peer[j] # peer[k]
      BY <1>1, <2>1, <2>3 DEF Followed
    <2> QED BY <2>2, <2>3
  <1>5. ActiveIsTracked'
    BY <1>1 DEF ActiveIsTracked, CDTypeOK, DeliveryTypeOK
  <1> QED BY <1>2, <1>3, <1>4, <1>5

LEMMA StateCallbackKeeps ==
  ASSUME RTInv, NEW k \in Conns, StateCallback(k)
  PROVE  LifecycleInv'
  <1> USE RealtimeAssumption DEF RTInv, LifecycleInv, RTTypeOK, Joining, StateCallback
  <1>1. peer[k] \in Sessions
    BY DEF PeerInv
  <1>2. PICK c \in Conns : c = registry[peer[k]]
    BY <1>1
  <1>3. peer[c] = peer[k] /\ phase[c] \notin Joining \union {"new"}
    BY <1>1, <1>2 DEF PeerInv
  <1>4. /\ UNCHANGED <<deleted, active, peer, phase, gone, ending, stopping>>
        /\ closing' = closing \union {c}
        /\ \A u \in Sessions : registry'[u] = IF u = peer[k] THEN NoConn ELSE registry[u]
    BY <1>2 DEF deliveryVars, tables, delivery
  <1>5. PeerInv'
    BY <1>3, <1>4 DEF PeerInv
  <1>6. CapacityOne' /\ StopInv'
    BY <1>4 DEF CapacityOne, Admitted, StopInv
  <1>7. FollowInv'
    BY <1>2, <1>4 DEF FollowInv, Followed, PeerInv
  <1>8. ActiveIsTracked'
    BY <1>2, <1>3, <1>4 DEF ActiveIsTracked, CDTypeOK, DeliveryTypeOK
  <1> QED BY <1>5, <1>6, <1>7, <1>8

(* END_SESSION takes no handler away, and for the active session it leaves *)
(* one at work, unless the runtime has stopped.                            *)
LEMMA EndingKept ==
  ASSUME RTTypeOK, NEW s, EndCmd(s), active # NoSession
  PROVE  /\ \A h \in Handlers : ending[h] # NoSession => ending'[h] # NoSession
         /\ s = active /\ stopping # "stopped" => \E h \in Handlers : ending'[h] # NoSession
  <1>1. CASE s = active /\ stopping # "stopped"
    <2>1. PICK h \in Handlers : ending' = [ending EXCEPT ![h] = s]
      BY <1>1 DEF EndCmd
    <2>2. ending'[h] = s /\ \A g \in Handlers : g # h => ending'[g] = ending[g]
      BY <2>1 DEF RTTypeOK
    <2> QED BY <1>1, <2>2
  <1>2. CASE ~(s = active /\ stopping # "stopped")
    BY <1>2 DEF EndCmd
  <1> QED BY <1>1, <1>2

LEMMA CloseDoneKeeps ==
  ASSUME RTInv, NEW k \in Conns, CloseDone(k)
  PROVE  LifecycleInv'
  <1> USE RealtimeAssumption DEF RTInv, LifecycleInv, RTTypeOK, Joining, CloseDone
  <1>1. /\ UNCHANGED <<deleted, active, peer, phase, registry, stopping>>
        /\ k \in closing /\ closing' = closing \ {k} /\ gone' = gone \union {k}
    BY DEF deliveryVars, tables, delivery
  <1>2. PeerInv'
    BY <1>1 DEF PeerInv
  <1>3. CapacityOne' /\ StopInv'
    BY <1>1 DEF CapacityOne, Admitted, StopInv
  <1>4. FollowInv'
    BY <1>1 DEF FollowInv, Followed
  <1>5. ActiveIsTracked'
    <2> SUFFICES ASSUME active # NoSession PROVE ActiveIsTracked'
      BY <1>1 DEF ActiveIsTracked
    <2>1. /\ \A h \in Handlers : ending[h] # NoSession => ending'[h] # NoSession
          /\ peer[k] = active /\ stopping # "stopped" =>
                \E h \in Handlers : ending'[h] # NoSession
      BY EndingKept
    <2>2. CASE peer[k] = active
      BY <1>1, <2>1, <2>2 DEF ActiveIsTracked
    <2>3. CASE peer[k] # active
      BY <1>1, <2>1, <2>3 DEF ActiveIsTracked
    <2> QED BY <2>2, <2>3
  <1> QED BY <1>2, <1>3, <1>4, <1>5

LEMMA ClientEndKeeps ==
  ASSUME RTInv, NEW k \in Conns, ClientEnd(k)
  PROVE  LifecycleInv'
  <1> USE RealtimeAssumption DEF RTInv, LifecycleInv, RTTypeOK, GoPhase, Joining, ClientEnd
  <1>1. /\ UNCHANGED <<deleted, active, peer, registry, closing, gone, stopping>>
        /\ \A j \in Conns : j # k => phase'[j] = phase[j]
        /\ phase[k] \in {"live", "talking"} /\ phase'[k] = "left"
    BY DEF deliveryVars, tables, delivery
  <1>2. PeerInv'
    BY <1>1 DEF PeerInv
  <1>3. CapacityOne' /\ StopInv'
    BY <1>1 DEF CapacityOne, Admitted, StopInv
  <1>4. FollowInv'
    BY <1>1 DEF FollowInv, Followed
  <1>5. ActiveIsTracked'
    <2> SUFFICES ASSUME active # NoSession PROVE ActiveIsTracked'
      BY <1>1 DEF ActiveIsTracked
    <2>1. \A h \in Handlers : ending[h] # NoSession => ending'[h] # NoSession
      BY EndingKept
    <2> QED BY <1>1, <2>1 DEF ActiveIsTracked
  <1> QED BY <1>2, <1>3, <1>4, <1>5

(* A handler that finishes leaves no session active; the stop's resets     *)
(* later.                                                                  *)
LEMMA HandlerLeavesNone ==
  ASSUME CDInv, NEW h \in Handlers, HandlerStep(h) \/ HandlerFault(h)
  PROVE  /\ active' \in {active, NoSession}
         /\ hpc'[h] = "idle" /\ h # Stopper => active' = NoSession
         /\ deleted' = deleted
  <1> USE DEF CDInv, CDTypeOK, DeliveryTypeOK
  <1>1. CASE ExecUpdate(h)
    BY <1>1 DEF ExecUpdate, tables
  <1>2. CASE ExecEnqueue(h)
    <2>1. hpc[h] = "open"
      BY <1>2 DEF ExecEnqueue, DeliveryInv, HandlerInv
    <2> QED BY <1>2, <2>1 DEF ExecEnqueue, tables
  <1>3. CASE Commit(h)
    BY <1>3 DEF Commit
  <1>4. CASE PublishRaises(h)
    BY <1>4 DEF PublishRaises
  <1>5. CASE PublishConfirmed(h) \/ CommitReplyLost(h) \/ PersistFails(h) \/ PublishGivesUp(h)
    BY <1>5 DEF PublishConfirmed, CommitReplyLost, PersistFails, PublishGivesUp, HandlerDone
  <1> QED BY <1>1, <1>2, <1>3, <1>4, <1>5 DEF HandlerStep, HandlerFault

LEMMA EndingKeeps ==
  ASSUME RTInv, NEW h \in Handlers \ {Stopper}, EndingStep(h) \/ EndingFault(h)
  PROVE  LifecycleInv'
  <1> USE RealtimeAssumption DEF RTInv, LifecycleInv, RTTypeOK
  <1>1. UNCHANGED <<deleted, peer, phase, registry, closing, gone, stopping>>
    BY HandlerLeavesNone
    DEF EndingStep, EndingFault, PersistActive, BeginPersist, NothingToPersist, ResetWhenDone,
        realtime, deliveryVars, tables
  <1>2. PeerInv' /\ CapacityOne' /\ FollowInv' /\ StopInv'
    BY <1>1 DEF PeerInv, CapacityOne, Admitted, FollowInv, Followed, StopInv
  <1>3. active' = NoSession \/ (active' = active /\ ending' = ending)
    BY HandlerLeavesNone
    DEF EndingStep, EndingFault, PersistActive, BeginPersist, NothingToPersist, ResetWhenDone,
        realtime, deliveryVars, delivery
  <1>4. ActiveIsTracked'
    BY <1>1, <1>3 DEF ActiveIsTracked
  <1> QED BY <1>2, <1>4

(* The stop takes no connection and no handler away before it is done.     *)
LEMMA StopKeeps ==
  ASSUME RTInv, StopBegins \/ StopStep \/ StopFault
  PROVE  LifecycleInv'
  <1> USE RealtimeAssumption DEF RTInv, LifecycleInv, RTTypeOK
  <1>1. UNCHANGED <<peer, phase, registry, closing, gone, ending>>
    BY DEF StopBegins, StopStep, StopPersisted, StopDone, StopFault
  <1>2. /\ StopInv'
        /\ deleted' = deleted
        /\ active' \in {active, NoSession}
        /\ stopping = "stopped" => stopping' = "stopped"
    <2>1. CASE StopBegins
      BY <2>1 DEF StopBegins, StopInv, BeginPersist, deliveryVars, tables, delivery
    <2>2. CASE StopDone
      BY <2>2 DEF StopDone, StopInv, StopResets, deliveryVars, tables, delivery
    <2>3. CASE /\ stopping = "persisting" /\ StopPersisted
               /\ HandlerStep(Stopper) \/ HandlerFault(Stopper)
      BY <2>3, HandlerLeavesNone DEF StopPersisted, StopInv
    <2> QED BY <2>1, <2>2, <2>3 DEF StopStep, StopFault
  <1>3. PeerInv' /\ CapacityOne' /\ FollowInv'
    BY <1>1, <1>2 DEF PeerInv, CapacityOne, Admitted, FollowInv, Followed
  <1>4. ActiveIsTracked'
    BY <1>1, <1>2 DEF ActiveIsTracked
  <1> QED BY <1>2, <1>3, <1>4

LEMMA StutterKeeps ==
  ASSUME RTInv, UNCHANGED realtimeVars
  PROVE  LifecycleInv'
  <1>1. UNCHANGED <<deleted, active, peer, phase, registry, closing, gone, ending, stopping>>
    BY DEF realtimeVars, realtime, deliveryVars, tables, delivery
  <1> QED
    BY <1>1 DEF RTInv, LifecycleInv, PeerInv, CapacityOne, Admitted, FollowInv, Followed,
       StopInv, ActiveIsTracked

LEMMA CrashKeeps ==
  ASSUME RTInv, Crash
  PROVE  LifecycleInv'
  <1> USE DEF RTInv, LifecycleInv, RTTypeOK, Crash
  <1>1. /\ deleted' = deleted /\ active' = NoSession /\ peer' = peer
        /\ \A k \in Conns : phase'[k] = IF phase[k] = "new" THEN "new" ELSE "dead"
        /\ \A s \in Sessions : registry'[s] = NoConn
        /\ closing' = {} /\ gone' = {k \in Conns : phase[k] # "new"}
        /\ stopping' = "no"
    BY DEF GatewayCrash
  <1>2. PeerInv'
    BY <1>1 DEF PeerInv, Joining
  <1>3. CapacityOne'
    BY <1>1, RealtimeAssumption DEF CapacityOne, Admitted
  <1>4. FollowInv' /\ StopInv' /\ ActiveIsTracked'
    BY <1>1 DEF FollowInv, StopInv, ActiveIsTracked
  <1> QED BY <1>2, <1>3, <1>4

LEMMA LifecycleStep ==
  ASSUME RTInv, [RTNext]_realtimeVars
  PROVE  RTInv'
  <1>1. CDInv' /\ RTTypeOK'
    BY StepImplements, CDNextKeepsInv, RTTypeStep DEF RTInv
  <1>2. LifecycleInv'
    BY OfferKeeps, MoveKeeps, RegisterKeeps, ClientStartKeeps, SdpFailsKeeps,
       StateCallbackKeeps, CloseDoneKeeps, ClientEndKeeps, EndingKeeps, StopKeeps, StutterKeeps,
       CrashKeeps
    DEF RTNext, CreateStep, ClientStep
  <1> QED BY <1>1, <1>2 DEF RTInv

-----------------------------------------------------------------------------
(* The inductive invariant holds in every reachable state.                 *)
THEOREM RealtimeInvariant == RTSpec => []RTInv
  BY RTInitInv, LifecycleStep, PTL DEF RTSpec

(* Type correctness of the gateway's registry and the extension.           *)
THEOREM RealtimeTypeCorrect == RTSpec => []RTTypeOK
  BY RealtimeInvariant, PTL DEF RTInv

(* No interleaving of offers, failures and closes admits two connections.  *)
THEOREM OneConnectionAdmitted == RTSpec => []CapacityOne
  BY RealtimeInvariant, PTL DEF RTInv, LifecycleInv

(* A session is active only while a connection or a handler is left that   *)
(* ends it, or its SDP exchange failed.                                    *)
THEOREM ActiveSessionTracked == RTSpec => []ActiveIsTracked
  BY RealtimeInvariant, PTL DEF RTInv, LifecycleInv

(* Gateway and extension implement CompletionDelivery: what is proved      *)
(* about completions there holds for every lifecycle of sessions here.     *)
THEOREM RealtimeImplementsDelivery == RTSpec => DeliverySteps
  <1>1. RTInit => CDInit
    BY DEF RTInit
  <1>2. RTInv /\ [RTNext]_realtimeVars => [CDNext]_deliveryVars
    BY StepImplements
  <1> QED BY <1>1, <1>2, RealtimeInvariant, PTL DEF RTSpec, DeliverySteps

(* In particular the outbox row is durable exactly when the completion is. *)
THEOREM RealtimeOutboxDurable == RTSpec => []OutboxIffCommitted
  <1>1. RTInv => OutboxIffCommitted
    BY DEF RTInv, CDInv, DeliveryInv, CompletionInv, OutboxIffCommitted, Committed
  <1> QED BY <1>1, RealtimeInvariant, PTL
=============================================================================
