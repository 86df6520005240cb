--------------------------- MODULE ListenerProofs ---------------------------
(***************************************************************************)
(* Proofs about ListenerSystem: type correctness, that an attempt has one  *)
(* outcome, that the durable context only moves forward, that a row is     *)
(* COMPLETED only for a saved context, and that a counter opens one        *)
(* attempt, for any set of devices and keys and any bounds.                *)
(***************************************************************************)
EXTENDS ListenerSystem, ListenerTypes

-----------------------------------------------------------------------------
(* Type correctness *)

LEMMA TypeInit == Init => TypeOK
BY ListenerInitType, SystemBoundsAssumption DEF Init, TypeOK

LEMMA TypeNext == TypeOK /\ [Next]_vars => TypeOK'
<1> SUFFICES ASSUME TypeOK, [Next]_vars PROVE TypeOK'
  OBVIOUS
<1> USE DEF TypeOK
<1>1. ASSUME NEW d \in Devices, MessageArrives(d) PROVE TypeOK'
  <2>1. Hellos \cup Responses \cup Controls \subseteq Frame
    <3>1. Counters \subseteq 0..MaxCounter /\ 0 \in 0..MaxCounter
      BY BoundsAssumption DEF Counters
    <3>2. {0} \subseteq Nat /\ 1..MaxAttempts \subseteq Nat
      BY SystemBoundsAssumption
    <3> QED
      BY <3>1, <3>2 DEF Hellos, Responses, Controls, Frame
  <2>2. PICK f \in Frame : OnMessage(d, f)
    BY <1>1, <2>1 DEF MessageArrives, OnMessage
  <2> QED
    BY <1>1, <2>2, MessageType DEF MessageArrives
<1>2. ASSUME NEW d \in Devices, ThreadStep(d) PROVE TypeOK'
  BY <1>2, JobType DEF ThreadStep
<1>3. ASSUME NEW d \in Devices, CommandLeaves(d) PROVE TypeOK'
  <2>1. Tail(downlink[d]) \in Seq(Command)
    BY <1>3 DEF CommandLeaves, ListenerTypeOK
  <2> QED
    BY <1>3, <2>1 DEF CommandLeaves, ListenerTypeOK
<1>4. ASSUME NEW d \in Devices, Publishes(d) PROVE TypeOK'
  BY <1>4, CertificateType, SystemBoundsAssumption DEF Publishes
<1>5. ASSUME NEW old \in SUBSET Devices, TimeoutPass(old) PROVE TypeOK'
  <2>1. faults' \in 0..MaxFaults
    BY <1>5 DEF TimeoutPass, ListenerTypeOK
  <2> QED
    BY <1>5, <2>1, ExpireType DEF TimeoutPass
<1>6. CASE TimeoutStep
  BY <1>6, TimeoutType DEF TimeoutStep
<1>7. CASE ProcessStep
  BY <1>7, ProcessType DEF ProcessStep
<1>8. CASE UNCHANGED vars
  BY <1>8 DEF vars, listenerVars, ListenerTypeOK
<1> QED
  BY <1>1, <1>2, <1>3, <1>4, <1>5, <1>6, <1>7, <1>8 DEF Next

\* Every variable of the listener stays in its set, whatever the devices, the
\* certificates and the failures do.
THEOREM TypeCorrect == Spec => []TypeOK
BY TypeInit, TypeNext, PTL DEF Spec

-----------------------------------------------------------------------------
(* One outcome, and a context that only moves forward *)

\* A pending session was challenged after the durable context's attempt, with
\* a nonce that is not drawn again.
SessionFresh(d) ==
    \/ sessions[d] = NoSession
    \/ /\ sessions[d].state # "IDLE"
       /\ context[d].random < sessions[d].random
       /\ sessions[d].random < nonce

\* The thread that saves an attempt has taken its session out, and no other
\* can be opened meanwhile.
SavingAlone(d) ==
    job[d].pc \in {"save", "record_done"} =>
        /\ sessions[d] = NoSession
        /\ job[d].session.random < nonce
        /\ job[d].pc = "save" => context[d].random < job[d].session.random

ContextOld(d) == context[d].random < nonce

ExpiredOld == \A e \in expired : 0 < e.session.random /\ e.session.random < nonce

Inv ==
    /\ TypeOK
    /\ \A d \in Devices : SessionFresh(d) /\ SavingAlone(d) /\ ContextOld(d)
    /\ ExpiredOld
    /\ OneOutcome

LEMMA InvInit == Init => Inv
BY TypeInit
DEF Init, ListenerInit, Inv, SessionFresh, SavingAlone, ContextOld, ExpiredOld,
    OneOutcome, IdleJob, NoContext

Saving == {"save", "record_done"}

\* Moving a thread on without touching the sessions or the context keeps Inv,
\* unless it begins to save.
LEMMA JobMoves ==
    ASSUME Inv, TypeOK',
           UNCHANGED <<sessions, context, nonce>>,
           expired' \subseteq expired,
           \A d \in Devices : job'[d] = job[d] \/ job'[d].pc \notin Saving
    PROVE  Inv'
<1> USE DEF Inv, Saving
<1>1. ASSUME NEW d \in Devices
      PROVE  SessionFresh(d)' /\ SavingAlone(d)' /\ ContextOld(d)'
  BY <1>1 DEF SessionFresh, SavingAlone, ContextOld
<1>2. ExpiredOld'
  BY DEF ExpiredOld
<1>3. OneOutcome'
  BY DEF OneOutcome, TypeOK, ListenerTypeOK
<1> QED
  BY <1>1, <1>2, <1>3

\* After Goto the other threads' jobs are what they were.
LEMMA GotoMoves ==
    ASSUME TypeOK, NEW d \in Devices, NEW pc \in JobPcs \ Saving, NEW s,
           Goto(d, pc, s)
    PROVE  \A c \in Devices : job'[c] = job[c] \/ job'[c].pc \notin Saving
BY DEF Goto, TypeOK, ListenerTypeOK

LEMMA ReturnMoves ==
    ASSUME TypeOK, NEW d \in Devices, Return(d)
    PROVE  \A c \in Devices : job'[c] = job[c] \/ job'[c].pc \notin Saving
BY DEF Return, IdleJob, Saving, TypeOK, ListenerTypeOK

\* The T that finishes an attempt hands its session from the table to the
\* thread that saves it (handle_control_state).
LEMMA InvAttemptFinished ==
    ASSUME Inv, TypeOK', NEW d \in Devices, NEW f, AttemptFinished(d, f)
    PROVE  Inv'
<1> USE DEF Inv, AttemptFinished, Goto, TypeOK, ListenerTypeOK
<1>1. /\ sessions' = [sessions EXCEPT ![d] = NoSession]
      /\ job' = [job EXCEPT ![d] = [pc |-> "save", session |-> sessions[d]]]
      /\ UNCHANGED <<expired, context, nonce>>
  OBVIOUS
<1>2. /\ context[d].random < sessions[d].random
      /\ sessions[d].random < nonce
  BY DEF SessionFresh, NoSession
<1>3. ASSUME NEW c \in Devices
      PROVE  SessionFresh(c)' /\ SavingAlone(c)' /\ ContextOld(c)'
  <2>1. SessionFresh(c)' /\ ContextOld(c)'
    BY <1>1, <1>3 DEF SessionFresh, ContextOld
  <2>2. CASE c = d
    BY <1>1, <1>2, <2>1, <2>2 DEF SavingAlone
  <2>3. CASE c # d
    BY <1>1, <1>3, <2>1, <2>3 DEF SavingAlone
  <2> QED
    BY <2>2, <2>3
<1>4. ExpiredOld'
  BY <1>1 DEF ExpiredOld
<1>5. OneOutcome'
  <2> SUFFICES ASSUME NEW e \in expired
               PROVE  /\ sessions'[e.device].random # e.session.random
                      /\ context'[e.device].random # e.session.random
                      /\ job'[e.device].pc \in {"save", "record_done"} =>
                            job'[e.device].session.random # e.session.random
    BY <1>1 DEF OneOutcome
  <2>1. e.device \in Devices /\ 0 < e.session.random
    BY DEF ExpiredOld
  <2>2. /\ sessions[e.device].random # e.session.random
        /\ context[e.device].random # e.session.random
        /\ job[e.device].pc \in {"save", "record_done"} =>
              job[e.device].session.random # e.session.random
    BY DEF OneOutcome
  <2>3. CASE e.device = d
    BY <1>1, <2>1, <2>2, <2>3 DEF NoSession
  <2>4. CASE e.device # d
    BY <1>1, <2>1, <2>2, <2>4
  <2> QED
    BY <2>3, <2>4
<1> QED
  BY <1>3, <1>4, <1>5

\* Whatever comes in keeps Inv (on_message).
LEMMA InvMessage ==
    ASSUME Inv, TypeOK', NEW d \in Devices, NEW f, OnMessage(d, f)
    PROVE  Inv'
<1>0. TypeOK
  BY DEF Inv
<1>1. CASE \/ HelloIgnored(d, f) \/ HelloRejected(d, f)
           \/ ResponseIgnored(d, f) \/ ControlIgnored(d, f)
  BY <1>1, JobMoves
  DEF HelloIgnored, HelloRejected, ResponseIgnored, ControlIgnored, listenerVars
<1>2. CASE HelloVerified(d, f) \/ ResponseVerified(d, f) \/ ResponseRejected(d, f)
  <2>1. \E s : \E pc \in JobPcs \ Saving : Goto(d, pc, s)
    BY <1>2 DEF HelloVerified, ResponseVerified, ResponseRejected, JobPcs, Saving
  <2>2. UNCHANGED <<sessions, expired, context, nonce>>
    BY <1>2 DEF HelloVerified, ResponseVerified, ResponseRejected
  <2> QED
    BY <1>0, <2>1, <2>2, GotoMoves, JobMoves
<1>3. CASE AttemptFinished(d, f)
  BY <1>3, InvAttemptFinished
<1> QED
  BY <1>1, <1>2, <1>3 DEF OnMessage, OnHello, OnResponse, OnControl

\* Drawing a nonce leaves the other devices as fresh as they were.
LEMMA OthersKept ==
    ASSUME Inv, TypeOK', NEW c \in Devices,
           sessions'[c] = sessions[c], job'[c] = job[c],
           context'[c] = context[c], nonce < nonce'
    PROVE  SessionFresh(c)' /\ SavingAlone(c)' /\ ContextOld(c)'
<1>1. /\ nonce \in Nat /\ nonce' \in Nat
      /\ sessions[c].random \in Nat /\ job[c].session.random \in Nat
      /\ context[c].random \in Nat
  BY DEF Inv, TypeOK, ListenerTypeOK, Session, Job, Context
<1>2. SessionFresh(c)'
  BY <1>1 DEF Inv, SessionFresh
<1>3. SavingAlone(c)'
  BY <1>1 DEF Inv, SavingAlone
<1>4. ContextOld(c)'
  BY <1>1 DEF Inv, ContextOld
<1> QED
  BY <1>2, <1>3, <1>4

\* A session opens under a nonce that nothing else has (build_challenge).
LEMMA InvOpenSession ==
    ASSUME Inv, TypeOK', NEW d \in Devices, OpenSession(d)
    PROVE  Inv'
<1> DEFINE s == [job[d].session EXCEPT !.random = nonce,
                                       !.state = "WAIT_RESPONSE"]
<1> USE DEF Inv, TypeOK, ListenerTypeOK
<1>1. /\ sessions' = [sessions EXCEPT ![d] = s]
      /\ job' = [job EXCEPT ![d] = [pc |-> "send_a", session |-> s]]
      /\ nonce' = nonce + 1
      /\ UNCHANGED <<expired, context>>
  BY DEF OpenSession, Goto
<1>2. s.random = nonce /\ s.state # "IDLE" /\ context[d].random < nonce
  BY DEF ContextOld, Job, Session
<1> HIDE DEF s
<1>3. ASSUME NEW c \in Devices
      PROVE  SessionFresh(c)' /\ SavingAlone(c)' /\ ContextOld(c)'
  <2>1. context[c].random \in Nat /\ job[c].session.random \in Nat
    BY DEF Context, Job, Session
  <2>2. CASE c = d
    BY <1>1, <1>2, <2>1, <2>2 DEF SessionFresh, SavingAlone, ContextOld
  <2>3. CASE c # d
    <3>1. /\ sessions'[c] = sessions[c] /\ job'[c] = job[c]
          /\ context'[c] = context[c] /\ nonce < nonce'
      BY <1>1, <2>3
    <3> QED
      BY <3>1, OthersKept
  <2> QED
    BY <2>2, <2>3
<1>4. ASSUME NEW e \in expired
      PROVE  e.device \in Devices /\ e.session.random \in Nat
  BY DEF Session
<1>5. ExpiredOld'
  BY <1>1, <1>4 DEF ExpiredOld
<1>6. OneOutcome'
  <2> SUFFICES ASSUME NEW e \in expired
               PROVE  /\ sessions'[e.device].random # e.session.random
                      /\ context[e.device].random # e.session.random
                      /\ job'[e.device].pc \in {"save", "record_done"} =>
                            job'[e.device].session.random # e.session.random
    BY <1>1 DEF OneOutcome
  <2>1. CASE e.device = d
    BY <1>1, <1>2, <1>4, <2>1 DEF OneOutcome, ExpiredOld
  <2>2. CASE e.device # d
    BY <1>1, <1>4, <2>2 DEF OneOutcome
  <2> QED
    BY <2>1, <2>2
<1> QED
  BY <1>3, <1>5, <1>6

\* The second look under the lock changes the state of the pending session,
\* not its nonce (on_message).
LEMMA InvRecheckSession ==
    ASSUME Inv, TypeOK', NEW d \in Devices, RecheckSession(d)
    PROVE  Inv'
<1> USE DEF Inv, TypeOK, ListenerTypeOK
<1>1. CASE Return(d) /\ UNCHANGED sessions
  BY <1>1, ReturnMoves, JobMoves DEF RecheckSession
<1>2. CASE /\ sessions[d].state = "WAIT_RESPONSE"
           /\ sessions' = [sessions EXCEPT ![d].state = "PROVISIONING_SENT"]
           /\ Goto(d, "send_p", sessions'[d])
  <2>1. UNCHANGED <<expired, context, nonce>>
    BY DEF RecheckSession
  <2>2. \A c \in Devices :
           /\ sessions'[c].random = sessions[c].random
           /\ c # d => sessions'[c] = sessions[c] /\ job'[c] = job[c]
    BY <1>2 DEF Session, Goto
  <2>3. /\ sessions'[d].state = "PROVISIONING_SENT"
        /\ job'[d].pc = "send_p"
    BY <1>2 DEF Session, Goto
  <2>4. context[d].random < sessions[d].random /\ sessions[d].random < nonce
    BY <1>2 DEF SessionFresh, NoSession
  <2>5. ASSUME NEW c \in Devices
        PROVE  SessionFresh(c)' /\ SavingAlone(c)' /\ ContextOld(c)'
    <3>1. CASE c = d
      BY <2>1, <2>2, <2>3, <2>4, <3>1 DEF SessionFresh, SavingAlone, ContextOld
    <3>2. CASE c # d
      BY <2>1, <2>2, <3>2 DEF SessionFresh, SavingAlone, ContextOld
    <3> QED
      BY <3>1, <3>2
  <2>6. ExpiredOld'
    BY <2>1 DEF ExpiredOld
  <2>7. OneOutcome'
    <3> SUFFICES ASSUME NEW e \in expired
                 PROVE  /\ sessions'[e.device].random # e.session.random
                        /\ context[e.device].random # e.session.random
                        /\ job'[e.device].pc \in {"save", "record_done"} =>
                              job'[e.device].session.random # e.session.random
      BY <2>1 DEF OneOutcome
    <3>1. e.device \in Devices
      OBVIOUS
    <3> QED
      BY <2>2, <2>3, <3>1 DEF OneOutcome
  <2> QED
    BY <2>5, <2>6, <2>7
<1> QED
  BY <1>1, <1>2 DEF RecheckSession

\* Taking sessions out keeps what is known of the others.
LEMMA InvDropSession ==
    ASSUME Inv, TypeOK', NEW d \in Devices, DropSession(d)
    PROVE  Inv'
<1> USE DEF Inv, TypeOK, ListenerTypeOK
<1>1. /\ \A c \in Devices : sessions'[c] = sessions[c] \/ sessions'[c] = NoSession
      /\ \A c \in Devices : job'[c] = job[c] \/ job'[c].pc = "record_error"
      /\ UNCHANGED <<expired, context, nonce>>
  BY DEF DropSession, Goto
<1>2. ASSUME NEW c \in Devices
      PROVE  SessionFresh(c)' /\ SavingAlone(c)' /\ ContextOld(c)'
  BY <1>1 DEF SessionFresh, SavingAlone, ContextOld
<1>3. ExpiredOld'
  BY <1>1 DEF ExpiredOld
<1>4. OneOutcome'
  <2> SUFFICES ASSUME NEW e \in expired
               PROVE  /\ sessions'[e.device].random # e.session.random
                      /\ context[e.device].random # e.session.random
                      /\ job'[e.device].pc \in {"save", "record_done"} =>
                            job'[e.device].session.random # e.session.random
    BY <1>1 DEF OneOutcome
  <2>1. e.device \in Devices /\ 0 < e.session.random
    BY DEF ExpiredOld
  <2>2. /\ sessions[e.device].random # e.session.random
        /\ context[e.device].random # e.session.random
        /\ job[e.device].pc \in {"save", "record_done"} =>
              job[e.device].session.random # e.session.random
    BY DEF OneOutcome
  <2>3. sessions'[e.device].random # e.session.random
    <3>1. CASE sessions'[e.device] = sessions[e.device]
      BY <2>2, <3>1
    <3>2. CASE sessions'[e.device] = NoSession
      BY <2>1, <3>2 DEF NoSession
    <3> QED
      BY <1>1, <2>1, <3>1, <3>2
  <2>4. job'[e.device].pc \in {"save", "record_done"} =>
              job'[e.device].session.random # e.session.random
    BY <1>1, <2>1, <2>2
  <2> QED
    BY <1>1, <2>1, <2>2, <2>3, <2>4
<1> QED
  BY <1>2, <1>3, <1>4

\* The context takes the attempt being saved, which was challenged later than
\* the one it replaces (save_provisioning_context).
LEMMA InvSaveContext ==
    ASSUME Inv, TypeOK', NEW d \in Devices, SaveContext(d)
    PROVE  Inv'
<1> DEFINE s == job[d].session
<1> USE DEF Inv, TypeOK, ListenerTypeOK
<1>1. /\ context' = [context EXCEPT ![d] = [counter |-> s.counter,
                                            random |-> s.random]]
      /\ job' = [job EXCEPT ![d] = [pc |-> "record_done", session |-> s]]
      /\ UNCHANGED <<sessions, expired, nonce>>
      /\ job[d].pc = "save"
  BY DEF SaveContext, Goto, At
<1>2. sessions[d] = NoSession /\ s.random < nonce
  BY <1>1 DEF SavingAlone
<1>3. context'[d].random = s.random
  BY <1>1
<1>4. ASSUME NEW c \in Devices
      PROVE  SessionFresh(c)' /\ SavingAlone(c)' /\ ContextOld(c)'
  <2>1. CASE c = d
    BY <1>1, <1>2, <1>3, <2>1 DEF SessionFresh, SavingAlone, ContextOld
  <2>2. CASE c # d
    BY <1>1, <2>2 DEF SessionFresh, SavingAlone, ContextOld
  <2> QED
    BY <2>1, <2>2
<1>5. ExpiredOld'
  BY <1>1 DEF ExpiredOld
<1>6. OneOutcome'
  <2> SUFFICES ASSUME NEW e \in expired
               PROVE  /\ sessions[e.device].random # e.session.random
                      /\ context'[e.device].random # e.session.random
                      /\ job'[e.device].pc \in {"save", "record_done"} =>
                            job'[e.device].session.random # e.session.random
    BY <1>1 DEF OneOutcome
  <2>1. e.device \in Devices
    OBVIOUS
  <2>2. CASE e.device = d
    BY <1>1, <1>3, <2>2 DEF OneOutcome
  <2>3. CASE e.device # d
    BY <1>1, <2>1, <2>3 DEF OneOutcome
  <2> QED
    BY <2>2, <2>3
<1> QED
  BY <1>4, <1>5, <1>6

\* The sessions that have grown old leave the table together; none of them is
\* being saved, for a saved one is no longer there (session_timeout_loop).
LEMMA InvExpireSessions ==
    ASSUME Inv, TypeOK', NEW old \in SUBSET Devices, ExpireSessions(old)
    PROVE  Inv'
<1> USE DEF Inv, TypeOK, ListenerTypeOK
<1>1. /\ \A c \in Devices : sessions'[c] = IF c \in old THEN NoSession
                                                     ELSE sessions[c]
      /\ expired' = {[device |-> c, session |-> sessions[c]] : c \in old}
      /\ UNCHANGED <<job, context, nonce>>
      /\ \A c \in old : sessions[c] # NoSession
  BY DEF ExpireSessions, Active
<1>2. ASSUME NEW c \in Devices
      PROVE  SessionFresh(c)' /\ SavingAlone(c)' /\ ContextOld(c)'
  BY <1>1 DEF SessionFresh, SavingAlone, ContextOld
<1>3. ASSUME NEW e \in expired'
      PROVE  /\ e.device \in old
             /\ e.session = sessions[e.device]
             /\ context[e.device].random < e.session.random
             /\ e.session.random < nonce
             /\ 0 < e.session.random
  <2>1. e.device \in old /\ e.session = sessions[e.device]
    BY <1>1
  <2>2. /\ context[e.device].random < sessions[e.device].random
        /\ sessions[e.device].random < nonce
    BY <1>1, <2>1 DEF SessionFresh
  <2>3. context[e.device].random \in Nat /\ sessions[e.device].random \in Nat
    BY <2>1 DEF Context, Session
  <2> QED
    BY <2>1, <2>2, <2>3
<1>4. ExpiredOld'
  BY <1>1, <1>3 DEF ExpiredOld
<1>5. OneOutcome'
  <2> SUFFICES ASSUME NEW e \in expired'
               PROVE  /\ sessions'[e.device].random # e.session.random
                      /\ context'[e.device].random # e.session.random
                      /\ job'[e.device].pc \in {"save", "record_done"} =>
                            job'[e.device].session.random # e.session.random
    BY DEF OneOutcome
  <2>1. e.device \in old /\ e.session.random \in Nat /\ 0 < e.session.random
    BY <1>3 DEF Session
  <2>2. sessions'[e.device].random = 0
    BY <1>1, <2>1 DEF NoSession
  <2>3. context'[e.device].random # e.session.random
    <3>1. context[e.device].random \in Nat
      BY <2>1 DEF Context
    <3> QED
      BY <1>1, <1>3, <2>1, <3>1
  <2>4. job[e.device].pc \notin {"save", "record_done"}
    BY <1>1, <2>1 DEF SavingAlone
  <2> QED
    BY <1>1, <2>1, <2>2, <2>3, <2>4
<1> QED
  BY <1>2, <1>4, <1>5

\* A stopped process forgets its sessions and what it was doing.
LEMMA InvListenerStops ==
    ASSUME Inv, TypeOK', ListenerStops
    PROVE  Inv'
<1>1. /\ sessions' = [d \in Devices |-> NoSession]
      /\ job' = [d \in Devices |-> IdleJob]
      /\ expired' = {}
      /\ UNCHANGED <<context, nonce>>
  BY DEF ListenerStops
<1>2. ASSUME NEW c \in Devices
      PROVE  SessionFresh(c)' /\ SavingAlone(c)' /\ ContextOld(c)'
  BY <1>1 DEF Inv, SessionFresh, SavingAlone, ContextOld, IdleJob
<1>3. ExpiredOld' /\ OneOutcome'
  BY <1>1 DEF ExpiredOld, OneOutcome
<1> QED
  BY <1>2, <1>3 DEF Inv

\* What the MQTT thread does after it has taken a frame keeps Inv.
LEMMA InvJobStep ==
    ASSUME Inv, TypeOK', NEW d \in Devices, JobStep(d)
    PROVE  Inv'
<1>0. TypeOK
  BY DEF Inv
<1>1. CASE OpenSession(d) \/ RecheckSession(d) \/ DropSession(d) \/ SaveContext(d)
  BY <1>1, InvOpenSession, InvRecheckSession, InvDropSession, InvSaveContext
<1>2. CASE \/ HelloStale(d) \/ RecordChallenge(d) \/ RecordProvisioning(d)
           \/ RecordError(d) \/ RecordCompletion(d)
  <2>1. Return(d) /\ UNCHANGED <<sessions, expired, context, nonce>>
    BY <1>2 DEF HelloStale, RecordChallenge, RecordProvisioning, RecordError,
                RecordCompletion
  <2> QED
    BY <1>0, <2>1, ReturnMoves, JobMoves
<1>3. CASE \/ HelloAccepted(d) \/ RecordHello(d) \/ ChallengeNotBuilt(d)
           \/ SendChallenge(d) \/ RecordResponse(d) \/ SendProvisioning(d)
           \/ SendFailed(d) \/ SaveFailed(d)
  <2>1. \E s : \E pc \in JobPcs \ Saving : Goto(d, pc, s)
    BY <1>3 DEF HelloAccepted, RecordHello, ChallengeNotBuilt, SendChallenge,
                RecordResponse, SendProvisioning, SendFailed, SaveFailed,
                JobPcs, Saving
  <2>2. UNCHANGED <<sessions, expired, context, nonce>>
    BY <1>3 DEF HelloAccepted, RecordHello, ChallengeNotBuilt, SendChallenge,
                RecordResponse, SendProvisioning, SendFailed, SaveFailed
  <2> QED
    BY <1>0, <2>1, <2>2, GotoMoves, JobMoves
<1> QED
  BY <1>1, <1>2, <1>3 DEF JobStep

LEMMA InvNext == Inv /\ [Next]_vars => Inv'
<1> SUFFICES ASSUME Inv, [Next]_vars PROVE Inv'
  OBVIOUS
<1>0. TypeOK'
  BY TypeNext DEF Inv
<1>1. ASSUME NEW d \in Devices, MessageArrives(d) PROVE Inv'
  BY <1>0, <1>1, InvMessage DEF MessageArrives, OnMessage
<1>2. ASSUME NEW d \in Devices, ThreadStep(d) PROVE Inv'
  BY <1>0, <1>2, InvJobStep DEF ThreadStep
<1>3. ASSUME NEW d \in Devices, CommandLeaves(d) \/ Publishes(d) PROVE Inv'
  BY <1>0, <1>3, JobMoves DEF CommandLeaves, Publishes, RegisterCertificate
<1>4. ASSUME NEW old \in SUBSET Devices, TimeoutPass(old) PROVE Inv'
  BY <1>0, <1>4, InvExpireSessions DEF TimeoutPass
<1>5. CASE TimeoutStep
  <2>1. UNCHANGED <<sessions, context, nonce, job>> /\ expired' \subseteq expired
    BY <1>5 DEF TimeoutStep, RecordTimeout, TimeoutThreadDies
  <2> QED
    BY <1>0, <2>1, JobMoves
<1>6. CASE ProcessStep
  <2>1. CASE ListenerStops
    BY <1>0, <2>1, InvListenerStops
  <2>2. CASE ListenerStarts
    BY <1>0, <2>2, JobMoves DEF ListenerStarts
  <2> QED
    BY <1>6, <2>1, <2>2 DEF ProcessStep
<1>7. CASE UNCHANGED vars
  BY <1>0, <1>7, JobMoves DEF vars, listenerVars
<1> QED
  BY <1>1, <1>2, <1>3, <1>4, <1>5, <1>6, <1>7 DEF Next

\* An attempt the timeout thread has taken is neither pending, nor saved, nor
\* being saved by the MQTT thread.
THEOREM OutcomeUnique == Spec => []OneOutcome
<1>1. Inv => OneOutcome
  BY DEF Inv
<1> QED
  BY <1>1, InvInit, InvNext, PTL DEF Spec

\* The durable context is replaced by one step only.
LEMMA ContextStep ==
    ASSUME Inv, Next, NEW d \in Devices, context'[d] # context[d]
    PROVE  context'[d].random > context[d].random
<1>1. PICK c \in Devices : SaveContext(c)
  BY DEF Next, MessageArrives, OnHello, HelloIgnored, HelloRejected,
         HelloVerified, OnResponse, ResponseIgnored, ResponseVerified,
         ResponseRejected, OnControl, ControlIgnored, AttemptFinished,
         ThreadStep, JobStep, HelloAccepted, HelloStale, RecordHello,
         OpenSession, ChallengeNotBuilt, SendChallenge, RecordChallenge,
         RecordResponse, RecheckSession, SendProvisioning, RecordProvisioning,
         SendFailed, DropSession, RecordError, SaveFailed, RecordCompletion,
         CommandLeaves, Publishes, RegisterCertificate, TimeoutPass,
         ExpireSessions, TimeoutStep, RecordTimeout, TimeoutThreadDies,
         ProcessStep, ListenerStops, ListenerStarts, listenerVars
<1>2. /\ context' = [context EXCEPT ![c] = [counter |-> job[c].session.counter,
                                            random |-> job[c].session.random]]
      /\ job[c].pc = "save"
  BY <1>1 DEF SaveContext, At
<1>3. c = d
  BY <1>2 DEF Inv, TypeOK, ListenerTypeOK
<1>4. context[d].random < job[d].session.random
  BY <1>2, <1>3 DEF Inv, SavingAlone
<1>5. context'[d].random = job[d].session.random
  BY <1>2, <1>3 DEF Inv, TypeOK, ListenerTypeOK
<1>6. context[d].random \in Nat /\ job[d].session.random \in Nat
  BY DEF Inv, TypeOK, ListenerTypeOK, Context, Job, Session
<1> QED
  BY <1>4, <1>5, <1>6

\* The context of the last success is only replaced by that of an attempt
\* challenged later, for any number of devices, counters and failures.
THEOREM ContextNeverBack == Spec => ContextAdvances
<1>1. Inv /\ [Next]_vars
        => [\A d \in Devices : context'[d] # context[d]
              => context'[d].random > context[d].random]_vars
  BY ContextStep
<1> QED
  BY <1>1, InvInit, InvNext, PTL DEF Spec, ContextAdvances
-----------------------------------------------------------------------------
(* Completed means saved *)

\* The thread that is about to write COMPLETED has saved the context of that
\* attempt, and only it writes the device's context.
SavedFirst ==
    \A d \in Devices : job[d].pc = "record_done" =>
        context[d].counter = job[d].session.counter

\* What a frame changes: the device's job, one row that gets ERROR, and the pending
\* session of a finished attempt (on_message).
MessageChanges(d) ==
    /\ UNCHANGED <<expired, helloCounter, context, certificates>>
    /\ UNCHANGED attempts \/ \E c \in Counters : Record(d, c, "ERROR")
    /\ UNCHANGED sessions \/ sessions' = [sessions EXCEPT ![d] = NoSession]
    /\ \/ UNCHANGED job
       \/ \E pc \in {"accept", "failed", "record_r", "save"} : \E s :
             Goto(d, pc, s) /\ (pc \in {"record_r", "save"} => s = sessions[d])

LEMMA MessageEffect ==
    ASSUME NEW d \in Devices, MessageArrives(d)
    PROVE  MessageChanges(d)
<1>0. UNCHANGED certificates
  BY DEF MessageArrives
<1>1. ASSUME NEW f, OnHello(d, f) PROVE MessageChanges(d)
  <2>1. CASE HelloIgnored(d, f)
    BY <1>0, <2>1 DEF HelloIgnored, MessageChanges, listenerVars
  <2>2. CASE HelloRejected(d, f)
    <3>1. f.counter \in Counters
      BY <1>1 DEF OnHello
    <3> QED
      BY <1>0, <2>2, <3>1 DEF HelloRejected, MessageChanges
  <2>3. CASE HelloVerified(d, f)
    BY <1>0, <2>3 DEF HelloVerified, MessageChanges
  <2> QED
    BY <1>1, <2>1, <2>2, <2>3 DEF OnHello
<1>2. ASSUME NEW f, OnResponse(d, f) PROVE MessageChanges(d)
  <2>1. CASE ResponseIgnored(d, f)
    BY <1>0, <2>1 DEF ResponseIgnored, MessageChanges, listenerVars
  <2>2. CASE ResponseVerified(d, f)
    BY <1>0, <2>2 DEF ResponseVerified, MessageChanges
  <2>3. CASE ResponseRejected(d, f)
    BY <1>0, <2>3 DEF ResponseRejected, MessageChanges
  <2> QED
    BY <1>2, <2>1, <2>2, <2>3 DEF OnResponse
<1>3. ASSUME NEW f, OnControl(d, f) PROVE MessageChanges(d)
  <2>1. CASE ControlIgnored(d, f)
    BY <1>0, <2>1 DEF ControlIgnored, MessageChanges, listenerVars
  <2>2. CASE AttemptFinished(d, f)
    BY <1>0, <2>2 DEF AttemptFinished, MessageChanges
  <2> QED
    BY <1>3, <2>1, <2>2 DEF OnControl
<1> QED
  BY <1>1, <1>2, <1>3 DEF MessageArrives

\* So the other devices, and the rows that do not get ERROR, are what they were.
LEMMA MessageLocal ==
    ASSUME TypeOK, NEW d \in Devices, MessageArrives(d)
    PROVE  /\ \A b \in Devices : sessions'[b] = sessions[b] \/ sessions'[b] = NoSession
           /\ \A b \in Devices :
                  \/ job'[b] = job[b]
                  \/ job'[b].pc \in {"accept", "failed", "record_r", "save"}
           /\ \A b \in Devices, n \in Counters :
                  attempts'[b][n] = attempts[b][n] \/ attempts'[b][n] = "ERROR"
<1>0. MessageChanges(d)
  BY MessageEffect
<1>1. /\ sessions \in [Devices -> Session] /\ job \in [Devices -> Job]
      /\ attempts \in [Devices -> [Counters -> RowStates]]
  BY DEF TypeOK, ListenerTypeOK
<1>2. \A b \in Devices : sessions'[b] = sessions[b] \/ sessions'[b] = NoSession
  BY <1>0, <1>1 DEF MessageChanges
<1>3. \A b \in Devices :
          job'[b] = job[b] \/ job'[b].pc \in {"accept", "failed", "record_r", "save"}
  <2>1. CASE UNCHANGED job
    BY <2>1
  <2>2. CASE ~UNCHANGED job
    <3>1. PICK pc \in {"accept", "failed", "record_r", "save"} : \E s :
              job' = [job EXCEPT ![d] = [pc |-> pc, session |-> s]]
      BY <1>0, <2>2 DEF MessageChanges, Goto
    <3> QED
      BY <1>1, <3>1
  <2> QED
    BY <2>1, <2>2
<1>4. \A b \in Devices, n \in Counters :
          attempts'[b][n] = attempts[b][n] \/ attempts'[b][n] = "ERROR"
  <2>1. CASE UNCHANGED attempts
    BY <2>1
  <2>2. CASE ~UNCHANGED attempts
    <3>1. PICK c \in Counters : attempts' = [attempts EXCEPT ![d][c] = "ERROR"]
      BY <1>0, <2>2 DEF MessageChanges, Record
    <3> QED
      BY <1>1, <3>1
  <2> QED
    BY <2>1, <2>2
<1> QED
  BY <1>2, <1>3, <1>4

\* Where the thread goes, but for the two steps that lead to a counter or a context that
\* is kept.
LEMMA ThreadMoves ==
    ASSUME NEW d \in Devices, JobStep(d), ~HelloAccepted(d), ~SaveContext(d)
    PROVE  \/ Return(d)
           \/ \E pc \in JobPcs \ {"accept", "record_h", "save", "record_done"} : \E s :
                 Goto(d, pc, s)
<1> DEFINE Moves == \E pc \in JobPcs \ {"accept", "record_h", "save", "record_done"} : \E s :
                       Goto(d, pc, s)
<1>1. CASE \/ HelloStale(d) \/ RecordChallenge(d) \/ RecordProvisioning(d)
           \/ RecordError(d) \/ RecordCompletion(d)
  BY <1>1 DEF HelloStale, RecordChallenge, RecordProvisioning, RecordError, RecordCompletion
<1>2. CASE \/ RecordHello(d) \/ ChallengeNotBuilt(d) \/ SendChallenge(d)
           \/ RecordResponse(d) \/ SendProvisioning(d) \/ SendFailed(d)
           \/ DropSession(d) \/ SaveFailed(d)
  BY <1>2 DEF RecordHello, ChallengeNotBuilt, SendChallenge, RecordResponse,
              SendProvisioning, SendFailed, DropSession, SaveFailed, JobPcs
<1>3. CASE OpenSession(d) \/ RecheckSession(d)
  BY <1>3 DEF OpenSession, RecheckSession, JobPcs
<1> QED
  BY <1>1, <1>2, <1>3 DEF JobStep

\* One way leads to that row: the update of the context before it.
LEMMA RecordDoneStep ==
    ASSUME TypeOK, Next, NEW d \in Devices, job'[d].pc = "record_done"
    PROVE  SaveContext(d) \/ (job'[d] = job[d] /\ context'[d] = context[d])
<1> USE DEF TypeOK, ListenerTypeOK
<1>1. ASSUME NEW c \in Devices, MessageArrives(c)
      PROVE  job'[d] = job[d] /\ context'[d] = context[d]
  BY <1>1, MessageEffect, MessageLocal DEF MessageChanges
<1>2. ASSUME NEW c \in Devices, ThreadStep(c)
      PROVE  SaveContext(d) \/ (job'[d] = job[d] /\ context'[d] = context[d])
  BY <1>2
  DEF ThreadStep, JobStep, HelloAccepted, HelloStale, RecordHello, OpenSession,
      ChallengeNotBuilt, SendChallenge, RecordChallenge, RecordResponse,
      RecheckSession, SendProvisioning, RecordProvisioning, SendFailed, DropSession,
      RecordError, SaveContext, SaveFailed, RecordCompletion, Goto, Return, IdleJob
<1>3. ASSUME NEW c \in Devices, CommandLeaves(c) \/ Publishes(c)
      PROVE  job'[d] = job[d] /\ context'[d] = context[d]
  BY <1>3 DEF CommandLeaves, Publishes, RegisterCertificate
<1>4. CASE (\E old \in SUBSET Devices : TimeoutPass(old)) \/ TimeoutStep
  BY <1>4 DEF TimeoutPass, ExpireSessions, TimeoutStep, RecordTimeout, TimeoutThreadDies
<1>5. CASE ProcessStep
  BY <1>5 DEF ProcessStep, ListenerStops, ListenerStarts, IdleJob
<1> QED
  BY <1>1, <1>2, <1>3, <1>4, <1>5 DEF Next

LEMMA SavedFirstNext ==
    ASSUME TypeOK, SavedFirst, [Next]_vars
    PROVE  SavedFirst'
<1> SUFFICES ASSUME NEW d \in Devices, job'[d].pc = "record_done"
             PROVE  context'[d].counter = job'[d].session.counter
  BY DEF SavedFirst
<1>1. CASE SaveContext(d)
  BY <1>1 DEF SaveContext, Goto, TypeOK, ListenerTypeOK
<1>2. CASE job'[d] = job[d] /\ context'[d] = context[d]
  BY <1>2 DEF SavedFirst
<1>3. CASE UNCHANGED vars
  BY <1>3 DEF vars, listenerVars, SavedFirst
<1> QED
  BY <1>1, <1>2, <1>3, RecordDoneStep

\* Only the thread that has saved writes COMPLETED (handle_control_state).
LEMMA CompletedStep ==
    ASSUME TypeOK, Next, NEW d \in Devices, NEW c \in Counters,
           attempts[d][c] # "COMPLETED", attempts'[d][c] = "COMPLETED"
    PROVE  job[d].pc = "record_done" /\ job[d].session.counter = c
<1> USE DEF TypeOK, ListenerTypeOK, Record
<1>1. ASSUME NEW b \in Devices, MessageArrives(b) PROVE FALSE
  BY <1>1, MessageLocal
<1>2. ASSUME NEW b \in Devices, ThreadStep(b), ~RecordCompletion(b) PROVE FALSE
  BY <1>2
  DEF ThreadStep, JobStep, HelloAccepted, HelloStale, RecordHello, OpenSession,
      ChallengeNotBuilt, SendChallenge, RecordChallenge, RecordResponse,
      RecheckSession, SendProvisioning, RecordProvisioning, SendFailed, DropSession,
      RecordError, SaveContext, SaveFailed
<1>3. ASSUME NEW b \in Devices, RecordCompletion(b)
      PROVE  job[d].pc = "record_done" /\ job[d].session.counter = c
  BY <1>3 DEF RecordCompletion, At
<1>4. ASSUME NEW b \in Devices, CommandLeaves(b) \/ Publishes(b) PROVE FALSE
  BY <1>4 DEF CommandLeaves, Publishes, RegisterCertificate
<1>5. ASSUME NEW old \in SUBSET Devices, TimeoutPass(old) PROVE FALSE
  BY <1>5 DEF TimeoutPass, ExpireSessions
<1>6. CASE TimeoutStep
  <2>1. CASE RecordTimeout
    <3>1. PICK e \in expired :
              attempts' = [attempts EXCEPT ![e.device][e.session.counter] = "TIMEOUT"]
      BY <2>1 DEF RecordTimeout
    <3> QED
      BY <3>1
  <2>2. CASE TimeoutThreadDies
    BY <2>2 DEF TimeoutThreadDies
  <2> QED
    BY <1>6, <2>1, <2>2 DEF TimeoutStep
<1>7. CASE ProcessStep
  BY <1>7 DEF ProcessStep, ListenerStops, ListenerStarts
<1> QED
  BY <1>1, <1>2, <1>3, <1>4, <1>5, <1>6, <1>7 DEF Next

\* A row is COMPLETED only for the attempt whose context is the durable one, however
\* the update or the row may have failed before (handle_control_state).
THEOREM CompletedOnlySaved == Spec => CompletedIsSaved
<1>1. Init => SavedFirst
  BY DEF Init, ListenerInit, SavedFirst, IdleJob
<1>2. TypeOK /\ SavedFirst /\ [Next]_vars => (TypeOK /\ SavedFirst)'
  BY TypeNext, SavedFirstNext
<1>3. TypeOK /\ SavedFirst /\ [Next]_vars
        => [\A d \in Devices, c \in Counters :
              attempts[d][c] # "COMPLETED" /\ attempts'[d][c] = "COMPLETED"
                => context[d].counter = c]_vars
  BY CompletedStep DEF SavedFirst
<1> QED
  BY <1>1, <1>2, <1>3, TypeInit, PTL DEF Spec, CompletedIsSaved

-----------------------------------------------------------------------------
(* A counter is good for one attempt *)

\* The steps of an attempt whose HELLO was accepted, up to its last row; an attempt
\* that fails writes ERROR only.
Opened == JobPcs \ {"idle", "accept", "failed", "record_error"}

\* Whatever stands for an accepted HELLO - a row, a pending or an expired session, what
\* the MQTT thread goes on with - has a counter the certificate's row has reached.
UsedInv ==
    certificates = 0 =>
        /\ \A d \in Devices :
               /\ \A c \in Counters : attempts[d][c] \in {"NONE", "ERROR"} \/ c <= helloCounter[d]
               /\ sessions[d].counter <= helloCounter[d]
               /\ job[d].pc \in Opened => job[d].session.counter <= helloCounter[d]
        /\ \A e \in expired : e.session.counter <= helloCounter[e.device]

\* What a step must not do: leave a session, a job, an expired session or a row with a
\* counter not reached, when it had none.
Reaches ==
    /\ certificates' = certificates
    /\ \A d \in Devices :
           /\ helloCounter[d] <= helloCounter'[d]
           /\ \/ sessions'[d].counter <= sessions[d].counter
              \/ sessions'[d].counter <= helloCounter'[d]
           /\ \/ job'[d] = job[d]
              \/ job'[d].pc \notin Opened
              \/ job'[d].session.counter <= helloCounter'[d]
           /\ \A c \in Counters :
                  \/ attempts'[d][c] = attempts[d][c]
                  \/ attempts'[d][c] = "ERROR"
                  \/ c <= helloCounter'[d]
    /\ \A e \in expired' : e \in expired \/ e.session.counter <= helloCounter'[e.device]

LEMMA UsedKept ==
    ASSUME TypeOK, TypeOK', UsedInv, certificates = 0 => Reaches,
           certificates' = 0 => certificates = 0
    PROVE  UsedInv'
<1> SUFFICES ASSUME certificates' = 0 PROVE UsedInv'
  BY DEF UsedInv
<1>0. certificates = 0 /\ Reaches
  OBVIOUS
<1>1. ASSUME NEW d \in Devices
      PROVE  /\ helloCounter[d] \in Nat /\ helloCounter'[d] \in Nat
             /\ sessions[d].counter \in Nat /\ sessions'[d].counter \in Nat
             /\ job[d].session.counter \in Nat
  BY BoundsAssumption DEF TypeOK, ListenerTypeOK, Session, Job
<1>2. ASSUME NEW d \in Devices
      PROVE  /\ \A c \in Counters : attempts'[d][c] \in {"NONE", "ERROR"} \/ c <= helloCounter'[d]
             /\ sessions'[d].counter <= helloCounter'[d]
             /\ job'[d].pc \in Opened => job'[d].session.counter <= helloCounter'[d]
  <2>1. Counters \subseteq Nat
    BY BoundsAssumption DEF Counters
  <2> QED
    BY <1>0, <1>1, <2>1 DEF UsedInv, Reaches
<1>3. ASSUME NEW e \in expired' PROVE e.session.counter <= helloCounter'[e.device]
  <2>1. CASE e \in expired
    <3>1. e.device \in Devices /\ e.session.counter \in Nat
      BY <2>1, BoundsAssumption DEF TypeOK, ListenerTypeOK, Session
    <3> QED
      BY <1>0, <1>1, <2>1, <3>1 DEF UsedInv, Reaches
  <2> QED
    BY <1>0, <1>3, <2>1 DEF Reaches
<1> QED
  BY <1>2, <1>3 DEF UsedInv

\* A row written for a counter that is reached (provisioning_state).
LEMMA RecordReaches ==
    ASSUME TypeOK, NEW d \in Devices, NEW c, NEW state, Record(d, c, state),
           state = "ERROR" \/ c <= helloCounter[d]
    PROVE  \A b \in Devices, n \in Counters :
               \/ attempts'[b][n] = attempts[b][n]
               \/ attempts'[b][n] = "ERROR"
               \/ n <= helloCounter[b]
BY DEF Record, TypeOK, ListenerTypeOK

LEMMA GotoReaches ==
    ASSUME TypeOK, NEW d \in Devices, NEW pc, NEW s, Goto(d, pc, s),
           pc \notin Opened \/ s.counter <= helloCounter'[d]
    PROVE  \A b \in Devices :
               \/ job'[b] = job[b]
               \/ job'[b].pc \notin Opened
               \/ job'[b].session.counter <= helloCounter'[b]
BY DEF Goto, TypeOK, ListenerTypeOK

LEMMA ReturnReaches ==
    ASSUME TypeOK, NEW d \in Devices, Return(d)
    PROVE  \A b \in Devices : job'[b] = job[b] \/ job'[b].pc \notin Opened
BY DEF Return, IdleJob, Opened, TypeOK, ListenerTypeOK

LEMMA CountersAreNumbers ==
    ASSUME TypeOK, NEW d \in Devices
    PROVE  /\ helloCounter[d] \in Nat /\ sessions[d].counter \in Nat
           /\ job[d].session.counter \in Nat
BY BoundsAssumption DEF TypeOK, ListenerTypeOK, Session, Job

\* A frame opens nothing by itself: an R or T goes on with the pending session, an H has
\* yet to be accepted (on_message).
LEMMA MessageReaches ==
    ASSUME TypeOK, UsedInv, certificates = 0, NEW d \in Devices, MessageArrives(d)
    PROVE  Reaches
<1>0. MessageChanges(d)
  BY MessageEffect
<1>1. UNCHANGED <<certificates, helloCounter, expired>>
  BY <1>0 DEF MessageChanges
<1>2. \A b \in Devices : sessions'[b].counter <= sessions[b].counter
  BY MessageLocal, CountersAreNumbers DEF NoSession
<1>3. \A b \in Devices :
          \/ job'[b] = job[b]
          \/ job'[b].pc \notin Opened
          \/ job'[b].session.counter <= helloCounter'[b]
  <2>1. CASE UNCHANGED job
    BY <2>1
  <2>2. CASE ~UNCHANGED job
    <3>1. PICK pc, s : Goto(d, pc, s) /\ (pc \notin Opened \/ s = sessions[d])
      BY <1>0, <2>2 DEF MessageChanges, Opened
    <3>2. sessions[d].counter <= helloCounter'[d]
      BY <1>1 DEF UsedInv
    <3>3. pc \notin Opened \/ s.counter <= helloCounter'[d]
      BY <3>1, <3>2
    <3> QED
      BY <3>1, <3>3, GotoReaches
  <2> QED
    BY <2>1, <2>2
<1>4. \A b \in Devices, n \in Counters :
          attempts'[b][n] = attempts[b][n] \/ attempts'[b][n] = "ERROR"
  BY MessageLocal
<1> QED
  BY <1>1, <1>2, <1>3, <1>4, CountersAreNumbers DEF Reaches

\* An accepted HELLO raises the counter; what follows stays with it.
LEMMA ThreadReaches ==
    ASSUME TypeOK, UsedInv, certificates = 0, NEW d \in Devices, ThreadStep(d)
    PROVE  Reaches
<1> DEFINE s == job[d].session
<1>0. UNCHANGED <<certificates, expired>> /\ JobStep(d)
  BY DEF ThreadStep, JobStep, HelloAccepted, HelloStale, RecordHello, OpenSession,
      ChallengeNotBuilt, SendChallenge, RecordChallenge, RecordResponse,
      RecheckSession, SendProvisioning, RecordProvisioning, SendFailed, DropSession,
      RecordError, SaveContext, SaveFailed, RecordCompletion
<1>1. job[d].pc \in Opened => s.counter <= helloCounter[d]
  BY DEF UsedInv
<1>2. CASE HelloAccepted(d)
  <2>1. helloCounter' = [helloCounter EXCEPT ![d] = s.counter] /\ helloCounter[d] < s.counter
    BY <1>2, CountersAreNumbers DEF HelloAccepted
  <2>2. \A b \in Devices : helloCounter[b] <= helloCounter'[b]
    BY <2>1, CountersAreNumbers DEF TypeOK, ListenerTypeOK
  <2>3. s.counter <= helloCounter'[d]
    BY <2>1, CountersAreNumbers DEF TypeOK, ListenerTypeOK
  <2>4. \A b \in Devices : \/ job'[b] = job[b]
                           \/ job'[b].session.counter <= helloCounter'[b]
    BY <1>2, <2>3 DEF HelloAccepted, Goto, TypeOK, ListenerTypeOK
  <2>5. UNCHANGED <<sessions, attempts>>
    BY <1>2 DEF HelloAccepted
  <2> QED
    BY <1>0, <2>2, <2>4, <2>5, CountersAreNumbers DEF Reaches
<1>3. CASE ~HelloAccepted(d)
  <2>1. UNCHANGED helloCounter
    BY <1>0, <1>3 DEF JobStep, HelloStale, RecordHello, OpenSession,
      ChallengeNotBuilt, SendChallenge, RecordChallenge, RecordResponse,
      RecheckSession, SendProvisioning, RecordProvisioning, SendFailed, DropSession,
      RecordError, SaveContext, SaveFailed, RecordCompletion
  <2>2. \A b \in Devices :
            \/ job'[b] = job[b]
            \/ job'[b].pc \notin Opened
            \/ job'[b].session.counter <= helloCounter'[b]
    <3>1. CASE Return(d)
      BY <3>1, ReturnReaches
    <3>2. CASE OpenSession(d)
      <4>1. s.counter <= helloCounter[d]
        BY <1>1, <3>2 DEF OpenSession, At, Opened, JobPcs
      <4>2. job[d].session \in Session
        BY DEF TypeOK, ListenerTypeOK, Job
      <4>3. [s EXCEPT !.random = nonce, !.state = "WAIT_RESPONSE"].counter = s.counter
        BY <4>2 DEF Session
      <4> QED
        BY <2>1, <3>2, <4>1, <4>3, GotoReaches DEF OpenSession
    <3>3. CASE RecheckSession(d) /\ Goto(d, "send_p", sessions'[d])
      <4>1. CASE UNCHANGED sessions
        BY <2>1, <3>3, <4>1, GotoReaches DEF UsedInv
      <4>2. CASE sessions' = [sessions EXCEPT ![d].state = "PROVISIONING_SENT"]
        <5>1. sessions'[d].counter = sessions[d].counter
          BY <4>2 DEF TypeOK, ListenerTypeOK, Session
        <5> QED
          BY <2>1, <3>3, <5>1, GotoReaches DEF UsedInv
      <4> QED
        BY <3>3, <4>1, <4>2 DEF RecheckSession
    <3>4. ASSUME NEW pc, Goto(d, pc, s), job[d].pc \in Opened \/ pc \notin Opened
          PROVE  \A b \in Devices :
                    \/ job'[b] = job[b]
                    \/ job'[b].pc \notin Opened
                    \/ job'[b].session.counter <= helloCounter'[b]
      BY <1>1, <2>1, <3>4, GotoReaches
    <3> QED
      BY <1>0, <1>3, <3>1, <3>2, <3>3, <3>4
      DEF JobStep, HelloStale, RecordHello, ChallengeNotBuilt, SendChallenge,
          RecordChallenge, RecordResponse, RecheckSession, SendProvisioning,
          RecordProvisioning, SendFailed, DropSession, RecordError, SaveContext,
          SaveFailed, RecordCompletion, At, Opened, JobPcs
  <2>3. \A b \in Devices : \/ sessions'[b].counter <= sessions[b].counter
                           \/ sessions'[b].counter <= helloCounter'[b]
    <3>1. CASE UNCHANGED sessions
      BY <3>1, CountersAreNumbers
    <3>2. CASE OpenSession(d)
      <4>1. job[d].session \in Session
        BY DEF TypeOK, ListenerTypeOK, Job
      <4>2. sessions'[d].counter = s.counter /\ s.counter <= helloCounter[d]
        BY <1>1, <3>2, <4>1 DEF OpenSession, At, Opened, JobPcs, TypeOK, ListenerTypeOK, Session
      <4>3. \A b \in Devices : b # d => sessions'[b] = sessions[b]
        BY <3>2 DEF OpenSession, TypeOK, ListenerTypeOK
      <4> QED
        BY <2>1, <4>2, <4>3, CountersAreNumbers
    <3>3. CASE RecheckSession(d) \/ DropSession(d)
      <4>1. sessions \in [Devices -> Session]
        BY DEF TypeOK, ListenerTypeOK
      <4>2. \/ UNCHANGED sessions \/ sessions' = [sessions EXCEPT ![d] = NoSession]
            \/ sessions' = [sessions EXCEPT ![d].state = "PROVISIONING_SENT"]
        BY <3>3 DEF RecheckSession, DropSession
      <4>3. \A b \in Devices : \/ sessions'[b].counter = sessions[b].counter
                               \/ sessions'[b].counter = 0
        BY <4>1, <4>2 DEF NoSession, Session
      <4> QED
        BY <4>3, CountersAreNumbers
    <3> QED
      BY <1>0, <1>3, <3>1, <3>2, <3>3
      DEF JobStep, HelloStale, RecordHello, ChallengeNotBuilt, SendChallenge,
          RecordChallenge, RecordResponse, SendProvisioning, RecordProvisioning,
          SendFailed, RecordError, SaveContext, SaveFailed, RecordCompletion
  <2>4. \A b \in Devices, n \in Counters :
            \/ attempts'[b][n] = attempts[b][n]
            \/ attempts'[b][n] = "ERROR"
            \/ n <= helloCounter[b]
    <3>1. CASE UNCHANGED attempts
      BY <3>1
    <3>2. CASE RecordError(d)
      BY <3>2, RecordReaches DEF RecordError
    <3>3. ASSUME NEW state, Record(d, s.counter, state), job[d].pc \in Opened
          PROVE  \A b \in Devices, n \in Counters :
                    \/ attempts'[b][n] = attempts[b][n]
                    \/ attempts'[b][n] = "ERROR"
                    \/ n <= helloCounter[b]
      BY <1>1, <3>3, RecordReaches
    <3> QED
      BY <1>0, <1>3, <3>1, <3>2, <3>3
      DEF JobStep, HelloStale, RecordHello, OpenSession, ChallengeNotBuilt, SendChallenge,
          RecordChallenge, RecordResponse, RecheckSession, SendProvisioning,
          RecordProvisioning, SendFailed, DropSession, SaveContext,
          SaveFailed, RecordCompletion, At, Opened, JobPcs
  <2> QED
    BY <1>0, <2>1, <2>2, <2>3, <2>4, CountersAreNumbers DEF Reaches
<1> QED
  BY <1>2, <1>3

LEMMA UsedNext ==
    ASSUME TypeOK, TypeOK', UsedInv, [Next]_vars
    PROVE  UsedInv'
<1>1. ASSUME NEW d \in Devices, MessageArrives(d) PROVE UsedInv'
  BY <1>1, MessageReaches, UsedKept DEF MessageArrives
<1>2. ASSUME NEW d \in Devices, ThreadStep(d) PROVE UsedInv'
  BY <1>2, ThreadReaches, UsedKept DEF ThreadStep
<1>3. ASSUME NEW d \in Devices, Publishes(d) PROVE UsedInv'
  BY <1>3 DEF Publishes, UsedInv, TypeOK
<1>4. ASSUME NEW d \in Devices, CommandLeaves(d) PROVE UsedInv'
  BY <1>4 DEF CommandLeaves, UsedInv
<1>5. ASSUME NEW old \in SUBSET Devices, TimeoutPass(old) PROVE UsedInv'
  <2>1. /\ UNCHANGED <<certificates, helloCounter, job, attempts>>
        /\ expired' = {[device |-> d, session |-> sessions[d]] : d \in old}
        /\ \A d \in Devices : sessions'[d] = sessions[d] \/ sessions'[d].counter = 0
    BY <1>5 DEF TimeoutPass, ExpireSessions, NoSession
  <2>2. certificates = 0 => \A e \in expired' : e.session.counter <= helloCounter'[e.device]
    BY <2>1 DEF UsedInv
  <2>3. certificates = 0 => Reaches
    BY <2>1, <2>2, CountersAreNumbers DEF Reaches
  <2> QED
    BY <2>1, <2>3, UsedKept
<1>6. CASE TimeoutStep
  <2>1. CASE RecordTimeout
    <3>1. /\ UNCHANGED <<certificates, helloCounter, job, sessions>>
          /\ expired' \subseteq expired
      BY <1>6, <2>1 DEF TimeoutStep, RecordTimeout
    <3>2. certificates = 0 =>
              \A b \in Devices, n \in Counters :
                \/ attempts'[b][n] = attempts[b][n]
                \/ attempts'[b][n] = "ERROR"
                \/ n <= helloCounter[b]
      <4>1. PICK e \in expired : Record(e.device, e.session.counter, "TIMEOUT")
        BY <2>1 DEF RecordTimeout
      <4>2. e.device \in Devices
        BY DEF TypeOK, ListenerTypeOK
      <4> QED
        BY <4>1, <4>2, RecordReaches DEF UsedInv
    <3>3. certificates = 0 => Reaches
      BY <3>1, <3>2, CountersAreNumbers DEF Reaches
    <3> QED
      BY <3>1, <3>3, UsedKept
  <2>2. CASE TimeoutThreadDies
    BY <1>6, <2>2 DEF TimeoutStep, TimeoutThreadDies, UsedInv
  <2> QED
    BY <1>6, <2>1, <2>2 DEF TimeoutStep
<1>7. CASE ProcessStep
  <2>1. CASE ListenerStarts
    BY <1>7, <2>1 DEF ProcessStep, ListenerStarts, UsedInv
  <2>2. CASE ListenerStops
    <3>1. /\ UNCHANGED <<certificates, helloCounter, attempts>> /\ expired' = {}
          /\ \A d \in Devices : sessions'[d].counter = 0 /\ job'[d].pc \notin Opened
      BY <1>7, <2>2 DEF ProcessStep, ListenerStops, NoSession, IdleJob, Opened
    <3>2. Reaches
      BY <3>1, CountersAreNumbers DEF Reaches
    <3> QED
      BY <3>1, <3>2, UsedKept
  <2> QED
    BY <1>7, <2>1, <2>2 DEF ProcessStep
<1>8. CASE UNCHANGED vars
  BY <1>8 DEF vars, listenerVars, UsedInv
<1> QED
  BY <1>1, <1>2, <1>3, <1>4, <1>5, <1>6, <1>7, <1>8 DEF Next

\* A HELLO is accepted by one step only.
LEMMA AcceptStep ==
    ASSUME TypeOK, Next, NEW d \in Devices, job[d].pc = "accept", job'[d].pc = "record_h"
    PROVE  job[d].session.counter > helloCounter[d]
<1> USE DEF TypeOK, ListenerTypeOK, Goto, Return, IdleJob, At
<1>1. ASSUME NEW b \in Devices, MessageArrives(b) PROVE FALSE
  BY <1>1, MessageLocal
<1>2. ASSUME NEW b \in Devices, ThreadStep(b), ~HelloAccepted(b) PROVE FALSE
  <2>1. CASE SaveContext(b)
    BY <2>1 DEF SaveContext
  <2>2. CASE Return(b)
    BY <2>2
  <2>3. CASE \E pc \in JobPcs \ {"accept", "record_h", "save", "record_done"} : \E s :
                 Goto(b, pc, s)
    <3>1. PICK pc \in JobPcs \ {"accept", "record_h", "save", "record_done"} : \E s :
              job' = [job EXCEPT ![b] = [pc |-> pc, session |-> s]]
      BY <2>3
    <3> QED
      BY <3>1
  <2> QED
    BY <1>2, <2>1, <2>2, <2>3, ThreadMoves DEF ThreadStep
<1>3. ASSUME NEW b \in Devices, HelloAccepted(b)
      PROVE  job[d].session.counter > helloCounter[d]
  BY <1>3 DEF HelloAccepted
<1>4. ASSUME NEW b \in Devices, CommandLeaves(b) \/ Publishes(b) PROVE FALSE
  BY <1>4 DEF CommandLeaves, Publishes, RegisterCertificate
<1>5. CASE (\E old \in SUBSET Devices : TimeoutPass(old)) \/ TimeoutStep
  BY <1>5 DEF TimeoutPass, ExpireSessions, TimeoutStep, RecordTimeout, TimeoutThreadDies
<1>6. CASE ProcessStep
  BY <1>6 DEF ProcessStep, ListenerStops, ListenerStarts
<1> QED
  BY <1>1, <1>2, <1>3, <1>4, <1>5, <1>6 DEF Next

\* Until another certificate is registered no HELLO is accepted whose counter already has
\* an attempt that was opened, however frames are replayed and reordered
\* (accept_hello_counter).
THEOREM CounterGoodOnce == Spec => CountersUsedOnce
<1>1. Init => UsedInv
  BY DEF Init, ListenerInit, UsedInv, IdleJob, NoSession, Opened, JobPcs, Counters
<1>2. TypeOK /\ UsedInv /\ [Next]_vars => (TypeOK /\ UsedInv)'
  BY TypeNext, UsedNext
<1>3. ASSUME TypeOK, UsedInv, Next, NEW d \in Devices, certificates = 0,
             job[d].pc = "accept", job'[d].pc = "record_h"
      PROVE  attempts[d][job[d].session.counter] \in {"NONE", "ERROR"}
  <2>1. job[d].session.counter > helloCounter[d]
    BY <1>3, AcceptStep
  <2>2. job[d].session.counter \in Counters
    BY <1>3, <2>1, BoundsAssumption DEF TypeOK, ListenerTypeOK, Job, Session, Counters
  <2> QED
    BY <1>3, <2>1, <2>2, CountersAreNumbers DEF UsedInv, Counters
<1>4. TypeOK /\ UsedInv /\ [Next]_vars
        => [\A d \in Devices :
              certificates = 0 /\ job[d].pc = "accept" /\ job'[d].pc = "record_h"
                => attempts[d][job[d].session.counter] \in {"NONE", "ERROR"}]_vars
  BY <1>3
<1> QED
  BY <1>1, <1>2, <1>4, TypeInit, PTL DEF Spec, CountersUsedOnce
=============================================================================
