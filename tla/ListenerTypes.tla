---------------------------- MODULE ListenerTypes ----------------------------
(***************************************************************************)
(* That what the listener does keeps its variables in their sets, for any  *)
(* set of devices and keys: lemmas for the specifications that it is a     *)
(* part of (ListenerSystem, Provisioning).                                 *)
(***************************************************************************)
EXTENDS ProvisioningListener, TLAPS

-----------------------------------------------------------------------------
(* The helpers of the actions keep the types. *)

\* A recorded row state keeps the attempts table in its set
\* (provisioning_state).
LEMMA RecordType ==
    ASSUME attempts \in [Devices -> [Counters -> RowStates]],
           NEW d \in Devices, NEW c, NEW state \in RowStates,
           Record(d, c, state)
    PROVE  attempts' \in [Devices -> [Counters -> RowStates]]
BY DEF Record

\* Moving the MQTT thread on keeps the jobs in their set (on_message).
LEMMA GotoType ==
    ASSUME job \in [Devices -> Job],
           NEW d \in Devices, NEW pc \in JobPcs, NEW s \in Session,
           Goto(d, pc, s)
    PROVE  job' \in [Devices -> Job]
BY DEF Goto, Job

LEMMA NoSessionType == NoSession \in Session
BY KeysAssumption, BoundsAssumption DEF NoSession, Session, SessionStates

LEMMA ReturnType ==
    ASSUME job \in [Devices -> Job], NEW d \in Devices, Return(d)
    PROVE  job' \in [Devices -> Job]
BY NoSessionType DEF Return, IdleJob, Job, JobPcs

\* A published command keeps the queues in their set (publish_command).
LEMMA PublishType ==
    ASSUME downlink \in [Devices -> Seq(Command)],
           NEW d \in Devices, NEW kind \in {"A", "P"}, NEW s \in Session,
           Publish(d, kind, s)
    PROVE  downlink' \in [Devices -> Seq(Command)]
<1> DEFINE m == [kind |-> kind, counter |-> s.counter, random |-> s.random,
                 key |-> s.key]
<1>1. m \in Command
  BY DEF Command, Session
<1>2. Append(downlink[d], m) \in Seq(Command)
  BY <1>1
<1> QED
  BY <1>2 DEF Publish

LEMMA FaultType ==
    ASSUME faults \in 0..MaxFaults, Fault
    PROVE  faults' \in 0..MaxFaults
BY BoundsAssumption DEF Fault

-----------------------------------------------------------------------------
(* The actions do. *)

\* A frame that arrives keeps every variable in its set (on_message).
LEMMA MessageType ==
    ASSUME ListenerTypeOK, NEW d \in Devices,
           NEW f \in Frame, OnMessage(d, f)
    PROVE  ListenerTypeOK'
<1> USE DEF ListenerTypeOK
<1>1. CASE OnHello(d, f)
  <2>1. CASE HelloIgnored(d, f)
    BY <2>1 DEF HelloIgnored, listenerVars
  <2>2. CASE HelloRejected(d, f)
    BY <2>2, RecordType DEF HelloRejected, RowStates
  <2>3. CASE HelloVerified(d, f)
    <3> DEFINE s == [NoSession EXCEPT !.counter = f.counter, !.key = f.key]
    <3>a. f.counter \in 0..MaxCounter
      BY <1>1, BoundsAssumption DEF OnHello, Counters
    <3>b. f.key \in Keys \cup {NoKey}
      BY DEF Frame
    <3>1. f.counter \in 0..MaxCounter /\ f.key \in Keys \cup {NoKey}
      BY <3>a, <3>b
    <3>2. s \in Session
      BY <3>1, NoSessionType DEF Session, NoSession
    <3>3. Goto(d, "accept", s) /\ "accept" \in JobPcs
      BY <2>3 DEF HelloVerified, JobPcs
    <3>4. job' \in [Devices -> Job]
      BY <3>2, <3>3, GotoType
    <3> QED
      BY <2>3, <3>4 DEF HelloVerified
  <2> QED
    BY <1>1, <2>1, <2>2, <2>3 DEF OnHello
<1>2. CASE OnResponse(d, f)
  <2>1. sessions[d] \in Session
    OBVIOUS
  <2>2. CASE ResponseIgnored(d, f)
    BY <2>2 DEF ResponseIgnored, listenerVars
  <2>3. CASE ResponseVerified(d, f) \/ ResponseRejected(d, f)
    BY <2>1, <2>3, GotoType DEF ResponseVerified, ResponseRejected, JobPcs
  <2> QED
    BY <1>2, <2>2, <2>3 DEF OnResponse
<1>3. CASE OnControl(d, f)
  <2>1. CASE ControlIgnored(d, f)
    BY <2>1 DEF ControlIgnored, listenerVars
  <2>2. CASE AttemptFinished(d, f)
    BY <2>2, GotoType, NoSessionType DEF AttemptFinished, JobPcs
  <2> QED
    BY <1>3, <2>1, <2>2 DEF OnControl
<1> QED
  BY <1>1, <1>2, <1>3 DEF OnMessage

\* So does what the MQTT thread goes on to do (on_message).
LEMMA JobType ==
    ASSUME ListenerTypeOK, NEW d \in Devices, JobStep(d)
    PROVE  ListenerTypeOK'
<1> USE DEF ListenerTypeOK
<1>1. job[d].session \in Session
  BY DEF Job
<1>2. job[d].session.counter \in 0..MaxCounter
  BY <1>1 DEF Session
<1>3. CASE HelloAccepted(d)
  BY <1>1, <1>2, <1>3, GotoType DEF HelloAccepted, JobPcs
<1>4. CASE HelloStale(d)
  BY <1>4, ReturnType DEF HelloStale
<1>5. CASE RecordHello(d)
  BY <1>1, <1>5, RecordType, GotoType DEF RecordHello, RowStates, JobPcs
<1>6. CASE OpenSession(d)
  <2> DEFINE s == [job[d].session EXCEPT !.random = nonce,
                                         !.state = "WAIT_RESPONSE"]
  <2>1. s \in Session
    BY <1>1 DEF Session, SessionStates
  <2>2. job' \in [Devices -> Job]
    BY <1>6, <2>1, GotoType DEF OpenSession, JobPcs
  <2>3. sessions' \in [Devices -> Session]
    BY <1>6, <2>1 DEF OpenSession
  <2> QED
    BY <1>6, <2>2, <2>3 DEF OpenSession
<1>7. CASE ChallengeNotBuilt(d)
  BY <1>1, <1>7, GotoType, FaultType DEF ChallengeNotBuilt, JobPcs
<1>8. CASE SendChallenge(d)
  <2>1. downlink' \in [Devices -> Seq(Command)]
    BY <1>1, <1>8, PublishType DEF SendChallenge
  <2> QED
    BY <1>1, <1>8, <2>1, GotoType DEF SendChallenge, JobPcs
<1>9. CASE RecordChallenge(d)
  BY <1>9, RecordType, ReturnType DEF RecordChallenge, RowStates
<1>10. CASE RecordResponse(d)
  BY <1>1, <1>10, RecordType, GotoType DEF RecordResponse, RowStates, JobPcs
<1>11. CASE RecheckSession(d)
  <2>1. CASE /\ sessions' = [sessions EXCEPT ![d].state = "PROVISIONING_SENT"]
             /\ Goto(d, "send_p", sessions'[d])
    <3>1. sessions' \in [Devices -> Session]
      BY <2>1 DEF Session, SessionStates
    <3>2. job' \in [Devices -> Job]
      BY <2>1, <3>1, GotoType DEF JobPcs
    <3> QED
      BY <1>11, <3>1, <3>2 DEF RecheckSession
  <2>2. CASE Return(d) /\ UNCHANGED sessions
    BY <1>11, <2>2, ReturnType DEF RecheckSession
  <2> QED
    BY <1>11, <2>1, <2>2 DEF RecheckSession
<1>12. CASE SendProvisioning(d)
  <2>1. downlink' \in [Devices -> Seq(Command)]
    BY <1>1, <1>12, PublishType DEF SendProvisioning
  <2> QED
    BY <1>1, <1>12, <2>1, GotoType DEF SendProvisioning, JobPcs
<1>13. CASE RecordProvisioning(d)
  BY <1>13, RecordType, ReturnType DEF RecordProvisioning, RowStates
<1>14. CASE SendFailed(d)
  BY <1>1, <1>14, GotoType, FaultType DEF SendFailed, JobPcs
<1>15. CASE DropSession(d)
  BY <1>1, <1>15, GotoType, NoSessionType DEF DropSession, JobPcs
<1>16. CASE RecordError(d)
  BY <1>16, RecordType, ReturnType DEF RecordError, RowStates
<1>17. CASE SaveContext(d)
  <2>1. context' \in [Devices -> Context]
    BY <1>1, <1>17 DEF SaveContext, Session, Context
  <2> QED
    BY <1>1, <1>17, <2>1, GotoType DEF SaveContext, JobPcs
<1>18. CASE SaveFailed(d)
  BY <1>1, <1>18, GotoType, FaultType DEF SaveFailed, JobPcs
<1>19. CASE RecordCompletion(d)
  BY <1>19, RecordType, ReturnType DEF RecordCompletion, RowStates
<1> QED
  BY <1>3, <1>4, <1>5, <1>6, <1>7, <1>8, <1>9, <1>10, <1>11, <1>12, <1>13,
     <1>14, <1>15, <1>16, <1>17, <1>18, <1>19 DEF JobStep

\* The timeout thread (session_timeout_loop).
LEMMA ExpireType ==
    ASSUME ListenerTypeOK, NEW old \in SUBSET Devices, ExpireSessions(old),
           faults' \in 0..MaxFaults
    PROVE  ListenerTypeOK'
BY NoSessionType DEF ExpireSessions, ListenerTypeOK

LEMMA TimeoutType ==
    ASSUME ListenerTypeOK, RecordTimeout \/ TimeoutThreadDies
    PROVE  ListenerTypeOK'
<1>1. CASE RecordTimeout
  BY <1>1, RecordType DEF RecordTimeout, ListenerTypeOK, RowStates
<1>2. CASE TimeoutThreadDies
  BY <1>2, FaultType DEF TimeoutThreadDies, ListenerTypeOK
<1> QED
  BY <1>1, <1>2

\* The end and the start of the process (main).
LEMMA ProcessType ==
    ASSUME ListenerTypeOK, ListenerStops \/ ListenerStarts
    PROVE  ListenerTypeOK'
BY FaultType, NoSessionType
DEF ListenerStops, ListenerStarts, ListenerTypeOK, IdleJob, Job, JobPcs

\* A certificate (register_device_certificate).
LEMMA CertificateType ==
    ASSUME ListenerTypeOK, NEW d \in Devices, NEW k \in Keys,
           RegisterCertificate(d, k)
    PROVE  ListenerTypeOK'
BY BoundsAssumption DEF RegisterCertificate, ListenerTypeOK

LEMMA ListenerInitType == ListenerInit => ListenerTypeOK
BY KeysAssumption, BoundsAssumption, NoSessionType
DEF ListenerInit, ListenerTypeOK, IdleJob, Job, JobPcs, NoContext, Context,
    Threads, Counters, RowStates
=============================================================================
