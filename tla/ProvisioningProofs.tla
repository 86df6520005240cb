-------------------------- MODULE ProvisioningProofs --------------------------
(***************************************************************************)
(* Proofs about Provisioning: type correctness, that the handshake keeps   *)
(* its promise, and that an undisturbed attempt ends well, for any bounds  *)
(* and any number of faults before.                                        *)
(***************************************************************************)
EXTENDS Provisioning, ListenerTypes

-----------------------------------------------------------------------------
(* The helpers of the device keep the types. *)

LEMMA BoundsAre ==
    /\ MaxHello \in Nat \ {0} /\ MaxHello = MaxCounter
    /\ MaxCommands \in Nat /\ MaxChecks \in Nat
    /\ Device \in Devices /\ DeviceKey \in Keys
    /\ Unsigned = NoKey /\ DeviceKey # NoKey
BY EspAssumption, CompositionAssumption, KeysAssumption

\* What the device sends fits the frames of the listener.
LEMMA ControlFrame ==
    ASSUME NEW en \in BOOLEAN, NEW st
    PROVE  ControlState(en, st) \in Frame
BY BoundsAre DEF ControlState, Frame

LEMMA HelloFrame ==
    ASSUME NEW c \in 0..MaxHello
    PROVE  SignedHello(c) \in Frame
BY BoundsAre DEF SignedHello, Frame

LEMMA ResponseFrame == Response \subseteq Frame
BY BoundsAre DEF Response, Frame

LEMMA ResponseIs ==
    ASSUME NEW c \in 0..MaxHello, NEW r \in Nat
    PROVE  SignedResponse(c, r) \in Response
BY DEF SignedResponse, Response

LEMMA NoResponseIs == NoResponse \in Response
BY BoundsAre, ResponseIs DEF NoResponse

LEMMA SecuredIs ==
    ASSUME NEW state \in SecureStates, NEW c \in 0..MaxHello, NEW r \in Nat
    PROVE  Secured(state, c, r) \in Secure
BY DEF Secured, Secure

LEMMA IdleSecureIs == IdleSecure \in Secure
BY BoundsAre DEF IdleSecure, Secured, Secure, SecureStates

LEMMA SecureFields ==
    ASSUME NEW s \in Secure
    PROVE  /\ s.state \in SecureStates /\ s.counter \in 0..MaxHello
           /\ s.random \in Nat
           /\ AttemptOf(s) \in Attempt
BY DEF Secure, AttemptOf, Attempt

LEMMA NoAttemptIs == NoAttempt \in Attempt
BY BoundsAre DEF NoAttempt, Attempt

UplinkType == uplink \in Seq(Frame)

\* publish_state.
LEMMA PublishStateType ==
    ASSUME UplinkType, NEW en \in BOOLEAN, NEW st, PublishState(en, st)
    PROVE  UplinkType'
BY ControlFrame DEF PublishState, UplinkType

LEMMA SupersededType ==
    ASSUME apply \in [Writes -> ApplyPcs]
    PROVE  Superseded \in [Writes -> ApplyPcs]
BY DEF Superseded, ApplyPcs

\* set_status.
LEMMA ProgressType ==
    ASSUME UplinkType, enable \in BOOLEAN, NEW new, ReportProgress(new)
    PROVE  UplinkType' /\ status' = new
BY PublishStateType DEF ReportProgress, UplinkType

LEMMA ChangeType ==
    ASSUME enable \in BOOLEAN, apply \in [Writes -> ApplyPcs],
           NEW new \in Statuses, ChangeStatus(new)
    PROVE  /\ status' = new
           /\ enable' \in BOOLEAN /\ apply' \in [Writes -> ApplyPcs]
BY SupersededType DEF ChangeStatus

LEMMA FailureType ==
    ASSUME UplinkType, enable \in BOOLEAN, status \in Statuses,
           apply \in [Writes -> ApplyPcs],
           NEW new \in Statuses, ReportFailure(new)
    PROVE  /\ UplinkType' /\ status' \in Statuses
           /\ enable' \in BOOLEAN /\ apply' \in [Writes -> ApplyPcs]
<1>1. CASE status = new
  BY <1>1 DEF ReportFailure, UplinkType
<1>2. CASE status # new
  BY <1>2, ChangeType, PublishStateType DEF ReportFailure
<1> QED
  BY <1>1, <1>2

LEMMA RetryType ==
    ASSUME sState \in Secure, stateBlob \in Secure, ResetForRetry
    PROVE  sState' \in Secure /\ stateBlob' \in Secure
BY IdleSecureIs DEF ResetForRetry

LEMMA CheckContextType ==
    ASSUME stateBlob \in Secure, contextBlob \in Attempt
    PROVE  CheckContext \in Attempt
BY SecureFields, NoAttemptIs DEF CheckContext

LEMMA SnapshotType ==
    ASSUME stateBlob \in Secure, contextBlob \in Attempt, Snapshot
    PROVE  contextBlob' \in Attempt
BY SecureFields DEF Snapshot

-----------------------------------------------------------------------------
(* Type correctness *)

\* Enable OTA and its tasks (handle_set_attr, apply_enable_task).
LEMMA ApplyType ==
    ASSUME EspTypeOK, UplinkType,
           \/ \E on \in BOOLEAN : UserWrites(on)
           \/ \E n \in Writes : ApplyStep(n)
           \/ InitialReport
    PROVE  EspTypeOK' /\ UplinkType'
<1> USE DEF EspTypeOK
<1>1. ASSUME NEW on \in BOOLEAN, UserWrites(on)
      PROVE  EspTypeOK' /\ UplinkType'
  <2>1. commands + 1 \in 0..MaxCommands
    BY <1>1, BoundsAre DEF UserWrites
  <2>2. apply' \in [Writes -> ApplyPcs]
    BY <1>1, SupersededType DEF UserWrites, ApplyPcs
  <2> QED
    BY <1>1, <2>1, <2>2 DEF UserWrites, flash, UplinkType
<1>2. ASSUME NEW n \in Writes, ApplyStarts(n)
      PROVE  EspTypeOK' /\ UplinkType'
  <2>1. apply' \in [Writes -> ApplyPcs] /\ UplinkType'
    BY <1>2, PublishStateType DEF ApplyStarts, ApplyPcs
  <2> QED
    BY <1>2, <2>1 DEF ApplyStarts, flash
<1>3. ASSUME NEW n \in Writes, ApplyOn(n)
      PROVE  EspTypeOK' /\ UplinkType'
  <2>1. apply' \in [Writes -> ApplyPcs]
    BY <1>3 DEF ApplyOn, ApplyPcs
  <2> QED
    BY <1>3, <2>1, IdleSecureIs DEF ApplyOn, UplinkType
<1>4. ASSUME NEW n \in Writes, ApplySchedule(n)
      PROVE  EspTypeOK' /\ UplinkType'
  <2>1. apply' \in [Writes -> ApplyPcs]
    BY <1>4 DEF ApplySchedule, ApplyPcs
  <2>2. UplinkType' /\ status' \in Statuses /\ hello' \in HelloPcs
    BY <1>4, ProgressType DEF ApplySchedule, Statuses, HelloPcs
  <2> QED
    BY <1>4, <2>1, <2>2 DEF ApplySchedule, flash
<1>5. ASSUME NEW n \in Writes, ApplyOff(n)
      PROVE  EspTypeOK' /\ UplinkType'
  <2>1. apply' \in [Writes -> ApplyPcs]
    BY <1>5 DEF ApplyOff, ApplyPcs
  <2> QED
    BY <1>5, <2>1, RetryType DEF ApplyOff, UplinkType
<1>6. CASE InitialReport
  <2>1. UplinkType' /\ apply' \in [Writes -> ApplyPcs] /\ status' \in Statuses
    BY <1>6, PublishStateType, SupersededType DEF InitialReport, Statuses
  <2> QED
    BY <1>6, <2>1 DEF InitialReport, flash
<1> QED
  BY <1>1, <1>2, <1>3, <1>4, <1>5, <1>6 DEF ApplyStep

\* The hello task (hello_task, send_secure_hello).
LEMMA HelloType ==
    ASSUME EspTypeOK, UplinkType, HelloStep \/ HelloElapsed \/ HelloFails
    PROVE  EspTypeOK' /\ UplinkType'
<1> USE DEF EspTypeOK
<1>1. CASE HelloBegin
  <2>1. CASE enable
    BY <1>1, <2>1, RetryType, ProgressType DEF HelloBegin, Statuses, HelloPcs
  <2>2. CASE ~enable
    BY <1>1, <2>2 DEF HelloBegin, HelloPcs, UplinkType
  <2> QED
    BY <2>1, <2>2
<1>2. CASE HelloDraw
  BY <1>2, BoundsAre DEF HelloDraw, HelloPcs, UplinkType
<1>3. CASE HelloEnter
  BY <1>3, SecuredIs DEF HelloEnter, HelloPcs, SecureStates, UplinkType
<1>4. CASE HelloSend
  <2>1. UplinkType'
    BY <1>4, HelloFrame DEF HelloSend, UplinkType
  <2> QED
    BY <1>4, <2>1 DEF HelloSend, HelloPcs, flash
<1>5. CASE HelloRefused
  <2>1. /\ UplinkType' /\ status' \in Statuses
        /\ enable' \in BOOLEAN /\ apply' \in [Writes -> ApplyPcs]
    BY <1>5, FailureType DEF HelloRefused, Statuses
  <2> QED
    BY <1>5, <2>1 DEF HelloRefused, HelloPcs, flash
<1>6. CASE HelloStop \/ HelloElapsed \/ HelloJudge
  BY <1>6
  DEF HelloStop, HelloElapsed, HelloJudge, HelloPcs, flash, UplinkType
<1>7. CASE HelloExpire
  <2>1. /\ UplinkType' /\ status' \in Statuses
        /\ enable' \in BOOLEAN /\ apply' \in [Writes -> ApplyPcs]
    BY <1>7, FailureType DEF HelloExpire, Statuses
  <2> QED
    BY <1>7, <2>1 DEF HelloExpire, HelloPcs, flash
<1>8. CASE HelloDone
  BY <1>8, RetryType DEF HelloDone, HelloPcs, UplinkType
<1>9. CASE HelloFails
  <2>1. /\ UplinkType' /\ status' \in Statuses
        /\ enable' \in BOOLEAN /\ apply' \in [Writes -> ApplyPcs]
    BY <1>9, FailureType DEF HelloFails, Statuses
  <2>2. sState' \in Secure /\ enrollCounter' \in 0..MaxHello
    BY <1>9, SecuredIs, BoundsAre DEF HelloFails, SecureStates
  <2> QED
    BY <1>9, <2>1, <2>2 DEF HelloFails, HelloPcs
<1> QED
  BY <1>1, <1>2, <1>3, <1>4, <1>5, <1>6, <1>7, <1>8, <1>9 DEF HelloStep

\* A and P in the Zigbee task, and the answers (accept_challenge,
\* accept_provisioning, ack_task).
LEMMA ZigbeeType ==
    ASSUME EspTypeOK, UplinkType,
           \/ ZigbeeStep \/ SendResponse \/ ChallengeNotStored \/ PersistFails
           \/ \E m \in Command : HandleCommand(m)
    PROVE  EspTypeOK' /\ UplinkType'
<1> USE DEF EspTypeOK
<1>0. answer.random \in Nat /\ acks \cup {answer} \subseteq Response
  BY DEF Response
<1>1. CASE ScheduleResponse
  <2>1. sState' \in Secure
    BY <1>0, <1>1, SecureFields, SecuredIs DEF ScheduleResponse, SecureStates
  <2> QED
    BY <1>0, <1>1, <2>1, NoResponseIs DEF ScheduleResponse, ZbPcs, UplinkType
<1>2. CASE PersistProvisioned
  <2>1. stateBlob' \in Secure /\ sState' \in Secure
    BY <1>2 DEF PersistProvisioned, Secure, SecureStates
  <2> QED
    BY <1>2, <2>1 DEF PersistProvisioned, ZbPcs, UplinkType
<1>3. CASE StatusComplete
  <2>1. /\ status' \in Statuses /\ enable' \in BOOLEAN
        /\ apply' \in [Writes -> ApplyPcs]
    BY <1>3, ChangeType DEF StatusComplete, Statuses
  <2> QED
    BY <1>3, <2>1 DEF StatusComplete, ZbPcs, flash, UplinkType
<1>4. CASE PublishComplete
  BY <1>4, PublishStateType DEF PublishComplete, ZbPcs, flash
<1>5. CASE SnapshotContext
  <2>1. contextBlob' \in Attempt
    BY <1>5, SnapshotType DEF SnapshotContext
  <2> QED
    BY <1>5, <2>1 DEF SnapshotContext, ZbPcs, UplinkType
<1>6. CASE DisableAfterProvisioning
  <2>1. contextBlob' \in Attempt
    BY <1>6, SnapshotType DEF DisableAfterProvisioning
  <2>2. apply' \in [Writes -> ApplyPcs] /\ UplinkType'
    BY <1>6, SupersededType, PublishStateType
    DEF DisableAfterProvisioning, UplinkType
  <2> QED
    BY <1>6, <2>1, <2>2 DEF DisableAfterProvisioning, ZbPcs
<1>7. CASE SendResponse
  <2>1. PICK r \in acks : uplink' = Append(uplink, r) /\ acks' = acks \ {r}
    BY <1>7 DEF SendResponse
  <2>2. UplinkType'
    BY <2>1, ResponseFrame DEF UplinkType
  <2> QED
    BY <1>7, <2>1, <2>2 DEF SendResponse, flash
<1>8. CASE ChallengeNotStored
  <2>1. sState' \in Secure
    BY <1>8, SecureFields, SecuredIs DEF ChallengeNotStored, SecureStates
  <2> QED
    BY <1>8, <2>1, NoResponseIs DEF ChallengeNotStored, ZbPcs, flash, UplinkType
<1>9. CASE PersistFails
  <2>1. sState' \in Secure
    BY <1>9 DEF PersistFails, Secure, SecureStates
  <2> QED
    BY <1>9, <2>1 DEF PersistFails, ZbPcs, flash, UplinkType
<1>10. ASSUME NEW m \in Command, AcceptChallenge(m)
       PROVE  EspTypeOK' /\ UplinkType'
  <2>1. m.counter \in 0..MaxHello /\ m.random \in Nat
    BY BoundsAre DEF Command
  <2>2. answer' \in Response
    BY <1>10, <2>1, ResponseIs DEF AcceptChallenge
  <2> QED
    BY <1>10, <2>2 DEF AcceptChallenge, ZbPcs, flash, UplinkType
<1>11. ASSUME NEW m, StoreProvisioning(m)
       PROVE  EspTypeOK' /\ UplinkType'
  BY <1>11, SecureFields DEF StoreProvisioning, ZbPcs, UplinkType
<1>12. ASSUME NEW m, IgnoreCommand(m)
       PROVE  EspTypeOK' /\ UplinkType'
  BY <1>12 DEF IgnoreCommand, espVars, ram, flash, UplinkType
<1> QED
  BY <1>1, <1>2, <1>3, <1>4, <1>5, <1>6, <1>7, <1>8, <1>9, <1>10, <1>11,
     <1>12 DEF ZigbeeStep, HandleCommand

LEMMA PowerType ==
    ASSUME EspTypeOK, UplinkType, FirmwareStatus \/ Reboot
    PROVE  EspTypeOK' /\ UplinkType'
<1> USE DEF EspTypeOK
<1>1. CASE FirmwareStatus
  <2>1. contextBlob' \in Attempt
    BY <1>1, CheckContextType DEF FirmwareStatus
  <2>2. UplinkType' /\ status' \in Statuses /\ checks' \in 0..MaxChecks
    BY <1>1, ProgressType, BoundsAre DEF FirmwareStatus, Statuses
  <2> QED
    BY <1>1, <2>1, <2>2 DEF FirmwareStatus
<1>2. CASE Reboot
  <2>1. sState' \in Secure
    BY <1>2, IdleSecureIs, SecuredIs, BoundsAre DEF Reboot, SecureStates
  <2> QED
    BY <1>2, <2>1, NoResponseIs
    DEF Reboot, Statuses, ApplyPcs, HelloPcs, ZbPcs, flash, UplinkType
<1> QED
  BY <1>1, <1>2

\* What Zigbee2MQTT keeps, and the histories.
OtherTypes ==
    /\ clean \in BOOLEAN /\ kept \in BOOLEAN
    /\ cached \in Seq(Frame) /\ Len(cached) <= 1

LEMMA TypeParts ==
    /\ TypeOK <=> ListenerTypeOK /\ EspTypeOK /\ UplinkType /\ OtherTypes
    /\ TypeOK' <=> ListenerTypeOK' /\ EspTypeOK' /\ UplinkType' /\ OtherTypes'
BY DEF TypeOK, UplinkType, OtherTypes

LEMMA TypeInit == Init => TypeOK
<1> SUFFICES ASSUME Init PROVE TypeOK
  OBVIOUS
<1>1. ListenerTypeOK
  BY ListenerInitType DEF Init
<1>2. EspTypeOK
  <2>1. 0 \in 0..MaxHello /\ 0 \in 0..MaxCommands /\ 0 \in 0..MaxChecks
    BY BoundsAre
  <2> QED
    BY <2>1, IdleSecureIs, NoAttemptIs, NoResponseIs
    DEF Init, EspInit, EspTypeOK, Statuses, ApplyPcs, HelloPcs, ZbPcs
<1>3. UplinkType /\ OtherTypes
  <2>1. UplinkType
    BY DEF Init, EspInit, UplinkType
  <2>2. cached \in Seq(Frame) /\ Len(cached) <= 1
    BY DEF Init
  <2>3. clean \in BOOLEAN /\ kept \in BOOLEAN
    BY DEF Init
  <2> QED
    BY <2>1, <2>2, <2>3 DEF OtherTypes
<1> QED
  BY <1>1, <1>2, <1>3, TypeParts

\* Actions that leave the listener alone.
LEMMA DeviceTypes ==
    ASSUME TypeOK, EspTypeOK' /\ UplinkType', faults' \in 0..MaxFaults,
           UNCHANGED cached, clean' \in BOOLEAN, kept' \in BOOLEAN,
           UNCHANGED listenerVars
    PROVE  TypeOK'
<1>1. ListenerTypeOK'
  BY TypeParts DEF ListenerTypeOK, listenerVars
<1>2. OtherTypes'
  BY TypeParts DEF OtherTypes
<1> QED
  BY <1>1, <1>2, TypeParts

LEMMA CleanTypes ==
    ASSUME TypeOK, KeepsClean
    PROVE  clean' \in BOOLEAN /\ kept' \in BOOLEAN
BY DEF KeepsClean, TypeOK

\* The network keeps the types (frames towards the server).
LEMMA FrameTypes ==
    ASSUME TypeOK,
           FrameArrives \/ CachedFrameArrives \/ FrameMissed \/ FrameLost
    PROVE  TypeOK'
<1>0. ListenerTypeOK /\ EspTypeOK /\ UplinkType /\ OtherTypes
  BY TypeParts
<1>1. ASSUME uplink # <<>> /\ uplink' = Tail(uplink)
      PROVE  UplinkType' /\ Head(uplink) \in Frame
  BY <1>0, <1>1 DEF UplinkType
<1>2. ASSUME UNCHANGED <<ram, flash>> PROVE EspTypeOK'
  BY <1>0, <1>2 DEF EspTypeOK, ram, flash
<1>3. CASE FrameArrives
  <2>1. UplinkType' /\ EspTypeOK' /\ Head(uplink) \in Frame
    BY <1>1, <1>2, <1>3 DEF FrameArrives
  <2>2. ListenerTypeOK'
    BY <1>0, <1>3, <2>1, MessageType, BoundsAre DEF FrameArrives
  <2>3. OtherTypes'
    BY <1>3, <2>1, CleanTypes DEF FrameArrives, OtherTypes
  <2> QED
    BY <2>1, <2>2, <2>3, TypeParts
<1>4. CASE CachedFrameArrives
  <2>1. Head(cached) \in Frame
    BY <1>0, <1>4 DEF CachedFrameArrives, OtherTypes
  <2>2. ListenerTypeOK'
    BY <1>0, <1>4, <2>1, MessageType, BoundsAre DEF CachedFrameArrives
  <2>3. EspTypeOK' /\ UplinkType' /\ OtherTypes'
    BY <1>0, <1>2, <1>4, CleanTypes
    DEF CachedFrameArrives, ListenerOnly, espVars, UplinkType, OtherTypes
  <2> QED
    BY <2>2, <2>3, TypeParts
<1>5. CASE FrameMissed
  <2>1. UplinkType' /\ EspTypeOK' /\ Head(uplink) \in Frame
    BY <1>1, <1>2, <1>5 DEF FrameMissed
  <2>2. ListenerTypeOK'
    BY <1>0, <1>5 DEF FrameMissed, ListenerTypeOK, listenerVars
  <2>3. OtherTypes'
    BY <1>5, <2>1, CleanTypes DEF FrameMissed, OtherTypes
  <2> QED
    BY <2>1, <2>2, <2>3, TypeParts
<1>6. CASE FrameLost
  <2>1. UplinkType' /\ EspTypeOK' /\ faults' \in 0..MaxFaults
    BY <1>0, <1>1, <1>2, <1>6, FaultType DEF FrameLost, ListenerTypeOK
  <2> QED
    BY <1>6, <2>1, CleanTypes, DeviceTypes DEF FrameLost, DeviceOnly
<1> QED
  BY <1>3, <1>4, <1>5, <1>6

\* ... and commands towards the device.
LEMMA CommandTypes ==
    ASSUME TypeOK, CommandArrives \/ CommandLost \/ CommandRepeated
    PROVE  TypeOK'
<1>0. ListenerTypeOK /\ EspTypeOK /\ UplinkType /\ OtherTypes
  BY TypeParts
<1>1. ASSUME downlink[Device] # <<>>
      PROVE  Head(downlink[Device]) \in Command
  BY <1>0, <1>1, BoundsAre DEF ListenerTypeOK
<1>2. ASSUME CommandTaken, UNCHANGED serverVars, faults' \in 0..MaxFaults
      PROVE  ListenerTypeOK'
  <2>1. Tail(downlink[Device]) \in Seq(Command)
    BY <1>0, <1>2, BoundsAre DEF CommandTaken, ListenerTypeOK
  <2> QED
    BY <1>0, <1>2, <2>1 DEF CommandTaken, serverVars, ListenerTypeOK
<1>3. CASE CommandArrives
  <2>1. HandleCommand(Head(downlink[Device])) /\ CommandTaken
    BY <1>3 DEF CommandArrives
  <2>2. EspTypeOK' /\ UplinkType'
    BY <1>0, <1>1, <2>1, ZigbeeType DEF CommandTaken
  <2>3. ListenerTypeOK'
    BY <1>0, <1>2, <1>3 DEF CommandArrives, ListenerTypeOK
  <2>4. OtherTypes'
    BY <1>0, <1>3, CleanTypes DEF CommandArrives, OtherTypes
  <2> QED
    BY <2>2, <2>3, <2>4, TypeParts
<1>4. CASE CommandLost
  <2>1. ListenerTypeOK'
    BY <1>0, <1>2, <1>4, FaultType DEF CommandLost, ListenerTypeOK
  <2>2. EspTypeOK' /\ UplinkType' /\ OtherTypes'
    BY <1>0, <1>4, CleanTypes
    DEF CommandLost, ListenerOnly, espVars, ram, flash, EspTypeOK, UplinkType,
        OtherTypes
  <2> QED
    BY <2>1, <2>2, TypeParts
<1>5. CASE CommandRepeated
  <2>1. EspTypeOK' /\ UplinkType'
    BY <1>0, <1>1, <1>5, ZigbeeType DEF CommandRepeated
  <2>2. faults' \in 0..MaxFaults
    BY <1>0, <1>5, FaultType DEF CommandRepeated, ListenerTypeOK
  <2> QED
    BY <1>5, <2>1, <2>2, CleanTypes, DeviceTypes DEF CommandRepeated, DeviceOnly
<1> QED
  BY <1>3, <1>4, <1>5

\* The tasks of the device, its faults and its timer.
LEMMA TaskTypes ==
    ASSUME TypeOK,
           \/ \E on \in BOOLEAN : User(on)
           \/ \E n \in Writes : ApplyTask(n)
           \/ HelloTask \/ ZigbeeTask \/ AckTask \/ ReportTask \/ CheckTask
           \/ HelloTimesOut \/ DeviceFault
    PROVE  TypeOK'
<1>0. ListenerTypeOK /\ EspTypeOK /\ UplinkType /\ OtherTypes
  BY TypeParts
<1>1. ASSUME NEW on \in BOOLEAN, User(on) PROVE TypeOK'
  <2>1. EspTypeOK' /\ UplinkType'
    BY <1>0, <1>1, ApplyType DEF User
  <2>2. clean' \in BOOLEAN /\ kept' \in BOOLEAN /\ faults' \in 0..MaxFaults
    BY <1>0, <1>1 DEF User, ListenerTypeOK
  <2> QED
    BY <1>1, <2>1, <2>2, DeviceTypes DEF User
<1>2. ASSUME EspTypeOK' /\ UplinkType', UNCHANGED faults \/ Fault, DeviceOnly
      PROVE  TypeOK'
  <2>1. faults' \in 0..MaxFaults
    BY <1>0, <1>2, FaultType DEF ListenerTypeOK
  <2> QED
    BY <1>2, <2>1, CleanTypes, DeviceTypes DEF DeviceOnly
<1>3. ASSUME NEW n \in Writes, ApplyTask(n) PROVE TypeOK'
  BY <1>0, <1>2, <1>3, ApplyType DEF ApplyTask
<1>4. CASE HelloTask \/ HelloTimesOut
  BY <1>0, <1>2, <1>4, HelloType DEF HelloTask, HelloTimesOut
<1>5. CASE ZigbeeTask \/ AckTask
  BY <1>0, <1>2, <1>5, ZigbeeType DEF ZigbeeTask, AckTask
<1>6. CASE ReportTask
  BY <1>0, <1>2, <1>6, ApplyType DEF ReportTask
<1>7. CASE CheckTask
  BY <1>0, <1>2, <1>7, PowerType DEF CheckTask
<1>8. CASE DeviceFault
  BY <1>0, <1>2, <1>8, HelloType, ZigbeeType, PowerType DEF DeviceFault
<1> QED
  BY <1>1, <1>3, <1>4, <1>5, <1>6, <1>7, <1>8

\* The listener's threads and process, its timer, and Firmware publishing.
LEMMA ServerTypes ==
    ASSUME TypeOK,
           \/ SessionTimesOut \/ SlowFrames
           \/ MqttThread \/ TimeoutThread \/ ListenerProcess \/ FirmwarePublish
    PROVE  TypeOK'
<1>0. ListenerTypeOK /\ EspTypeOK /\ UplinkType /\ OtherTypes
  BY TypeParts
<1>1. ASSUME ListenerTypeOK', ListenerOnly PROVE TypeOK'
  <2>1. EspTypeOK' /\ UplinkType' /\ OtherTypes'
    BY <1>0, <1>1, CleanTypes
    DEF ListenerOnly, espVars, ram, flash, EspTypeOK, UplinkType, OtherTypes
  <2> QED
    BY <1>1, <2>1, TypeParts
<1>2. CASE SessionTimesOut
  <2>1. ListenerTypeOK'
    BY <1>0, <1>2, ExpireType, BoundsAre DEF SessionTimesOut, ListenerTypeOK
  <2> QED
    BY <1>1, <1>2, <2>1 DEF SessionTimesOut
<1>3. CASE SlowFrames
  <2>1. faults' \in 0..MaxFaults
    BY <1>0, <1>3, FaultType DEF SlowFrames, ListenerTypeOK
  <2>2. CASE HelloElapsed /\ DeviceOnly
    <3>1. EspTypeOK' /\ UplinkType'
      BY <1>0, <2>2, HelloType
    <3> QED
      BY <2>1, <2>2, <3>1, CleanTypes, DeviceTypes DEF DeviceOnly
  <2>3. CASE ExpireSessions({Device}) /\ ListenerOnly
    <3>1. ListenerTypeOK'
      BY <1>0, <2>1, <2>3, ExpireType, BoundsAre
    <3> QED
      BY <1>1, <2>3, <3>1
  <2> QED
    BY <1>3, <2>2, <2>3 DEF SlowFrames
<1>4. CASE MqttThread
  BY <1>0, <1>1, <1>4, JobType, BoundsAre DEF MqttThread
<1>5. CASE TimeoutThread
  BY <1>0, <1>1, <1>5, TimeoutType DEF TimeoutThread
<1>6. CASE ListenerProcess
  BY <1>0, <1>1, <1>6, TimeoutType, ProcessType DEF ListenerProcess
<1>7. CASE FirmwarePublish
  BY <1>0, <1>1, <1>7, CertificateType, BoundsAre DEF FirmwarePublish
<1> QED
  BY <1>2, <1>3, <1>4, <1>5, <1>6, <1>7

LEMMA TypeNext == TypeOK /\ [Next]_vars => TypeOK'
<1> SUFFICES ASSUME TypeOK, [Next]_vars PROVE TypeOK'
  OBVIOUS
<1>1. CASE UNCHANGED vars
  BY <1>1
  DEF vars, listenerVars, espVars, ram, flash, TypeOK, ListenerTypeOK, EspTypeOK
<1> QED
  BY <1>1, FrameTypes, CommandTypes, TaskTypes, ServerTypes DEF Next

\* Every variable of the device, of the listener and of the network between
\* them stays in its set.
THEOREM HandshakeTypes == Spec => []TypeOK
BY TypeInit, TypeNext, PTL DEF Spec

-----------------------------------------------------------------------------
(* The inductive invariant *)

Pend == sessions[Device]
TheJob == job[Device]
Heard == helloCounter[Device]
Saved == context[Device]

\* The place of the last challenge among all challenges.
Now == nonce - 1

\* An attempt is pending at the listener.
Under == Pend.state # "IDLE"

\* The frames that may still reach the listener, and the commands that may
\* still reach the device.
Frames == {uplink[i] : i \in DOMAIN uplink} \cup {cached[i] : i \in DOMAIN cached}
Commands == {downlink[Device][i] : i \in DOMAIN downlink[Device]}

\* Frame g comes to the listener after frame f.
Follows(f, g) ==
    \/ \E i, k \in DOMAIN uplink : i < k /\ uplink[i] = f /\ uplink[k] = g
    \/ \E i \in DOMAIN cached, k \in DOMAIN uplink : cached[i] = f /\ uplink[k] = g

\* Only R carries a challenge, only T ends an attempt, and H is the device's.
FrameInv ==
    \A f \in Frames :
        /\ f.random <= Now
        /\ f.done => f.kind = "T"
        /\ f.kind # "R" => f.random = 0
        /\ f.kind = "H" => f.key = DeviceKey

\* No H counter that the listener has or may get is above b.
Bounded(b) ==
    /\ Heard <= b
    /\ TheJob.pc = "accept" => TheJob.session.counter <= b
    /\ \A f \in Frames : f.kind = "H" => f.counter <= b

\* The session of the device is that of its last H, or of none.
HeardInv ==
    /\ Bounded(enrollCounter)
    /\ sState.counter # 0 => Bounded(sState.counter)

Waits == {"WAIT_CHALLENGE", "WAIT_PROVISIONING"}

\* A session that waits is newer than the configuration installed.
DeviceInv ==
    /\ sState.counter <= enrollCounter /\ provBlob.counter <= enrollCounter
    /\ sState.state = "IDLE" => sState.counter = 0
    /\ hello = "enter" => /\ sState.counter < enrollCounter
                          /\ provBlob.counter < enrollCounter
    /\ hello = "send" => sState.counter \in {0, enrollCounter}
    /\ zb = "answer" => sState.state \in {"IDLE", "WAIT_CHALLENGE"}
    /\ sState.state \in Waits /\ zb # "persist" /\ sState.counter # 0
          => provBlob.counter < sState.counter

\* Until the device has its certificate, no H is accepted.
CertInv == certKey[Device] # DeviceKey => nonce = 1 /\ TheJob.pc = "idle"

\* What is pending is the attempt challenged last, and has not been saved.
PendInv ==
    /\ 1 <= nonce
    /\ Saved.random <= Now /\ provBlob.random <= Now
    /\ Under => /\ Pend.random = Now /\ Saved.random < Now
                /\ 1 <= Pend.counter /\ Pend.counter <= Heard
    /\ ~Under => Pend = NoSession

Draws == {"accept", "record_h", "open"}
Tends == {"send_a", "record_a", "record_r", "recheck", "send_p", "record_p",
          "save", "record_done", "failed"}

\* So is what the MQTT thread is busy with, from the challenge on.
JobInv ==
    /\ TheJob.pc \in Draws => 1 <= TheJob.session.counter
    /\ TheJob.pc \in {"record_h", "open"} => TheJob.session.counter = Heard
    /\ TheJob.pc \in Tends => /\ TheJob.session.random = Now /\ 1 < nonce
                              /\ 1 <= TheJob.session.counter
                              /\ TheJob.session.counter <= Heard
    /\ TheJob.pc = "save" => Saved.random < Now /\ ~Under

\* Commands of earlier attempts have lower counters.
CommandInv ==
    \A m \in Commands :
        /\ 1 <= m.random /\ m.random <= Now
        /\ 1 <= m.counter /\ m.counter <= Heard
        /\ m.random < Now \/ TheJob.pc \in {"record_h", "open"}
              => m.counter < Heard

\* c is the counter of the last attempt wherever that attempt is named.
LatestIs(c) ==
    /\ \A m \in Commands : m.random = Now => m.counter = c
    /\ Under => Pend.counter = c
    /\ TheJob.pc \in Tends => TheJob.session.counter = c
    /\ 1 < nonce /\ provBlob.random = Now => provBlob.counter = c

LatestInv == \E c \in 0..MaxCounter : LatestIs(c)

AnswerInv == answer.random <= Now /\ \A r \in acks : r.random <= Now

\* The device has installed the attempt that is pending.
Held == provBlob = [counter |-> Pend.counter, random |-> Pend.random]

\* The listener has the device's R, or the device has at least signed it.
Consumed ==
    Pend.state = "PROVISIONING_SENT" \/ TheJob.pc \in {"record_r", "recheck"}
Answered ==
    \/ Consumed
    \/ answer.random = Now
    \/ \E r \in acks : r.random = Now
    \/ \E f \in Frames : f.random = Now

\* The Zigbee task is on its way from the configuration to the report.
Concluding == {"persist", "status", "publish", "snapshot", "disable"}

\* Once the device has accepted the challenge it cannot report completion
\* before it has installed the attempt, and no earlier report can come in
\* behind its R.
ReportInv ==
    kept /\ Under /\ ~Held =>
        /\ Answered => (enable \/ status # "complete") /\ zb \notin Concluding
        /\ Consumed => \A f \in Frames : ~f.done
        /\ \A f, g \in Frames : Follows(f, g) /\ f.random = Now => ~g.done

SaveInv ==
    kept /\ TheJob.pc = "save" =>
        provBlob = [counter |-> TheJob.session.counter,
                    random |-> TheJob.session.random]

HandshakeInv ==
    /\ TypeOK
    /\ FrameInv /\ HeardInv /\ DeviceInv
    /\ CertInv /\ PendInv /\ JobInv
    /\ CommandInv /\ LatestInv /\ AnswerInv
    /\ ReportInv /\ SaveInv

-----------------------------------------------------------------------------
(* What the parts of the state are, now and after the step *)

LEMMA SeqElement ==
    ASSUME NEW S, NEW q \in Seq(S), NEW i \in DOMAIN q
    PROVE  q[i] \in S
OBVIOUS

LEMMA CommandFields ==
    \A m \in Command : m.counter \in 0..MaxCounter /\ m.random \in Nat
BY DEF Command

LEMMA FrameFields ==
    \A f \in Frame : f.counter \in Nat /\ f.random \in Nat
BY DEF Frame

FieldsTyped ==
    /\ nonce \in Nat /\ Heard \in Nat /\ enrollCounter \in Nat
    /\ Pend \in Session /\ Pend.counter \in 0..MaxCounter /\ Pend.random \in Nat
    /\ TheJob \in Job /\ TheJob.session \in Session
    /\ TheJob.session.counter \in 0..MaxCounter /\ TheJob.session.random \in Nat
    /\ Saved \in Context /\ Saved.random \in Nat
    /\ provBlob \in Attempt
    /\ provBlob.counter \in Nat /\ provBlob.random \in Nat
    /\ sState \in Secure /\ sState.counter \in Nat
    /\ answer \in Response /\ answer.random \in Nat
    /\ acks \subseteq Response
    /\ \A f \in Frames : f \in Frame /\ f.counter \in Nat /\ f.random \in Nat
    /\ \A m \in Commands : /\ m \in Command
                           /\ m.counter \in 0..MaxCounter /\ m.random \in Nat

LEMMA FieldsAreTyped ==
    /\ TypeOK => FieldsTyped
    /\ TypeOK' => FieldsTyped'
<1>1. TypeOK => FieldsTyped
  <2> SUFFICES ASSUME TypeOK PROVE FieldsTyped
    OBVIOUS
  <2>0. Device \in Devices
    BY BoundsAre
  <2>1. /\ nonce \in Nat /\ Heard \in Nat
        /\ Pend \in Session /\ TheJob \in Job /\ Saved \in Context
    BY <2>0 DEF TypeOK, ListenerTypeOK, Heard, Pend, TheJob, Saved
  <2>2. /\ enrollCounter \in Nat /\ provBlob \in Attempt /\ sState \in Secure
        /\ answer \in Response /\ acks \subseteq Response
    BY DEF TypeOK, EspTypeOK
  <2>3. /\ Pend.counter \in 0..MaxCounter /\ Pend.random \in Nat
        /\ TheJob.session \in Session
        /\ TheJob.session.counter \in 0..MaxCounter
        /\ TheJob.session.random \in Nat
        /\ Saved.random \in Nat
    BY <2>1 DEF Session, Job, Context
  <2>4. /\ provBlob.counter \in Nat /\ provBlob.random \in Nat
        /\ sState.counter \in Nat /\ answer.random \in Nat
    BY <2>2 DEF Attempt, Secure, Response
  <2>5. \A f \in Frames : f \in Frame /\ f.counter \in Nat /\ f.random \in Nat
    <3>1. uplink \in Seq(Frame) /\ cached \in Seq(Frame)
      BY DEF TypeOK
    <3>2. \A f \in Frames : f \in Frame
      BY <3>1, SeqElement DEF Frames
    <3> QED
      BY <3>2, FrameFields
  <2>6. downlink[Device] \in Seq(Command)
    BY <2>0 DEF TypeOK, ListenerTypeOK
  <2>7. \A m \in Commands : /\ m \in Command
                            /\ m.counter \in 0..MaxCounter /\ m.random \in Nat
    <3>1. \A m \in Commands : m \in Command
      BY <2>6, SeqElement DEF Commands
    <3> QED
      BY <3>1, CommandFields
  <2> QED
    BY <2>1, <2>2, <2>3, <2>4, <2>5, <2>7 DEF FieldsTyped
<1>2. TypeOK' => FieldsTyped'
  <2> SUFFICES ASSUME TypeOK' PROVE FieldsTyped'
    OBVIOUS
  <2>0. Device \in Devices
    BY BoundsAre
  <2>1. /\ nonce' \in Nat /\ Heard' \in Nat
        /\ Pend' \in Session /\ TheJob' \in Job /\ Saved' \in Context
    BY <2>0 DEF TypeOK, ListenerTypeOK, Heard, Pend, TheJob, Saved
  <2>2. /\ enrollCounter' \in Nat /\ provBlob' \in Attempt /\ sState' \in Secure
        /\ answer' \in Response /\ acks' \subseteq Response
    BY DEF TypeOK, EspTypeOK
  <2>3. /\ Pend'.counter \in 0..MaxCounter /\ Pend'.random \in Nat
        /\ TheJob'.session \in Session
        /\ TheJob'.session.counter \in 0..MaxCounter
        /\ TheJob'.session.random \in Nat
        /\ Saved'.random \in Nat
    BY <2>1 DEF Session, Job, Context
  <2>4. /\ provBlob'.counter \in Nat /\ provBlob'.random \in Nat
        /\ sState'.counter \in Nat /\ answer'.random \in Nat
    BY <2>2 DEF Attempt, Secure, Response
  <2>5. \A f \in Frames' : f \in Frame /\ f.counter \in Nat /\ f.random \in Nat
    <3>1. uplink' \in Seq(Frame) /\ cached' \in Seq(Frame)
      BY DEF TypeOK
    <3>2. \A f \in Frames' : f \in Frame
      BY <3>1, SeqElement DEF Frames
    <3> QED
      BY <3>2, FrameFields
  <2>6. downlink'[Device] \in Seq(Command)
    BY <2>0 DEF TypeOK, ListenerTypeOK
  <2>7. \A m \in Commands' : /\ m \in Command
                             /\ m.counter \in 0..MaxCounter /\ m.random \in Nat
    <3>1. \A m \in Commands' : m \in Command
      BY <2>6, SeqElement DEF Commands
    <3> QED
      BY <3>1, CommandFields
  <2> QED
    BY <2>1, <2>2, <2>3, <2>4, <2>5, <2>7 DEF FieldsTyped
<1> QED
  BY <1>1, <1>2

-----------------------------------------------------------------------------
(* Frames and commands on their way *)

\* A frame sent goes to the end.
LEMMA FrameSent ==
    ASSUME TypeOK, UNCHANGED cached, NEW e \in Frame,
           uplink' = Append(uplink, e)
    PROVE  /\ Frames' = Frames \cup {e}
           /\ \A f \in Frame, g \in Frame :
                 Follows(f, g)' => Follows(f, g) \/ (f \in Frames /\ g = e)
<1>0. uplink \in Seq(Frame) /\ cached \in Seq(Frame)
  BY DEF TypeOK
<1>1. /\ DOMAIN uplink' = 1..(Len(uplink) + 1) /\ DOMAIN uplink = 1..Len(uplink)
      /\ Len(uplink) \in Nat
      /\ \A i \in 1..Len(uplink) : uplink'[i] = uplink[i]
      /\ uplink'[Len(uplink) + 1] = e
  BY <1>0
<1>2. Frames' = Frames \cup {e}
  <2>1. Frames' \subseteq Frames \cup {e}
    BY <1>1 DEF Frames
  <2>2. Frames \cup {e} \subseteq Frames'
    BY <1>1 DEF Frames
  <2> QED
    BY <2>1, <2>2
<1>3. ASSUME NEW f \in Frame, NEW g \in Frame, Follows(f, g)'
      PROVE  Follows(f, g) \/ (f \in Frames /\ g = e)
  <2>1. CASE \E i, k \in DOMAIN uplink' :
                i < k /\ uplink'[i] = f /\ uplink'[k] = g
    <3>1. PICK i \in DOMAIN uplink', k \in DOMAIN uplink' :
             i < k /\ uplink'[i] = f /\ uplink'[k] = g
      BY <2>1
    <3>2. i \in DOMAIN uplink /\ uplink[i] = f
      BY <1>1, <3>1
    <3>3. CASE k \in DOMAIN uplink
      BY <1>1, <3>1, <3>2, <3>3 DEF Follows
    <3>4. CASE k \notin DOMAIN uplink
      <4>1. g = e
        BY <1>1, <3>1, <3>4
      <4> QED
        BY <3>2, <4>1 DEF Frames
    <3> QED
      BY <3>3, <3>4
  <2>2. CASE \E i \in DOMAIN cached, k \in DOMAIN uplink' :
                cached[i] = f /\ uplink'[k] = g
    <3>1. PICK i \in DOMAIN cached, k \in DOMAIN uplink' :
             cached[i] = f /\ uplink'[k] = g
      BY <2>2
    <3>2. CASE k \in DOMAIN uplink
      BY <1>1, <3>1, <3>2 DEF Follows
    <3>3. CASE k \notin DOMAIN uplink
      <4>1. g = e
        BY <1>1, <3>1, <3>3
      <4> QED
        BY <3>1, <4>1 DEF Frames
    <3> QED
      BY <3>2, <3>3
  <2> QED
    BY <1>3, <2>1, <2>2 DEF Follows
<1> QED
  BY <1>2, <1>3

\* The frames of the way after it are among those before it, in their order.
Thinned ==
    /\ Frames' \subseteq Frames
    /\ \A f \in Frame, g \in Frame : Follows(f, g)' => Follows(f, g)

LEMMA FrameShifts ==
    ASSUME TypeOK, uplink # <<>>, uplink' = Tail(uplink),
           cached' = <<Head(uplink)>>
    PROVE  /\ Thinned
           /\ Head(uplink) \in Frames
           /\ \A g \in Frames' : g = Head(uplink) \/ Follows(Head(uplink), g)
<1>0. uplink \in Seq(Frame) /\ cached \in Seq(Frame)
  BY DEF TypeOK
<1>1. /\ Len(uplink) \in Nat /\ 1 <= Len(uplink)
      /\ DOMAIN uplink = 1..Len(uplink)
      /\ DOMAIN uplink' = 1..(Len(uplink) - 1)
      /\ \A i \in 1..(Len(uplink) - 1) : uplink'[i] = uplink[i + 1]
      /\ DOMAIN cached' = {1} /\ cached'[1] = uplink[1]
      /\ Head(uplink) = uplink[1]
  BY <1>0
<1>2. Frames' \subseteq Frames
  BY <1>1 DEF Frames
<1>3. ASSUME NEW f \in Frame, NEW g \in Frame, Follows(f, g)'
      PROVE  Follows(f, g)
  <2>1. CASE \E i, k \in DOMAIN uplink' :
                i < k /\ uplink'[i] = f /\ uplink'[k] = g
    <3>1. PICK i \in DOMAIN uplink', k \in DOMAIN uplink' :
             i < k /\ uplink'[i] = f /\ uplink'[k] = g
      BY <2>1
    <3>2. /\ i + 1 \in DOMAIN uplink /\ k + 1 \in DOMAIN uplink
          /\ i + 1 < k + 1 /\ uplink[i + 1] = f /\ uplink[k + 1] = g
      BY <1>1, <3>1
    <3> QED
      BY <3>2 DEF Follows
  <2>2. CASE \E i \in DOMAIN cached', k \in DOMAIN uplink' :
                cached'[i] = f /\ uplink'[k] = g
    <3>1. PICK k \in DOMAIN uplink' : cached'[1] = f /\ uplink'[k] = g
      BY <1>1, <2>2
    <3>2. /\ 1 \in DOMAIN uplink /\ k + 1 \in DOMAIN uplink
          /\ 1 < k + 1 /\ uplink[1] = f /\ uplink[k + 1] = g
      BY <1>1, <3>1
    <3> QED
      BY <3>2 DEF Follows
  <2> QED
    BY <1>3, <2>1, <2>2 DEF Follows
<1>4. ASSUME NEW g \in Frames'
      PROVE  g = Head(uplink) \/ Follows(Head(uplink), g)
  <2>1. CASE \E i \in DOMAIN uplink' : g = uplink'[i]
    <3>1. PICK i \in DOMAIN uplink' : g = uplink'[i]
      BY <2>1
    <3>2. /\ 1 \in DOMAIN uplink /\ i + 1 \in DOMAIN uplink /\ 1 < i + 1
          /\ uplink[1] = Head(uplink) /\ uplink[i + 1] = g
      BY <1>1, <3>1
    <3> QED
      BY <3>2 DEF Follows
  <2>2. CASE \E i \in DOMAIN cached' : g = cached'[i]
    BY <1>1, <2>2
  <2> QED
    BY <1>4, <2>1, <2>2 DEF Frames
<1>5. Head(uplink) \in Frames
  BY <1>1 DEF Frames
<1> QED
  BY <1>2, <1>3, <1>4, <1>5 DEF Thinned

LEMMA FrameDrops ==
    ASSUME TypeOK, uplink # <<>>, uplink' = Tail(uplink), UNCHANGED cached
    PROVE  Thinned
<1>0. uplink \in Seq(Frame) /\ cached \in Seq(Frame)
  BY DEF TypeOK
<1>1. /\ Len(uplink) \in Nat /\ 1 <= Len(uplink)
      /\ DOMAIN uplink = 1..Len(uplink)
      /\ DOMAIN uplink' = 1..(Len(uplink) - 1)
      /\ \A i \in 1..(Len(uplink) - 1) : uplink'[i] = uplink[i + 1]
  BY <1>0
<1>2. Frames' \subseteq Frames
  BY <1>1 DEF Frames
<1>3. ASSUME NEW f \in Frame, NEW g \in Frame, Follows(f, g)'
      PROVE  Follows(f, g)
  <2>1. CASE \E i, k \in DOMAIN uplink' :
                i < k /\ uplink'[i] = f /\ uplink'[k] = g
    <3>1. PICK i \in DOMAIN uplink', k \in DOMAIN uplink' :
             i < k /\ uplink'[i] = f /\ uplink'[k] = g
      BY <2>1
    <3>2. /\ i + 1 \in DOMAIN uplink /\ k + 1 \in DOMAIN uplink
          /\ i + 1 < k + 1 /\ uplink[i + 1] = f /\ uplink[k + 1] = g
      BY <1>1, <3>1
    <3> QED
      BY <3>2 DEF Follows
  <2>2. CASE \E i \in DOMAIN cached', k \in DOMAIN uplink' :
                cached'[i] = f /\ uplink'[k] = g
    <3>1. PICK i \in DOMAIN cached, k \in DOMAIN uplink' :
             cached[i] = f /\ uplink'[k] = g
      BY <2>2
    <3>2. k + 1 \in DOMAIN uplink /\ uplink[k + 1] = g
      BY <1>1, <3>1
    <3> QED
      BY <3>1, <3>2 DEF Follows
  <2> QED
    BY <1>3, <2>1, <2>2 DEF Follows
<1> QED
  BY <1>2, <1>3 DEF Thinned

LEMMA FramesStay ==
    ASSUME UNCHANGED <<uplink, cached>>
    PROVE  Thinned /\ Frames' = Frames
BY DEF Thinned, Frames, Follows

\* A republished frame comes before all others of the way.
LEMMA CachedFirst ==
    ASSUME TypeOK, cached # <<>>
    PROVE  /\ Head(cached) \in Frames
           /\ \A g \in Frames : g = Head(cached) \/ Follows(Head(cached), g)
<1>0. cached \in Seq(Frame) /\ Len(cached) <= 1
  BY DEF TypeOK
<1>a. Len(cached) \in Nat /\ 1 <= Len(cached) /\ DOMAIN cached = 1..Len(cached)
  BY <1>0
<1>b. Len(cached) = 1 /\ 1..1 = {1}
  BY <1>0, <1>a
<1>1. DOMAIN cached = {1} /\ Head(cached) = cached[1]
  BY <1>0, <1>a, <1>b
<1> QED
  BY <1>1 DEF Frames, Follows

LEMMA CommandTakenLeaves ==
    ASSUME TypeOK, CommandTaken
    PROVE  Head(downlink[Device]) \in Commands /\ Commands' \subseteq Commands
<1>1. downlink[Device] \in Seq(Command)
  BY BoundsAre DEF TypeOK, ListenerTypeOK
<1>2. downlink'[Device] = Tail(downlink[Device]) /\ downlink[Device] # <<>>
  BY BoundsAre DEF CommandTaken, TypeOK, ListenerTypeOK
<1> DEFINE q == downlink[Device]
<1>3. /\ Len(q) \in Nat /\ 1 <= Len(q) /\ DOMAIN q = 1..Len(q)
      /\ DOMAIN Tail(q) = 1..(Len(q) - 1) /\ Head(q) = q[1]
      /\ \A i \in 1..(Len(q) - 1) : Tail(q)[i] = q[i + 1]
  BY <1>1, <1>2
<1> HIDE DEF q
<1>4. Commands = {q[i] : i \in DOMAIN q}
  BY DEF Commands, q
<1>5. Commands' = {Tail(q)[i] : i \in DOMAIN Tail(q)}
  BY <1>2 DEF Commands, q
<1>6. Head(q) \in Commands /\ Commands' \subseteq Commands
  BY <1>3, <1>4, <1>5
<1> QED
  BY <1>6 DEF q

LEMMA CommandPublished ==
    ASSUME TypeOK, NEW kind \in {"A", "P"}, NEW s \in Session,
           Publish(Device, kind, s)
    PROVE  \A m \in Commands' :
              \/ m \in Commands
              \/ m.counter = s.counter /\ m.random = s.random
<1> DEFINE e == [kind |-> kind, counter |-> s.counter, random |-> s.random,
                 key |-> s.key]
           q == downlink[Device]
<1>1. q \in Seq(Command) /\ e \in Command
  BY BoundsAre DEF TypeOK, ListenerTypeOK, Command, Session
<1>2. downlink'[Device] = Append(q, e)
  BY BoundsAre DEF Publish, TypeOK, ListenerTypeOK
<1>3. e.counter = s.counter /\ e.random = s.random
  OBVIOUS
<1>4. Commands = {q[i] : i \in DOMAIN q}
  BY DEF Commands
<1>5. Commands' = {Append(q, e)[i] : i \in DOMAIN Append(q, e)}
  BY <1>2 DEF Commands
<1> HIDE DEF e, q
<1>6. /\ DOMAIN q = 1..Len(q) /\ Len(q) \in Nat
      /\ DOMAIN Append(q, e) = 1..(Len(q) + 1)
      /\ \A i \in 1..Len(q) : Append(q, e)[i] = q[i]
      /\ Append(q, e)[Len(q) + 1] = e
  BY <1>1
<1> QED
  BY <1>3, <1>4, <1>5, <1>6

-----------------------------------------------------------------------------
(* What the device's own steps do *)

\* T|0|42 may be the next frame.
CanFinish == zb \in Concluding \/ (~enable /\ status = "complete")

Sendable(f) ==
    /\ f.done => f.kind = "T" /\ CanFinish
    /\ f.kind # "R" => f.random = 0
    /\ f.kind = "R" => f \in acks
    /\ f.kind = "H" => /\ f.key = DeviceKey
                       /\ f.counter = enrollCounter /\ hello = "send"
                       /\ UNCHANGED <<sState, enrollCounter>>

Sends == \/ uplink' = uplink
         \/ \E f \in Frame : Sendable(f) /\ uplink' = Append(uplink, f)

\* The configuration stays, and the session is of its counter, of none, or of
\* the newest.
SecureEffect ==
    /\ provBlob' = provBlob
    /\ enrollCounter <= enrollCounter'
    /\ sState'.counter \in {0, sState.counter, enrollCounter'}

\* No new answer, and no completion that was not under way.
ReportEffect ==
    /\ answer'.random \in {0, answer.random}
    /\ acks' \subseteq acks \cup {answer}
    /\ zb' \in Concluding => zb \in Concluding
    /\ CanFinish' => CanFinish
    /\ Sends

Effect == SecureEffect /\ DeviceInv' /\ ReportEffect

LEMMA ControlSends ==
    ASSUME NEW en \in BOOLEAN, NEW st, PublishState(en, st),
           ~en /\ st = "complete" => CanFinish
    PROVE  Sends
<1> DEFINE f == ControlState(en, st)
<1>1. f \in Frame
  BY ControlFrame
<1>2. f.kind = "T" /\ f.random = 0 /\ (f.done <=> ~en /\ st = "complete")
  BY DEF ControlState
<1>3. uplink' = Append(uplink, f)
  BY DEF PublishState
<1> HIDE DEF f
<1>4. Sendable(f)
  BY <1>2 DEF Sendable
<1> QED
  BY <1>1, <1>3, <1>4 DEF Sends

LEMMA ProgressSends ==
    ASSUME enable \in BOOLEAN, NEW new, new # "complete", ReportProgress(new)
    PROVE  Sends /\ status' = new
<1>1. CASE status = new
  BY <1>1 DEF ReportProgress, Sends
<1>2. CASE status # new
  BY <1>2, ControlSends DEF ReportProgress
<1> QED
  BY <1>1, <1>2

LEMMA FailureSends ==
    ASSUME enable \in BOOLEAN, NEW new \in {"error", "timeout"},
           ReportFailure(new), zb' = zb
    PROVE  Sends /\ (CanFinish' => CanFinish)
<1>1. CASE status = new
  BY <1>1 DEF ReportFailure, Sends, CanFinish
<1>2. CASE status # new
  <2>1. status' = new /\ PublishState(FALSE, new)
    BY <1>2 DEF ReportFailure, ChangeStatus
  <2>2. Sends
    BY <2>1, ControlSends
  <2> QED
    BY <2>1, <2>2 DEF CanFinish
<1> QED
  BY <1>1, <1>2

LEMMA ApplyReports ==
    ASSUME TypeOK, (\E n \in Writes : ApplyStep(n)) \/ InitialReport
    PROVE  ReportEffect
<1>0. enable \in BOOLEAN
  BY DEF TypeOK, EspTypeOK
<1>1. ASSUME NEW n \in Writes, ApplyStarts(n) PROVE ReportEffect
  <2>1. Sends
    BY <1>0, <1>1, ControlSends DEF ApplyStarts, CanFinish
  <2> QED
    BY <1>1, <2>1 DEF ApplyStarts, ReportEffect, CanFinish
<1>2. ASSUME NEW n \in Writes, ApplyOn(n) \/ ApplyOff(n) PROVE ReportEffect
  BY <1>2 DEF ApplyOn, ApplyOff, ReportEffect, CanFinish, Sends
<1>3. ASSUME NEW n \in Writes, ApplySchedule(n) PROVE ReportEffect
  <2>1. Sends /\ status' = "started"
    BY <1>0, <1>3, ProgressSends DEF ApplySchedule
  <2> QED
    BY <1>3, <2>1 DEF ApplySchedule, ReportEffect, CanFinish
<1>4. CASE InitialReport
  <2>1. Sends
    BY <1>4, ControlSends DEF InitialReport
  <2> QED
    BY <1>4, <2>1 DEF InitialReport, ReportEffect, CanFinish
<1> QED
  BY <1>1, <1>2, <1>3, <1>4 DEF ApplyStep

LEMMA ApplySecures ==
    ASSUME TypeOK, DeviceInv,
           (\E n \in Writes : ApplyStep(n)) \/ InitialReport
    PROVE  SecureEffect /\ DeviceInv'
<1>0. FieldsTyped
  BY FieldsAreTyped
<1>1. ASSUME NEW n \in Writes, ApplyStarts(n)
      PROVE  SecureEffect /\ DeviceInv'
  BY <1>0, <1>1 DEF ApplyStarts, flash, SecureEffect, DeviceInv, FieldsTyped
<1>2. ASSUME NEW n \in Writes, ApplyOn(n) \/ ApplyOff(n)
      PROVE  SecureEffect /\ DeviceInv'
  BY <1>0, <1>2
  DEF ApplyOn, ApplyOff, ResetForRetry, IdleSecure, Secured, Waits,
      SecureEffect, DeviceInv, FieldsTyped
<1>3. ASSUME NEW n \in Writes, ApplySchedule(n)
      PROVE  SecureEffect /\ DeviceInv'
  BY <1>0, <1>3 DEF ApplySchedule, flash, SecureEffect, DeviceInv, FieldsTyped
<1>4. CASE InitialReport
  BY <1>0, <1>4
  DEF InitialReport, flash, SecureEffect, DeviceInv, FieldsTyped
<1> QED
  BY <1>1, <1>2, <1>3, <1>4 DEF ApplyStep

LEMMA HelloReports ==
    ASSUME TypeOK, HelloStep \/ HelloElapsed \/ HelloFails
    PROVE  ReportEffect
<1>0. enable \in BOOLEAN /\ enrollCounter \in 0..MaxHello
  BY DEF TypeOK, EspTypeOK
<1>1. CASE HelloBegin
  <2>1. CASE enable
    <3>1. Sends /\ status' = "started"
      BY <1>0, <1>1, <2>1, ProgressSends DEF HelloBegin
    <3> QED
      BY <1>1, <3>1 DEF HelloBegin, ReportEffect, CanFinish
  <2>2. CASE ~enable
    BY <1>1, <2>2 DEF HelloBegin, ReportEffect, CanFinish, Sends
  <2> QED
    BY <2>1, <2>2
<1>2. CASE \/ HelloDraw \/ HelloEnter \/ HelloStop \/ HelloElapsed
           \/ HelloJudge \/ HelloDone
  BY <1>2
  DEF HelloDraw, HelloEnter, HelloStop, HelloElapsed, HelloJudge, HelloDone,
      ReportEffect, CanFinish, Sends
<1>3. CASE HelloSend
  <2> DEFINE f == SignedHello(enrollCounter)
  <2>1. f \in Frame
    BY <1>0, HelloFrame
  <2>2. /\ f.kind = "H" /\ f.random = 0 /\ f.done = FALSE
        /\ f.key = DeviceKey /\ f.counter = enrollCounter
    BY DEF SignedHello
  <2> HIDE DEF f
  <2>3. Sendable(f)
    BY <1>3, <2>2 DEF Sendable, HelloSend, flash
  <2>4. uplink' = Append(uplink, f)
    BY <1>3 DEF HelloSend, f
  <2> QED
    BY <1>3, <2>1, <2>3, <2>4 DEF HelloSend, ReportEffect, CanFinish, Sends
<1>4. CASE HelloRefused \/ HelloExpire \/ HelloFails
  <2>1. Sends /\ (CanFinish' => CanFinish)
    BY <1>0, <1>4, FailureSends DEF HelloRefused, HelloExpire, HelloFails
  <2> QED
    BY <1>4, <2>1 DEF HelloRefused, HelloExpire, HelloFails, ReportEffect
<1> QED
  BY <1>1, <1>2, <1>3, <1>4 DEF HelloStep

LEMMA HelloSecures ==
    ASSUME TypeOK, DeviceInv, HelloStep \/ HelloElapsed \/ HelloFails
    PROVE  SecureEffect /\ DeviceInv'
<1>0. FieldsTyped
  BY FieldsAreTyped
<1>1. CASE HelloBegin
  BY <1>0, <1>1
  DEF HelloBegin, ResetForRetry, IdleSecure, Secured, Waits, SecureEffect,
      DeviceInv, FieldsTyped
<1>2. CASE HelloDraw
  BY <1>0, <1>2 DEF HelloDraw, SecureEffect, DeviceInv, FieldsTyped
<1>3. CASE HelloEnter
  BY <1>0, <1>3
  DEF HelloEnter, Secured, Waits, SecureEffect, DeviceInv, FieldsTyped
<1>4. CASE \/ HelloSend \/ HelloRefused \/ HelloStop \/ HelloElapsed
           \/ HelloJudge \/ HelloExpire
  BY <1>0, <1>4
  DEF HelloSend, HelloRefused, HelloStop, HelloElapsed, HelloJudge, HelloExpire,
      flash, SecureEffect, DeviceInv, FieldsTyped
<1>5. CASE HelloDone
  BY <1>0, <1>5
  DEF HelloDone, ResetForRetry, IdleSecure, Secured, Waits, SecureEffect,
      DeviceInv, FieldsTyped
<1>6. CASE HelloFails
  <2>1. hello' = "done" /\ zb' = zb /\ provBlob' = provBlob
    BY <1>6 DEF HelloFails
  <2>2. \/ /\ enrollCounter' \in enrollCounter..(enrollCounter + 1)
           /\ UNCHANGED sState
        \/ /\ hello = "enter" /\ UNCHANGED enrollCounter
           /\ sState' = Secured("WAIT_CHALLENGE", enrollCounter, 0)
        \/ UNCHANGED <<sState, enrollCounter>>
    BY <1>6 DEF HelloFails
  <2> QED
    BY <1>0, <2>1, <2>2
    DEF Secured, Waits, SecureEffect, DeviceInv, FieldsTyped
<1> QED
  BY <1>1, <1>2, <1>3, <1>4, <1>5, <1>6 DEF HelloStep

LEMMA ZigbeeReports ==
    ASSUME TypeOK,
           \/ ZigbeeStep \/ SendResponse \/ ChallengeNotStored \/ PersistFails
           \/ \E m : IgnoreCommand(m)
    PROVE  ReportEffect
<1>0. enable \in BOOLEAN /\ acks \subseteq Response /\ Response \subseteq Frame
  BY ResponseFrame DEF TypeOK, EspTypeOK
<1>a. NoResponse.random = 0
  BY DEF NoResponse, SignedResponse
<1>1. CASE ScheduleResponse \/ ChallengeNotStored
  BY <1>1, <1>a
  DEF ScheduleResponse, ChallengeNotStored, ReportEffect, CanFinish, Sends,
      Concluding
<1>2. CASE PersistProvisioned \/ PersistFails \/ SnapshotContext
  BY <1>2
  DEF PersistProvisioned, PersistFails, SnapshotContext, flash, ReportEffect,
      CanFinish, Sends, Concluding
<1>3. CASE StatusComplete
  BY <1>3 DEF StatusComplete, ReportEffect, CanFinish, Sends, Concluding
<1>4. CASE PublishComplete
  <2>1. Sends
    BY <1>0, <1>4, ControlSends DEF PublishComplete, CanFinish, Concluding
  <2> QED
    BY <1>4, <2>1 DEF PublishComplete, ReportEffect, CanFinish, Concluding
<1>5. CASE DisableAfterProvisioning
  <2>1. zb = "disable" /\ zb' = "idle" /\ CanFinish
    BY <1>5 DEF DisableAfterProvisioning, CanFinish, Concluding
  <2>2. Sends
    <3>1. CASE enable
      BY <1>5, <2>1, <3>1, ControlSends DEF DisableAfterProvisioning
    <3>2. CASE ~enable
      BY <1>5, <3>2 DEF DisableAfterProvisioning, Sends
    <3> QED
      BY <3>1, <3>2
  <2> QED
    BY <1>5, <2>1, <2>2
    DEF DisableAfterProvisioning, ReportEffect, Concluding
<1>6. CASE SendResponse
  <2>1. PICK r \in acks : uplink' = Append(uplink, r) /\ acks' = acks \ {r}
    BY <1>6 DEF SendResponse
  <2>2. r \in Frame /\ r.kind = "R" /\ r.done = FALSE
    BY <1>0 DEF Response
  <2>3. Sends
    BY <2>1, <2>2 DEF Sends, Sendable
  <2> QED
    BY <1>6, <2>1, <2>3 DEF SendResponse, ReportEffect, CanFinish
<1>7. ASSUME NEW m, IgnoreCommand(m) PROVE ReportEffect
  BY <1>7
  DEF IgnoreCommand, espVars, ram, flash, ReportEffect, CanFinish, Sends
<1> QED
  BY <1>1, <1>2, <1>3, <1>4, <1>5, <1>6, <1>7 DEF ZigbeeStep

LEMMA ZigbeeSecures ==
    ASSUME TypeOK, DeviceInv,
           \/ ZigbeeStep \/ SendResponse \/ ChallengeNotStored \/ PersistFails
           \/ \E m : IgnoreCommand(m)
    PROVE  SecureEffect /\ DeviceInv'
<1>0. FieldsTyped
  BY FieldsAreTyped
<1>1. CASE ScheduleResponse \/ ChallengeNotStored
  <2>1. /\ sState'.counter = sState.counter /\ sState'.state \in Waits
        /\ zb = "answer" /\ zb' = "idle"
        /\ UNCHANGED <<hello, provBlob, enrollCounter>>
    BY <1>1 DEF ScheduleResponse, ChallengeNotStored, Secured, Waits, flash
  <2>2. sState'.state # "IDLE"
    BY <2>1 DEF Waits
  <2>3. sState.counter # 0 => provBlob.counter < sState.counter
    BY <1>0, <2>1 DEF DeviceInv, Waits
  <2> QED
    BY <1>0, <2>1, <2>2, <2>3 DEF SecureEffect, DeviceInv, FieldsTyped
<1>2. CASE PersistProvisioned \/ PersistFails
  <2>1. /\ sState'.counter = sState.counter /\ sState'.state = "PROVISIONED"
        /\ zb' # "answer"
        /\ UNCHANGED <<hello, provBlob, enrollCounter>>
    BY <1>0, <1>2
    DEF PersistProvisioned, PersistFails, flash, FieldsTyped, Secure
  <2> QED
    BY <1>0, <2>1 DEF SecureEffect, DeviceInv, FieldsTyped, Waits
<1>3. CASE \/ StatusComplete \/ PublishComplete \/ SnapshotContext
           \/ DisableAfterProvisioning \/ SendResponse
  <2>1. /\ UNCHANGED <<sState, hello, provBlob, enrollCounter>>
        /\ zb' = "answer" => zb = "answer"
        /\ zb = "persist" => zb' = "persist"
    BY <1>3
    DEF StatusComplete, PublishComplete, SnapshotContext,
        DisableAfterProvisioning, SendResponse, flash
  <2> QED
    BY <1>0, <2>1 DEF SecureEffect, DeviceInv, FieldsTyped
<1>4. ASSUME NEW m, IgnoreCommand(m) PROVE SecureEffect /\ DeviceInv'
  BY <1>0, <1>4
  DEF IgnoreCommand, espVars, ram, flash, SecureEffect, DeviceInv, FieldsTyped
<1> QED
  BY <1>1, <1>2, <1>3, <1>4 DEF ZigbeeStep

LEMMA PowerEffect ==
    ASSUME TypeOK, DeviceInv, FirmwareStatus \/ Reboot
    PROVE  Effect
<1>0. FieldsTyped /\ enable \in BOOLEAN
  BY FieldsAreTyped DEF TypeOK, EspTypeOK
<1>1. CASE FirmwareStatus
  <2>1. Sends /\ status' = "firmware"
    BY <1>0, <1>1, ProgressSends DEF FirmwareStatus
  <2>2. ReportEffect
    BY <1>1, <2>1 DEF FirmwareStatus, ReportEffect, CanFinish
  <2>3. SecureEffect /\ DeviceInv'
    BY <1>0, <1>1 DEF FirmwareStatus, SecureEffect, DeviceInv, FieldsTyped
  <2> QED
    BY <2>2, <2>3 DEF Effect
<1>2. CASE Reboot
  <2>1. NoResponse.random = 0
    BY DEF NoResponse, SignedResponse
  <2>2. ReportEffect
    BY <1>2, <2>1 DEF Reboot, ReportEffect, CanFinish, Sends, Concluding
  <2>3. /\ sState'.counter = 0 /\ sState'.state \notin Waits
        /\ hello' = "none" /\ zb' = "idle"
        /\ UNCHANGED <<provBlob, enrollCounter>>
    BY <1>2 DEF Reboot, Secured, IdleSecure, Waits, flash
  <2>4. SecureEffect /\ DeviceInv'
    BY <1>0, <2>3 DEF SecureEffect, DeviceInv, FieldsTyped
  <2> QED
    BY <2>2, <2>4 DEF Effect
<1> QED
  BY <1>1, <1>2

\* The tasks of the device, apart from A and P that it takes and from writes
\* of Enable OTA.
LEMMA DeviceEffect ==
    ASSUME TypeOK, DeviceInv,
           \/ \E n \in Writes : ApplyStep(n)
           \/ HelloStep \/ HelloElapsed \/ HelloFails
           \/ ZigbeeStep \/ SendResponse \/ ChallengeNotStored \/ PersistFails
           \/ \E m : IgnoreCommand(m)
           \/ InitialReport \/ FirmwareStatus \/ Reboot
    PROVE  Effect
BY ApplyReports, ApplySecures, HelloReports, HelloSecures, ZigbeeReports,
   ZigbeeSecures, PowerEffect DEF Effect

-----------------------------------------------------------------------------
(* A step of the device keeps the invariant. *)

\* What the listener knows stays.
ServerStill ==
    UNCHANGED <<sessions, job, certKey, helloCounter, context, nonce>>

LEMMA ServerStillFacts ==
    ASSUME ServerStill
    PROVE  /\ Pend' = Pend /\ TheJob' = TheJob /\ Heard' = Heard
           /\ Saved' = Saved /\ Now' = Now /\ nonce' = nonce
           /\ Under' = Under /\ Consumed' = Consumed
           /\ certKey'[Device] = certKey[Device]
BY DEF ServerStill, Pend, TheJob, Heard, Saved, Now, Under, Consumed

\* The frame sent, if there is one.
LEMMA SentFrames ==
    ASSUME TypeOK, Sends, UNCHANGED cached
    PROVE  \/ Thinned /\ Frames' = Frames
           \/ \E e \in Frame :
                 /\ Sendable(e)
                 /\ Frames' = Frames \cup {e}
                 /\ \A f \in Frame, g \in Frame :
                       Follows(f, g)' => Follows(f, g) \/ (f \in Frames /\ g = e)
<1>1. CASE uplink' = uplink
  BY <1>1, FramesStay
<1>2. ASSUME NEW e \in Frame, Sendable(e), uplink' = Append(uplink, e)
      PROVE  /\ Frames' = Frames \cup {e}
             /\ \A f \in Frame, g \in Frame :
                   Follows(f, g)' => Follows(f, g) \/ (f \in Frames /\ g = e)
  BY <1>2, FrameSent
<1> QED
  BY <1>1, <1>2 DEF Sends

LEMMA DeviceKeepsFrames ==
    ASSUME HandshakeInv, TypeOK', Effect, ServerStill, UNCHANGED cached
    PROVE  FrameInv' /\ HeardInv' /\ AnswerInv'
<1>0. FieldsTyped /\ FieldsTyped' /\ TypeOK
  BY FieldsAreTyped DEF HandshakeInv
<1>1. FrameInv /\ HeardInv /\ AnswerInv /\ DeviceInv /\ PendInv
  BY DEF HandshakeInv
<1>2. /\ Now' = Now /\ Heard' = Heard /\ TheJob' = TheJob
      /\ SecureEffect /\ ReportEffect
  BY ServerStillFacts DEF Effect
<1>3. AnswerInv'
  <2>1. 0 <= Now
    BY <1>0, <1>1 DEF PendInv, FieldsTyped, Now
  <2>2. answer.random <= Now /\ \A r \in acks : r.random <= Now
    BY <1>1 DEF AnswerInv
  <2>3. answer'.random \in {0, answer.random} /\ acks' \subseteq acks \cup {answer}
    BY <1>2 DEF ReportEffect
  <2>4. answer'.random <= Now /\ \A r \in acks' : r.random <= Now
    BY <2>1, <2>2, <2>3
  <2> QED
    BY <1>2, <2>4 DEF AnswerInv
<1>4. CASE Frames' = Frames
  <2>1. FrameInv'
    BY <1>1, <1>2, <1>4 DEF FrameInv
  <2>2. HeardInv'
    BY <1>0, <1>1, <1>2, <1>4
    DEF HeardInv, Bounded, SecureEffect, FieldsTyped
  <2> QED
    BY <1>3, <2>1, <2>2
<1>5. ASSUME NEW e \in Frame, Sendable(e), Frames' = Frames \cup {e}
      PROVE  FrameInv' /\ HeardInv'
  <2>1. e.random <= Now
    BY <1>0, <1>1, <1>5 DEF Sendable, AnswerInv, PendInv, Now, FieldsTyped
  <2>2. FrameInv'
    BY <1>1, <1>2, <1>5, <2>1 DEF FrameInv, Sendable
  <2>3. CASE e.kind = "H"
    <3>1. /\ e.counter = enrollCounter /\ hello = "send"
          /\ sState' = sState /\ enrollCounter' = enrollCounter
      BY <1>5, <2>3 DEF Sendable
    <3>2. sState.counter \in {0, enrollCounter}
      BY <1>1, <3>1 DEF DeviceInv
    <3> QED
      BY <1>0, <1>1, <1>2, <1>5, <2>2, <3>1, <3>2
      DEF HeardInv, Bounded, FieldsTyped
  <2>4. CASE e.kind # "H"
    <3>1. HeardInv'
      BY <1>0, <1>1, <1>2, <1>5, <2>4
      DEF HeardInv, Bounded, SecureEffect, FieldsTyped
    <3> QED
      BY <2>2, <3>1
  <2> QED
    BY <2>3, <2>4
<1> QED
  BY <1>0, <1>2, <1>3, <1>4, <1>5, SentFrames DEF ReportEffect

LEMMA DeviceKeepsReport ==
    ASSUME HandshakeInv, TypeOK', Effect, ServerStill, UNCHANGED <<cached, kept>>
    PROVE  ReportInv'
<1> SUFFICES ASSUME kept', Under', ~Held' PROVE
        /\ Answered' => (enable' \/ status' # "complete") /\ zb' \notin Concluding
        /\ Consumed' => \A f \in Frames' : ~f.done
        /\ \A f, g \in Frames' : Follows(f, g)' /\ f.random = Now' => ~g.done
  BY DEF ReportInv
<1>0. FieldsTyped /\ FieldsTyped' /\ TypeOK
  BY FieldsAreTyped DEF HandshakeInv
<1>1. /\ Pend' = Pend /\ Now' = Now /\ Under' = Under /\ Consumed' = Consumed
      /\ provBlob' = provBlob /\ ReportEffect
  BY ServerStillFacts DEF Effect, SecureEffect
<1>2. kept /\ Under /\ ~Held
  BY <1>1 DEF Held
<1>3. 1 <= Now
  BY <1>0, <1>2 DEF HandshakeInv, PendInv, FieldsTyped, Now
<1>4. /\ Answered => ~CanFinish
      /\ Consumed => \A f \in Frames : ~f.done
      /\ \A f, g \in Frames : Follows(f, g) /\ f.random = Now => ~g.done
  BY <1>2 DEF HandshakeInv, ReportInv, CanFinish
<1>5. Consumed => Answered
  BY DEF Answered
<1>6. \A f \in Frames : f.random = Now => Answered
  BY DEF Answered
<1>7. ASSUME Frames' = Frames, Thinned
      PROVE  /\ Answered' => Answered
             /\ Consumed' => \A f \in Frames' : ~f.done
             /\ \A f, g \in Frames' : Follows(f, g)' /\ f.random = Now' => ~g.done
  <2>1. Answered' => Answered
    BY <1>0, <1>1, <1>3, <1>7 DEF Answered, ReportEffect, FieldsTyped
  <2> QED
    BY <1>0, <1>1, <1>4, <1>7, <2>1 DEF Thinned, FieldsTyped
<1>8. ASSUME NEW e \in Frame, Sendable(e), Frames' = Frames \cup {e},
             \A f \in Frame, g \in Frame :
                Follows(f, g)' => Follows(f, g) \/ (f \in Frames /\ g = e)
      PROVE  /\ Answered' => Answered
             /\ Consumed' => \A f \in Frames' : ~f.done
             /\ \A f, g \in Frames' : Follows(f, g)' /\ f.random = Now' => ~g.done
  <2>1. e.random = Now => e \in acks
    BY <1>3, <1>8 DEF Sendable
  <2>2. Answered' => Answered
    BY <1>0, <1>1, <1>3, <1>8, <2>1 DEF Answered, ReportEffect, FieldsTyped
  <2>3. e.done => CanFinish
    BY <1>8 DEF Sendable
  <2>4. Answered => ~e.done
    BY <1>4, <2>3
  <2>5. Consumed' => \A f \in Frames' : ~f.done
    BY <1>1, <1>4, <1>5, <1>8, <2>4
  <2>6. ASSUME NEW f \in Frames', NEW g \in Frames', Follows(f, g)',
               f.random = Now'
        PROVE  ~g.done
    <3>1. f \in Frame /\ g \in Frame
      BY <1>0 DEF FieldsTyped
    <3>2. CASE f \in Frames /\ g = e
      BY <1>1, <1>6, <2>4, <2>6, <3>2
    <3>3. CASE Follows(f, g)
      <4>1. f \in Frames /\ g \in Frames
        BY <3>3 DEF Follows, Frames
      <4> QED
        BY <1>1, <1>4, <2>6, <3>3, <4>1
    <3> QED
      BY <1>8, <2>6, <3>1, <3>2, <3>3
  <2> QED
    BY <2>2, <2>5, <2>6
<1>9. /\ Answered' => Answered
      /\ Consumed' => \A f \in Frames' : ~f.done
      /\ \A f, g \in Frames' : Follows(f, g)' /\ f.random = Now' => ~g.done
  BY <1>0, <1>1, <1>7, <1>8, SentFrames DEF ReportEffect
<1>10. CanFinish' => CanFinish
  BY <1>1 DEF ReportEffect
<1>11. ~CanFinish' => (enable' \/ status' # "complete") /\ zb' \notin Concluding
  BY DEF CanFinish
<1> QED
  BY <1>4, <1>9, <1>10, <1>11

\* Commands that leave the way, or stay on it.
LEMMA KeepsRest ==
    ASSUME HandshakeInv, ServerStill, provBlob' = provBlob,
           Commands' \subseteq Commands, kept' => kept
    PROVE  /\ CertInv' /\ PendInv' /\ JobInv' /\ CommandInv' /\ LatestInv'
           /\ SaveInv'
<1>1. /\ Pend' = Pend /\ TheJob' = TheJob /\ Heard' = Heard
      /\ Saved' = Saved /\ Now' = Now /\ nonce' = nonce
      /\ Under' = Under /\ certKey'[Device] = certKey[Device]
  BY ServerStillFacts
<1>2. CertInv' /\ PendInv' /\ JobInv' /\ CommandInv' /\ SaveInv'
  BY <1>1
  DEF HandshakeInv, CertInv, PendInv, JobInv, CommandInv, SaveInv
<1>3. LatestInv'
  BY <1>1 DEF HandshakeInv, LatestInv, LatestIs
<1> QED
  BY <1>2, <1>3

LEMMA DeviceKeeps ==
    ASSUME HandshakeInv, TypeOK', Effect, ServerStill, UNCHANGED <<cached, kept>>,
           Commands' \subseteq Commands
    PROVE  HandshakeInv'
BY DeviceKeepsFrames, DeviceKeepsReport, KeepsRest
DEF HandshakeInv, Effect, SecureEffect

\* A that is accepted (accept_challenge): Enable OTA is on.
LEMMA AcceptKeeps ==
    ASSUME HandshakeInv, TypeOK', NEW m \in Commands, AcceptChallenge(m),
           ServerStill, UNCHANGED <<cached, kept>>, Commands' \subseteq Commands
    PROVE  HandshakeInv'
<1>0. FieldsTyped /\ TypeOK
  BY FieldsAreTyped DEF HandshakeInv
<1>1. /\ zb = "idle" /\ zb' = "answer" /\ enable /\ sState.state = "WAIT_CHALLENGE"
      /\ answer' = SignedResponse(m.counter, m.random)
      /\ UNCHANGED <<sState, enable, status, hello, acks, provBlob,
                     enrollCounter, uplink, cached>>
  BY DEF AcceptChallenge, ChallengeFits, flash
<1>2. /\ Pend' = Pend /\ TheJob' = TheJob /\ Heard' = Heard /\ Now' = Now
      /\ Under' = Under /\ Consumed' = Consumed
  BY ServerStillFacts
<1>3. Frames' = Frames /\ Thinned
  BY <1>1, FramesStay
<1>4. FrameInv' /\ HeardInv' /\ DeviceInv'
  <2>1. FrameInv' /\ HeardInv'
    BY <1>1, <1>2, <1>3 DEF HandshakeInv, FrameInv, HeardInv, Bounded
  <2>2. DeviceInv'
    BY <1>1 DEF HandshakeInv, DeviceInv
  <2> QED
    BY <2>1, <2>2
<1>5. AnswerInv'
  BY <1>1, <1>2 DEF HandshakeInv, AnswerInv, CommandInv, SignedResponse
<1>6. ReportInv'
  <2> SUFFICES ASSUME kept', Under', ~Held'
               PROVE  /\ Consumed' => \A f \in Frames' : ~f.done
                      /\ \A f, g \in Frames' :
                            Follows(f, g)' /\ f.random = Now' => ~g.done
    BY <1>1 DEF ReportInv, Concluding
  <2>1. kept /\ Under /\ ~Held
    BY <1>1, <1>2 DEF Held
  <2>2. /\ Consumed => \A f \in Frames : ~f.done
        /\ \A f, g \in Frames : Follows(f, g) /\ f.random = Now => ~g.done
    BY <2>1 DEF HandshakeInv, ReportInv
  <2>3. \A f, g \in Frames : Follows(f, g)' => Follows(f, g)
    BY <1>0, <1>3 DEF Thinned, FieldsTyped
  <2> QED
    BY <1>2, <1>3, <2>2, <2>3
<1> QED
  BY <1>0, <1>1, <1>4, <1>5, <1>6, KeepsRest DEF HandshakeInv

\* P that is installed is of the attempt challenged last, and of a later one
\* than the configuration before (accept_provisioning).
LEMMA StoreInstallsLast ==
    ASSUME HandshakeInv, NEW m \in Commands, StoreProvisioning(m)
    PROVE  /\ m.random = Now /\ provBlob.random < Now
           /\ 1 <= m.counter
           /\ provBlob' = [counter |-> m.counter, random |-> m.random]
           /\ provBlob'.counter = sState.counter
<1>0. FieldsTyped /\ TypeOK
  BY FieldsAreTyped DEF HandshakeInv
<1>1. /\ zb = "idle" /\ sState.state = "WAIT_PROVISIONING"
      /\ m.counter = sState.counter /\ m.random = sState.random
      /\ provBlob' = [counter |-> sState.counter, random |-> sState.random]
  BY DEF StoreProvisioning, ProvisioningFits, AttemptOf
<1>2. /\ m.counter \in Nat /\ m.random \in Nat /\ Now \in Int
      /\ 1 <= m.counter /\ m.random <= Now
      /\ m.random < Now => m.counter < Heard
  BY <1>0 DEF HandshakeInv, CommandInv, FieldsTyped, Now
<1>3. Heard <= m.counter
  BY <1>1, <1>2 DEF HandshakeInv, HeardInv, Bounded
<1>4. m.random = Now
  BY <1>0, <1>2, <1>3 DEF FieldsTyped
<1>5. provBlob.counter < m.counter
  BY <1>1, <1>2 DEF HandshakeInv, DeviceInv, Waits
<1>6. provBlob.random # Now
  <2>1. PICK c : LatestIs(c)
    BY DEF HandshakeInv, LatestInv
  <2>2. m.counter = c
    BY <1>4, <2>1 DEF LatestIs
  <2>3. 1 < nonce
    BY <1>0, <1>2, <1>4 DEF HandshakeInv, CommandInv, FieldsTyped, Now
  <2> QED
    BY <1>0, <1>2, <1>5, <2>1, <2>2, <2>3 DEF LatestIs, FieldsTyped
<1>7. provBlob.random < Now
  BY <1>0, <1>2, <1>6 DEF HandshakeInv, PendInv, FieldsTyped
<1> QED
  BY <1>1, <1>2, <1>4, <1>7

LEMMA StoreKeeps ==
    ASSUME HandshakeInv, TypeOK', NEW m \in Commands, StoreProvisioning(m),
           ServerStill, UNCHANGED <<cached, kept>>, Commands' \subseteq Commands
    PROVE  HandshakeInv'
<1>0. FieldsTyped /\ FieldsTyped' /\ TypeOK
  BY FieldsAreTyped DEF HandshakeInv
<1>1. /\ zb' = "persist" /\ sState.state = "WAIT_PROVISIONING"
      /\ UNCHANGED <<sState, enable, status, hello, answer, acks,
                     enrollCounter, uplink, cached>>
  BY DEF StoreProvisioning, ProvisioningFits, flash
<1>2. /\ Pend' = Pend /\ TheJob' = TheJob /\ Heard' = Heard /\ Now' = Now
      /\ Saved' = Saved /\ nonce' = nonce
      /\ Under' = Under /\ certKey'[Device] = certKey[Device]
  BY ServerStillFacts
<1>3. /\ m.random = Now
      /\ provBlob' = [counter |-> m.counter, random |-> Now]
      /\ provBlob'.counter = sState.counter /\ provBlob'.random = Now
  BY StoreInstallsLast
<1>4. Frames' = Frames
  BY <1>1, FramesStay
<1>5. FrameInv' /\ HeardInv' /\ AnswerInv'
  BY <1>1, <1>2, <1>4
  DEF HandshakeInv, FrameInv, HeardInv, Bounded, AnswerInv
<1>6. DeviceInv'
  BY <1>0, <1>1, <1>3 DEF HandshakeInv, DeviceInv, FieldsTyped
<1>7. CertInv' /\ JobInv' /\ CommandInv'
  BY <1>2 DEF HandshakeInv, CertInv, JobInv, CommandInv
<1>8. PendInv'
  BY <1>0, <1>2, <1>3 DEF HandshakeInv, PendInv, FieldsTyped, Now
<1>9. PICK c \in 0..MaxCounter : LatestIs(c)
  BY DEF HandshakeInv, LatestInv
<1>10. m.counter = c
  BY <1>3, <1>9 DEF LatestIs
<1>11. LatestInv'
  <2>1. LatestIs(c)'
    BY <1>2, <1>3, <1>9, <1>10 DEF LatestIs
  <2> QED
    BY <2>1 DEF LatestInv
<1>12. ReportInv'
  <2>1. Under => Pend.counter = c /\ Pend.random = Now
    BY <1>9 DEF LatestIs, HandshakeInv, PendInv
  <2>2. Under' => Held'
    BY <1>2, <1>3, <1>10, <2>1 DEF Held
  <2> QED
    BY <2>2 DEF ReportInv
<1>13. SaveInv'
  <2>1. TheJob.pc = "save" => /\ TheJob.session.counter = c
                              /\ TheJob.session.random = Now
    BY <1>9 DEF LatestIs, HandshakeInv, JobInv, Tends
  <2> QED
    BY <1>2, <1>3, <1>10, <2>1 DEF SaveInv
<1> QED
  BY <1>5, <1>6, <1>7, <1>8, <1>11, <1>12, <1>13 DEF HandshakeInv

\* Enable OTA written (handle_set_attr): off spoils the attempt under way.
LEMMA UserKeeps ==
    ASSUME HandshakeInv, TypeOK', NEW on \in BOOLEAN, User(on)
    PROVE  HandshakeInv'
<1>0. FieldsTyped /\ TypeOK
  BY FieldsAreTyped DEF HandshakeInv
<1>1. /\ zb = "idle" /\ zb' = "idle" /\ enable' = on
      /\ kept' = (kept /\ (on \/ Pend = NoSession))
      /\ UNCHANGED <<sState, hello, answer, acks, provBlob, enrollCounter,
                     uplink, cached, downlink>>
      /\ ServerStill
  BY DEF User, UserWrites, flash, listenerVars, ServerStill, Pend
<1>2. /\ Pend' = Pend /\ TheJob' = TheJob /\ Heard' = Heard /\ Now' = Now
      /\ Under' = Under /\ Consumed' = Consumed
  BY <1>1, ServerStillFacts
<1>3. Frames' = Frames /\ Thinned /\ Commands' = Commands
  BY <1>1, FramesStay DEF Commands
<1>4. FrameInv' /\ HeardInv' /\ AnswerInv'
  BY <1>1, <1>2, <1>3
  DEF HandshakeInv, FrameInv, HeardInv, Bounded, AnswerInv
<1>5. DeviceInv'
  BY <1>1 DEF HandshakeInv, DeviceInv
<1>6. ReportInv'
  <2> SUFFICES ASSUME kept', Under', ~Held'
               PROVE  /\ enable' /\ zb' \notin Concluding
                      /\ Consumed' => \A f \in Frames' : ~f.done
                      /\ \A f, g \in Frames' :
                            Follows(f, g)' /\ f.random = Now' => ~g.done
    BY DEF ReportInv
  <2>1. kept /\ Under /\ ~Held
    BY <1>1, <1>2 DEF Held
  <2>2. enable'
    BY <1>1, <2>1 DEF Under, NoSession
  <2>3. /\ Consumed => \A f \in Frames : ~f.done
        /\ \A f, g \in Frames : Follows(f, g) /\ f.random = Now => ~g.done
    BY <2>1 DEF HandshakeInv, ReportInv
  <2>4. \A f, g \in Frames : Follows(f, g)' => Follows(f, g)
    BY <1>0, <1>3 DEF Thinned, FieldsTyped
  <2> QED
    BY <1>1, <1>2, <1>3, <2>2, <2>3, <2>4 DEF Concluding
<1>7. kept' => kept
  BY <1>1
<1> QED
  BY <1>1, <1>3, <1>4, <1>5, <1>6, <1>7, KeepsRest DEF HandshakeInv

-----------------------------------------------------------------------------
(* Steps of the listener that begin nothing *)

\* The MQTT thread stays, ends, fails, or goes on with the same session.
GoesOn ==
    \/ TheJob' = TheJob
    \/ TheJob'.pc = "idle"
    \/ TheJob.pc # "idle" /\ TheJob'.pc = "record_error"
    \/ /\ TheJob'.session = TheJob.session
       /\ \/ TheJob.pc = "record_h" /\ TheJob'.pc = "open"
          \/ TheJob.pc = "record_r" /\ TheJob'.pc = "recheck"
          \/ TheJob.pc \in Tends /\ TheJob'.pc \in {"failed", "record_a", "record_p"}

\* A step of the listener, or of the network towards it, after which no more
\* is on its way than before.
Wanes ==
    /\ UNCHANGED <<ram, flash>>
    /\ nonce' = nonce /\ kept' = kept
    /\ certKey'[Device] = certKey[Device]
    /\ Heard' = Heard /\ Saved' = Saved
    /\ Thinned /\ Commands' \subseteq Commands
    /\ Pend' \in {Pend, NoSession}
    /\ GoesOn

LEMMA WanesParts ==
    ASSUME HandshakeInv, TypeOK', Wanes
    PROVE  /\ FrameInv' /\ HeardInv' /\ DeviceInv' /\ AnswerInv'
           /\ CertInv' /\ PendInv' /\ JobInv' /\ CommandInv' /\ SaveInv'
<1>0. FieldsTyped /\ FieldsTyped'
  BY FieldsAreTyped DEF HandshakeInv
<1>1. /\ UNCHANGED <<sState, hello, zb, answer, acks, provBlob, enrollCounter>>
      /\ Now' = Now /\ nonce' = nonce /\ Heard' = Heard /\ Saved' = Saved
      /\ certKey'[Device] = certKey[Device] /\ kept' = kept
      /\ Frames' \subseteq Frames /\ Commands' \subseteq Commands
      /\ Pend' \in {Pend, NoSession} /\ GoesOn
  BY DEF Wanes, ram, flash, Now, Thinned
<1>2. NoSession.state = "IDLE" /\ (Under' => Under /\ Pend' = Pend)
  BY <1>1 DEF Under, NoSession
<1>3. FrameInv'
  BY <1>1 DEF HandshakeInv, FrameInv
<1>4. TheJob'.pc = "accept" => TheJob' = TheJob
  BY <1>1 DEF GoesOn
<1>5. HeardInv'
  BY <1>1, <1>4 DEF HandshakeInv, HeardInv, Bounded
<1>6. DeviceInv' /\ AnswerInv'
  BY <1>1 DEF HandshakeInv, DeviceInv, AnswerInv
<1>7. CertInv'
  BY <1>1 DEF HandshakeInv, CertInv, GoesOn, Tends
<1>8. PendInv'
  BY <1>1, <1>2 DEF HandshakeInv, PendInv, Under
<1>9. JobInv'
  <2>1. JobInv
    BY DEF HandshakeInv
  <2>2. TheJob'.pc \in Draws =>
           TheJob.pc \in Draws /\ TheJob'.session = TheJob.session
    BY <1>1 DEF GoesOn, Draws
  <2>3. TheJob'.pc \in {"record_h", "open"} =>
           TheJob.pc \in {"record_h", "open"} /\ TheJob'.session = TheJob.session
    BY <1>1 DEF GoesOn
  <2>4. TheJob'.pc \in Tends =>
           TheJob.pc \in Tends /\ TheJob'.session = TheJob.session
    BY <1>1 DEF GoesOn, Tends
  <2>5. TheJob'.pc = "save" => TheJob.pc = "save"
    BY <1>1 DEF GoesOn
  <2> QED
    BY <1>1, <1>2, <2>1, <2>2, <2>3, <2>4, <2>5 DEF JobInv
<1>10. CommandInv'
  <2>1. TheJob'.pc \in {"record_h", "open"} => TheJob.pc \in {"record_h", "open"}
    BY <1>1 DEF GoesOn
  <2> QED
    BY <1>1, <2>1 DEF HandshakeInv, CommandInv
<1>11. SaveInv'
  <2>1. TheJob'.pc = "save" => TheJob' = TheJob
    BY <1>1 DEF GoesOn
  <2> QED
    BY <1>1, <2>1 DEF HandshakeInv, SaveInv
<1> QED
  BY <1>3, <1>5, <1>6, <1>7, <1>8, <1>9, <1>10, <1>11

LEMMA WanesKeeps ==
    ASSUME HandshakeInv, TypeOK', Wanes
    PROVE  HandshakeInv'
<1>0. FieldsTyped /\ FieldsTyped'
  BY FieldsAreTyped DEF HandshakeInv
<1>1. /\ UNCHANGED <<enable, status, zb, answer, acks, provBlob>>
      /\ Now' = Now /\ nonce' = nonce /\ kept' = kept
      /\ Thinned /\ Frames' \subseteq Frames /\ Commands' \subseteq Commands
      /\ Pend' \in {Pend, NoSession} /\ GoesOn
  BY DEF Wanes, ram, flash, Now, Thinned
<1>2. NoSession.state = "IDLE" /\ (Under' => Under /\ Pend' = Pend)
  BY <1>1 DEF Under, NoSession
<1>3. LatestInv'
  <2>1. PICK c \in 0..MaxCounter : LatestIs(c)
    BY DEF HandshakeInv, LatestInv
  <2>2. TheJob'.pc \in Tends =>
           TheJob.pc \in Tends /\ TheJob'.session = TheJob.session
    BY <1>1 DEF GoesOn, Tends
  <2>3. LatestIs(c)'
    BY <1>1, <1>2, <2>1, <2>2 DEF LatestIs
  <2> QED
    BY <2>3 DEF LatestInv
<1>4. ReportInv'
  <2> SUFFICES ASSUME kept', Under', ~Held'
               PROVE  /\ Answered' => /\ enable' \/ status' # "complete"
                                      /\ zb' \notin Concluding
                      /\ Consumed' => \A f \in Frames' : ~f.done
                      /\ \A f, g \in Frames' :
                            Follows(f, g)' /\ f.random = Now' => ~g.done
    BY DEF ReportInv
  <2>1. kept /\ Under /\ ~Held /\ Pend' = Pend
    BY <1>1, <1>2 DEF Held
  <2>2. /\ Answered => (enable \/ status # "complete") /\ zb \notin Concluding
        /\ Consumed => \A f \in Frames : ~f.done
        /\ \A f, g \in Frames : Follows(f, g) /\ f.random = Now => ~g.done
    BY <2>1 DEF HandshakeInv, ReportInv
  <2>3. Consumed' => Consumed
    BY <1>1, <2>1 DEF Consumed, GoesOn
  <2>4. Answered' => Answered
    BY <1>1, <2>3 DEF Answered
  <2>5. \A f, g \in Frames' : Follows(f, g)' => Follows(f, g)
    BY <1>0, <1>1 DEF Thinned, FieldsTyped
  <2> QED
    BY <1>1, <2>2, <2>3, <2>4, <2>5
<1> QED
  BY <1>3, <1>4, WanesParts DEF HandshakeInv

\* The steps of the MQTT thread that take no decision, and its failures.
LEMMA QuietJob ==
    ASSUME HandshakeInv, TypeOK', KeepsClean, UNCHANGED <<ram, flash>>,
           UNCHANGED <<uplink, cached>>,
           \/ HelloStale(Device) \/ RecordHello(Device)
           \/ ChallengeNotBuilt(Device) \/ RecordChallenge(Device)
           \/ RecordResponse(Device) \/ RecordProvisioning(Device)
           \/ SendFailed(Device) \/ DropSession(Device) \/ RecordError(Device)
           \/ SaveFailed(Device) \/ RecordCompletion(Device)
    PROVE  HandshakeInv'
<1>0. /\ sessions \in [Devices -> Session] /\ job \in [Devices -> Job]
      /\ Device \in Devices /\ kept \in BOOLEAN
  BY BoundsAre DEF HandshakeInv, TypeOK, ListenerTypeOK
<1>1. ASSUME NEW pc, NEW t, Goto(Device, pc, t)
      PROVE  TheJob'.pc = pc /\ TheJob'.session = t
  BY <1>0, <1>1 DEF Goto, TheJob
<1>2. ASSUME Return(Device) PROVE TheJob'.pc = "idle"
  BY <1>0, <1>2 DEF Return, IdleJob, TheJob
<1>3. /\ nonce' = nonce /\ certKey' = certKey /\ helloCounter' = helloCounter
      /\ context' = context /\ downlink' = downlink
  BY DEF HelloStale, RecordHello, ChallengeNotBuilt, RecordChallenge,
         RecordResponse, RecordProvisioning, SendFailed, DropSession,
         RecordError, SaveFailed, RecordCompletion
<1>4. GoesOn
  <2>1. CASE \/ HelloStale(Device) \/ RecordChallenge(Device)
             \/ RecordProvisioning(Device) \/ RecordError(Device)
             \/ RecordCompletion(Device)
    BY <1>2, <2>1
    DEF HelloStale, RecordChallenge, RecordProvisioning, RecordError,
        RecordCompletion, GoesOn
  <2>2. CASE RecordHello(Device) \/ RecordResponse(Device)
    BY <1>1, <2>2 DEF RecordHello, RecordResponse, At, GoesOn, TheJob
  <2>3. CASE \/ ChallengeNotBuilt(Device) \/ DropSession(Device)
             \/ SaveFailed(Device)
    BY <1>1, <2>3
    DEF ChallengeNotBuilt, DropSession, SaveFailed, At, GoesOn, TheJob
  <2>4. CASE SendFailed(Device)
    BY <1>1, <2>4 DEF SendFailed, At, GoesOn, Tends, TheJob
  <2> QED
    BY <2>1, <2>2, <2>3, <2>4
<1>5. Pend' \in {Pend, NoSession}
  BY <1>0
  DEF Pend, HelloStale, RecordHello, ChallengeNotBuilt, RecordChallenge,
      RecordResponse, RecordProvisioning, SendFailed, DropSession,
      RecordError, SaveFailed, RecordCompletion
<1>6. kept' = kept
  BY <1>0, <1>3 DEF KeepsClean
<1>7. Thinned /\ Commands' \subseteq Commands
  BY <1>3, FramesStay DEF Commands
<1>8. Heard' = Heard /\ Saved' = Saved /\ certKey'[Device] = certKey[Device]
  BY <1>3 DEF Heard, Saved
<1>9. Wanes
  BY <1>3, <1>4, <1>5, <1>6, <1>7, <1>8 DEF Wanes
<1> QED
  BY <1>9, WanesKeeps

\* Sessions that grow too old, threads and processes that end, and starts.
LEMMA QuietProcess ==
    ASSUME HandshakeInv, TypeOK', KeepsClean, UNCHANGED <<ram, flash>>,
           UNCHANGED <<uplink, cached>>,
           \/ ExpireSessions({Device}) \/ RecordTimeout \/ TimeoutThreadDies
           \/ ListenerStops \/ ListenerStarts
    PROVE  HandshakeInv'
<1>0. Device \in Devices /\ kept \in BOOLEAN
  BY BoundsAre DEF HandshakeInv, TypeOK
<1>1. /\ nonce' = nonce /\ certKey' = certKey /\ helloCounter' = helloCounter
      /\ context' = context /\ downlink' = downlink
  BY DEF ExpireSessions, RecordTimeout, TimeoutThreadDies, ListenerStops,
         ListenerStarts
<1>2. GoesOn
  BY <1>0
  DEF ExpireSessions, RecordTimeout, TimeoutThreadDies, ListenerStops,
      ListenerStarts, GoesOn, TheJob, IdleJob
<1>3. Pend' \in {Pend, NoSession}
  BY <1>0
  DEF ExpireSessions, RecordTimeout, TimeoutThreadDies, ListenerStops,
      ListenerStarts, Pend
<1>4. kept' = kept
  BY <1>0, <1>1 DEF KeepsClean
<1>5. Thinned /\ Commands' \subseteq Commands
  BY <1>1, FramesStay DEF Commands
<1>6. Heard' = Heard /\ Saved' = Saved /\ certKey'[Device] = certKey[Device]
  BY <1>1 DEF Heard, Saved
<1>7. Wanes
  BY <1>1, <1>2, <1>3, <1>4, <1>5, <1>6 DEF Wanes
<1> QED
  BY <1>7, WanesKeeps

\* A message that the listener drops, and a frame that does not reach it.
LEMMA QuietMessage ==
    ASSUME HandshakeInv, TypeOK', KeepsClean, UNCHANGED <<ram, flash>>, Thinned,
           \/ \E f : \/ HelloIgnored(Device, f) \/ HelloRejected(Device, f)
                     \/ ResponseIgnored(Device, f) \/ ControlIgnored(Device, f)
           \/ UNCHANGED listenerVars
    PROVE  HandshakeInv'
<1>1. /\ nonce' = nonce /\ certKey' = certKey /\ helloCounter' = helloCounter
      /\ context' = context /\ downlink' = downlink /\ sessions' = sessions
      /\ job' = job
  BY DEF HelloIgnored, HelloRejected, ResponseIgnored, ControlIgnored,
         listenerVars
<1>2. kept' = kept
  BY <1>1 DEF KeepsClean, HandshakeInv, TypeOK
<1>3. Wanes
  BY <1>1, <1>2
  DEF Wanes, GoesOn, TheJob, Pend, Heard, Saved, Commands
<1> QED
  BY <1>3, WanesKeeps

-----------------------------------------------------------------------------
(* Messages that the listener acts on *)

\* What of the listener a message does not change.
LEMMA Unmoved ==
    ASSUME UNCHANGED <<expired, certKey, helloCounter, context, nonce, downlink>>
    PROVE  /\ Heard' = Heard /\ Saved' = Saved /\ Now' = Now /\ nonce' = nonce
           /\ certKey'[Device] = certKey[Device] /\ Commands' = Commands
BY DEF Heard, Saved, Now, Commands

\* What of the invariant is about the frames and the device alone.
LEMMA DeviceUnmoved ==
    ASSUME HandshakeInv, UNCHANGED <<ram, flash>>, nonce <= nonce', nonce' \in Nat,
           Frames' \subseteq Frames
    PROVE  FrameInv' /\ DeviceInv' /\ AnswerInv'
<1>0. /\ FieldsTyped /\ Now \in Int /\ Now' \in Int /\ Now <= Now'
      /\ UNCHANGED <<sState, hello, zb, answer, acks, provBlob, enrollCounter>>
  BY FieldsAreTyped DEF HandshakeInv, ram, flash, Now, FieldsTyped
<1>1. FrameInv'
  BY <1>0 DEF HandshakeInv, FrameInv, FieldsTyped
<1>2. DeviceInv'
  BY <1>0 DEF HandshakeInv, DeviceInv
<1>3. AnswerInv'
  <2>1. \A r \in acks : r.random \in Nat
    BY <1>0 DEF FieldsTyped, Response
  <2> QED
    BY <1>0, <2>1 DEF HandshakeInv, AnswerInv, FieldsTyped
<1> QED
  BY <1>1, <1>2, <1>3

\* H of a new attempt (HelloVerified): signed by the certificate's key.
LEMMA HelloKeeps ==
    ASSUME HandshakeInv, TypeOK', UNCHANGED <<ram, flash, kept>>, Thinned,
           NEW f \in Frames, f.kind = "H", f.counter \in Counters,
           HelloVerified(Device, f)
    PROVE  HandshakeInv'
<1>0. FieldsTyped /\ FieldsTyped' /\ Device \in Devices
  BY FieldsAreTyped, BoundsAre DEF HandshakeInv
<1>1. job \in [Devices -> Job]
  BY DEF HandshakeInv, TypeOK, ListenerTypeOK
<1>2. /\ TheJob'.pc = "accept" /\ TheJob'.session.counter = f.counter
      /\ Pend' = Pend /\ Pend = NoSession /\ certKey[Device] = f.key
  BY <1>0, <1>1 DEF HelloVerified, Goto, TheJob, Pend, NoSession
<1>3. /\ Heard' = Heard /\ Saved' = Saved /\ Now' = Now /\ nonce' = nonce
      /\ certKey'[Device] = certKey[Device] /\ Commands' = Commands
      /\ Frames' \subseteq Frames
  BY Unmoved DEF HelloVerified, Thinned
<1>4. UNCHANGED <<sState, provBlob, enrollCounter>>
  BY DEF ram, flash
<1>5. ~Under /\ ~Under'
  BY <1>2 DEF Under, NoSession
<1>6. FrameInv' /\ DeviceInv' /\ AnswerInv'
  BY <1>0, <1>3, DeviceUnmoved DEF FieldsTyped
<1>7. HeardInv'
  BY <1>2, <1>3, <1>4 DEF HandshakeInv, HeardInv, Bounded
<1>8. CertInv'
  BY <1>2, <1>3 DEF HandshakeInv, CertInv, FrameInv
<1>9. PendInv'
  BY <1>2, <1>3, <1>4, <1>5 DEF HandshakeInv, PendInv
<1>10. JobInv'
  BY <1>2 DEF JobInv, Counters, Tends
<1>11. CommandInv'
  BY <1>2, <1>3 DEF HandshakeInv, CommandInv
<1>12. LatestInv'
  <2>1. PICK c \in 0..MaxCounter : LatestIs(c)
    BY DEF HandshakeInv, LatestInv
  <2>2. LatestIs(c)'
    BY <1>2, <1>3, <1>4, <1>5, <2>1 DEF LatestIs, Tends
  <2> QED
    BY <2>2 DEF LatestInv
<1>13. ReportInv' /\ SaveInv'
  BY <1>2, <1>5 DEF ReportInv, SaveInv
<1> QED
  BY <1>6, <1>7, <1>8, <1>9, <1>10, <1>11, <1>12, <1>13 DEF HandshakeInv

\* R, right or wrong, to a session that waits for it: T|0|42 of an earlier
\* attempt is not behind it.
LEMMA ResponseKeeps ==
    ASSUME HandshakeInv, TypeOK', UNCHANGED <<ram, flash, kept>>, Thinned,
           NEW f \in Frames, f.kind = "R",
           \A g \in Frames' : g = f \/ Follows(f, g),
           ResponseVerified(Device, f) \/ ResponseRejected(Device, f)
    PROVE  HandshakeInv'
<1>0. FieldsTyped /\ FieldsTyped' /\ Device \in Devices
  BY FieldsAreTyped, BoundsAre DEF HandshakeInv
<1>1. job \in [Devices -> Job]
  BY DEF HandshakeInv, TypeOK, ListenerTypeOK
<1>2. /\ TheJob'.pc \in {"record_r", "failed"} /\ TheJob'.session = Pend
      /\ Pend' = Pend /\ Pend.state = "WAIT_RESPONSE"
      /\ TheJob'.pc = "record_r" => f.random = Pend.random
  BY <1>0, <1>1
  DEF ResponseVerified, ResponseRejected, Answers, Goto, TheJob, Pend
<1>3. /\ Heard' = Heard /\ Saved' = Saved /\ Now' = Now /\ nonce' = nonce
      /\ certKey'[Device] = certKey[Device] /\ Commands' = Commands
      /\ Frames' \subseteq Frames
  BY Unmoved DEF ResponseVerified, ResponseRejected, Thinned
<1>4. UNCHANGED <<enable, status, zb, answer, acks, sState, provBlob,
                  enrollCounter>>
  BY DEF ram, flash
<1>5. Under /\ Under' /\ Pend.random = Now
  BY <1>2 DEF Under, HandshakeInv, PendInv
<1>6. FrameInv' /\ DeviceInv' /\ AnswerInv'
  BY <1>0, <1>3, DeviceUnmoved DEF FieldsTyped
<1>7. HeardInv'
  BY <1>2, <1>3, <1>4 DEF HandshakeInv, HeardInv, Bounded
<1>8. PendInv'
  BY <1>2, <1>3, <1>4, <1>5 DEF HandshakeInv, PendInv
<1>9. 1 < nonce
  BY <1>0, <1>5 DEF HandshakeInv, PendInv, FieldsTyped, Now
<1>10. CertInv'
  BY <1>0, <1>3, <1>9 DEF HandshakeInv, CertInv, FieldsTyped
<1>11. JobInv'
  BY <1>2, <1>3, <1>5, <1>9 DEF HandshakeInv, PendInv, JobInv, Draws
<1>12. CommandInv'
  BY <1>2, <1>3 DEF HandshakeInv, CommandInv
<1>13. LatestInv'
  <2>1. PICK c \in 0..MaxCounter : LatestIs(c)
    BY DEF HandshakeInv, LatestInv
  <2>2. LatestIs(c)'
    BY <1>2, <1>3, <1>4, <1>5, <2>1 DEF LatestIs
  <2> QED
    BY <2>2 DEF LatestInv
<1>14. ReportInv'
  <2> SUFFICES ASSUME kept', Under', ~Held'
               PROVE  /\ Answered' => /\ enable' \/ status' # "complete"
                                      /\ zb' \notin Concluding
                      /\ Consumed' => \A g \in Frames' : ~g.done
                      /\ \A e, g \in Frames' :
                            Follows(e, g)' /\ e.random = Now' => ~g.done
    BY DEF ReportInv
  <2>1. kept /\ Under /\ ~Held
    BY <1>2, <1>4, <1>5 DEF Held
  <2>2. /\ Answered => (enable \/ status # "complete") /\ zb \notin Concluding
        /\ \A e, g \in Frames : Follows(e, g) /\ e.random = Now => ~g.done
    BY <2>1 DEF HandshakeInv, ReportInv
  <2>3. Consumed' => TheJob'.pc = "record_r" /\ f.random = Now
    BY <1>2, <1>5 DEF Consumed
  <2>4. Answered' => Answered
    BY <1>3, <1>4, <2>3 DEF Answered
  <2>5. Consumed' => \A g \in Frames' : ~g.done
    <3>1. ~f.done
      BY DEF HandshakeInv, FrameInv
    <3> QED
      BY <1>3, <2>2, <2>3, <3>1
  <2>6. \A e, g \in Frames' : Follows(e, g)' => Follows(e, g)
    BY <1>0 DEF Thinned, FieldsTyped
  <2> QED
    BY <1>3, <1>4, <2>2, <2>4, <2>5, <2>6
<1>15. SaveInv'
  BY <1>2 DEF SaveInv
<1> QED
  BY <1>6, <1>7, <1>8, <1>10, <1>11, <1>12, <1>13, <1>14, <1>15
  DEF HandshakeInv

\* T|0|42 that ends the attempt (AttemptFinished): the device holds it.
LEMMA FinishKeeps ==
    ASSUME HandshakeInv, TypeOK', UNCHANGED <<ram, flash, kept>>, Thinned,
           NEW f \in Frames, AttemptFinished(Device, f)
    PROVE  HandshakeInv'
<1>0. FieldsTyped /\ FieldsTyped' /\ Device \in Devices
  BY FieldsAreTyped, BoundsAre DEF HandshakeInv
<1>1. job \in [Devices -> Job] /\ sessions \in [Devices -> Session]
  BY DEF HandshakeInv, TypeOK, ListenerTypeOK
<1>2. /\ TheJob'.pc = "save" /\ TheJob'.session = Pend /\ f.done
      /\ Pend' = NoSession /\ Pend.state = "PROVISIONING_SENT"
  BY <1>0, <1>1 DEF AttemptFinished, Goto, TheJob, Pend
<1>3. /\ Heard' = Heard /\ Saved' = Saved /\ Now' = Now /\ nonce' = nonce
      /\ certKey'[Device] = certKey[Device] /\ Commands' = Commands
      /\ Frames' \subseteq Frames
  BY Unmoved DEF AttemptFinished, Thinned
<1>4. UNCHANGED <<sState, provBlob, enrollCounter>>
  BY DEF ram, flash
<1>5. Under /\ ~Under' /\ Pend.random = Now
  BY <1>2 DEF Under, HandshakeInv, PendInv, NoSession
<1>6. FrameInv' /\ DeviceInv' /\ AnswerInv'
  BY <1>0, <1>3, DeviceUnmoved DEF FieldsTyped
<1>7. HeardInv'
  BY <1>2, <1>3, <1>4 DEF HandshakeInv, HeardInv, Bounded
<1>8. PendInv'
  BY <1>2, <1>3, <1>4, <1>5 DEF HandshakeInv, PendInv
<1>9. 1 < nonce
  BY <1>0, <1>5 DEF HandshakeInv, PendInv, FieldsTyped, Now
<1>10. CertInv'
  BY <1>0, <1>3, <1>9 DEF HandshakeInv, CertInv, FieldsTyped
<1>11. JobInv'
  BY <1>2, <1>3, <1>5, <1>9 DEF HandshakeInv, PendInv, JobInv, Draws
<1>12. CommandInv'
  BY <1>2, <1>3 DEF HandshakeInv, CommandInv
<1>13. LatestInv'
  <2>1. PICK c \in 0..MaxCounter : LatestIs(c)
    BY DEF HandshakeInv, LatestInv
  <2>2. LatestIs(c)'
    BY <1>2, <1>3, <1>4, <1>5, <2>1 DEF LatestIs
  <2> QED
    BY <2>2 DEF LatestInv
<1>14. ReportInv'
  BY <1>5 DEF ReportInv
<1>15. SaveInv'
  <2>1. Consumed
    BY <1>2 DEF Consumed
  <2>2. kept => Held
    BY <1>2, <1>5, <2>1 DEF HandshakeInv, ReportInv
  <2> QED
    BY <1>2, <1>4, <2>2 DEF SaveInv, Held
<1> QED
  BY <1>6, <1>7, <1>8, <1>10, <1>11, <1>12, <1>13, <1>14, <1>15
  DEF HandshakeInv

LEMMA MessageKeeps ==
    ASSUME HandshakeInv, TypeOK', UNCHANGED <<ram, flash>>, KeepsClean, Thinned,
           NEW f \in Frames, \A g \in Frames' : g = f \/ Follows(f, g),
           OnMessage(Device, f)
    PROVE  HandshakeInv'
<1>1. nonce' = nonce
  BY DEF OnMessage, OnHello, OnResponse, OnControl, HelloIgnored,
         HelloRejected, HelloVerified, ResponseIgnored, ResponseVerified,
         ResponseRejected, ControlIgnored, AttemptFinished, listenerVars
<1>2. kept' = kept
  BY <1>1 DEF KeepsClean, HandshakeInv, TypeOK
<1>3. CASE OnHello(Device, f)
  BY <1>2, <1>3, QuietMessage, HelloKeeps DEF OnHello
<1>4. CASE OnResponse(Device, f)
  BY <1>2, <1>4, QuietMessage, ResponseKeeps DEF OnResponse
<1>5. CASE OnControl(Device, f)
  BY <1>2, <1>5, QuietMessage, FinishKeeps DEF OnControl
<1> QED
  BY <1>3, <1>4, <1>5 DEF OnMessage

-----------------------------------------------------------------------------
(* Decisions of the MQTT thread *)

\* The counter of H is accepted: every command on its way is older.
LEMMA AcceptedKeeps ==
    ASSUME HandshakeInv, TypeOK', UNCHANGED <<ram, flash, uplink, cached, kept>>,
           HelloAccepted(Device)
    PROVE  HandshakeInv'
<1>0. FieldsTyped /\ FieldsTyped' /\ Device \in Devices
  BY FieldsAreTyped, BoundsAre DEF HandshakeInv
<1>1. job \in [Devices -> Job] /\ helloCounter \in [Devices -> 0..MaxCounter]
  BY DEF HandshakeInv, TypeOK, ListenerTypeOK
<1>2. /\ TheJob.pc = "accept" /\ Heard < TheJob.session.counter
      /\ TheJob'.pc = "record_h" /\ TheJob'.session = TheJob.session
      /\ Heard' = TheJob.session.counter
  BY <1>0, <1>1 DEF HelloAccepted, At, Goto, TheJob, Heard, FieldsTyped
<1>3. /\ Pend' = Pend /\ Saved' = Saved /\ Now' = Now /\ nonce' = nonce
      /\ certKey'[Device] = certKey[Device] /\ Commands' = Commands
      /\ Under' = Under
  BY DEF HelloAccepted, Pend, Saved, Now, Commands, Under
<1>4. /\ UNCHANGED <<enable, status, zb, answer, acks, sState, provBlob,
                     enrollCounter>>
      /\ Frames' = Frames /\ Thinned
  BY FramesStay DEF ram, flash
<1>5. FrameInv' /\ DeviceInv' /\ AnswerInv'
  BY <1>0, <1>3, <1>4, DeviceUnmoved DEF FieldsTyped
<1>6. HeardInv'
  BY <1>2, <1>4 DEF HandshakeInv, HeardInv, Bounded
<1>7. CertInv' /\ PendInv'
  BY <1>0, <1>2, <1>3, <1>4 DEF HandshakeInv, CertInv, PendInv, FieldsTyped
<1>8. JobInv'
  BY <1>2 DEF HandshakeInv, JobInv, Draws, Tends
<1>9. CommandInv'
  BY <1>0, <1>2, <1>3 DEF HandshakeInv, CommandInv, FieldsTyped
<1>10. LatestInv'
  <2>1. PICK c \in 0..MaxCounter : LatestIs(c)
    BY DEF HandshakeInv, LatestInv
  <2>2. LatestIs(c)'
    BY <1>2, <1>3, <1>4, <2>1 DEF LatestIs, Tends
  <2> QED
    BY <2>2 DEF LatestInv
<1>11. ReportInv'
  <2> SUFFICES ASSUME kept', Under', ~Held'
               PROVE  /\ Answered' => /\ enable' \/ status' # "complete"
                                      /\ zb' \notin Concluding
                      /\ Consumed' => \A g \in Frames' : ~g.done
                      /\ \A e, g \in Frames' :
                            Follows(e, g)' /\ e.random = Now' => ~g.done
    BY DEF ReportInv
  <2>1. kept /\ Under /\ ~Held
    BY <1>3, <1>4 DEF Held
  <2>2. /\ Answered => (enable \/ status # "complete") /\ zb \notin Concluding
        /\ Consumed => \A g \in Frames : ~g.done
        /\ \A e, g \in Frames : Follows(e, g) /\ e.random = Now => ~g.done
    BY <2>1 DEF HandshakeInv, ReportInv
  <2>3. Consumed' => Consumed
    BY <1>2, <1>3 DEF Consumed
  <2>4. Answered' => Answered
    BY <1>3, <1>4, <2>3 DEF Answered
  <2>5. \A e, g \in Frames' : Follows(e, g)' => Follows(e, g)
    BY <1>0, <1>4 DEF Thinned, FieldsTyped
  <2> QED
    BY <1>3, <1>4, <2>2, <2>3, <2>4, <2>5
<1>12. SaveInv'
  BY <1>2 DEF SaveInv
<1> QED
  BY <1>5, <1>6, <1>7, <1>8, <1>9, <1>10, <1>11, <1>12 DEF HandshakeInv

\* A new challenge: nobody has answered it yet, and what is on its way is of
\* earlier attempts.
LEMMA OpenKeeps ==
    ASSUME HandshakeInv, TypeOK', UNCHANGED <<ram, flash, uplink, cached>>,
           OpenSession(Device)
    PROVE  /\ HandshakeInv'
           /\ Now' = Now + 1 /\ Now \in Nat
<1>0. FieldsTyped /\ FieldsTyped' /\ Device \in Devices
  BY FieldsAreTyped, BoundsAre DEF HandshakeInv
<1>1. job \in [Devices -> Job] /\ sessions \in [Devices -> Session]
  BY DEF HandshakeInv, TypeOK, ListenerTypeOK
<1>2. /\ TheJob.pc = "open" /\ TheJob'.pc = "send_a" /\ TheJob'.session = Pend'
      /\ Pend' = [TheJob.session EXCEPT !.random = nonce,
                                        !.state = "WAIT_RESPONSE"]
      /\ nonce' = nonce + 1
  BY <1>0, <1>1 DEF OpenSession, At, Goto, TheJob, Pend
<1>3. /\ Pend'.counter = TheJob.session.counter /\ Pend'.random = nonce
      /\ Pend'.state = "WAIT_RESPONSE"
  BY <1>0, <1>2 DEF FieldsTyped, Session
<1>4. /\ Heard' = Heard /\ Saved' = Saved
      /\ certKey'[Device] = certKey[Device] /\ Commands' = Commands
  BY DEF OpenSession, Heard, Saved, Commands
<1>5. /\ Now' = nonce /\ Now < Now' /\ Now \in Int /\ Now' = Now + 1
      /\ 1 <= nonce /\ Now \in Nat
  BY <1>0, <1>2 DEF Now, FieldsTyped, HandshakeInv, PendInv
<1>6. UNCHANGED <<answer, acks, sState, provBlob, enrollCounter>>
  BY DEF ram, flash
<1>7. Frames' = Frames
  BY FramesStay
<1>8. /\ 1 <= TheJob.session.counter /\ TheJob.session.counter = Heard
  BY <1>2 DEF HandshakeInv, JobInv, Draws
<1>9. FrameInv' /\ DeviceInv' /\ AnswerInv'
  BY <1>0, <1>2, <1>7, DeviceUnmoved DEF FieldsTyped
<1>10. HeardInv'
  BY <1>2, <1>4, <1>6, <1>7 DEF HandshakeInv, HeardInv, Bounded
<1>11. CertInv'
  BY <1>2, <1>4 DEF HandshakeInv, CertInv
<1>12. PendInv'
  BY <1>0, <1>2, <1>3, <1>4, <1>5, <1>6, <1>8
  DEF HandshakeInv, PendInv, FieldsTyped, Under
<1>13. JobInv'
  BY <1>0, <1>2, <1>3, <1>4, <1>5, <1>8 DEF JobInv, Draws, FieldsTyped
<1>14. CommandInv'
  BY <1>0, <1>2, <1>4, <1>5 DEF HandshakeInv, CommandInv, FieldsTyped
<1>15. LatestInv'
  <2>1. Heard \in 0..MaxCounter
    BY <1>0, <1>8 DEF FieldsTyped
  <2>2. LatestIs(Heard)'
    <3>1. \A m \in Commands' : m.random # Now'
      BY <1>0, <1>4, <1>5 DEF HandshakeInv, CommandInv, FieldsTyped
    <3>2. provBlob'.random # Now'
      BY <1>0, <1>5, <1>6 DEF HandshakeInv, PendInv, FieldsTyped
    <3> QED
      BY <1>2, <1>3, <1>4, <1>8, <3>1, <3>2 DEF LatestIs
  <2>3. PICK h \in 0..MaxCounter : h = Heard'
    BY <1>4, <2>1
  <2>4. LatestIs(h)'
    BY <1>4, <2>2, <2>3 DEF LatestIs
  <2> QED
    BY <2>4 DEF LatestInv
<1>16. ReportInv'
  <2>1. answer'.random # Now' /\ \A r \in acks' : r.random # Now'
    <3>1. \A r \in acks : r.random \in Nat
      BY <1>0 DEF FieldsTyped, Response
    <3> QED
      BY <1>0, <1>5, <1>6, <3>1 DEF HandshakeInv, AnswerInv, FieldsTyped
  <2>2. \A f \in Frames' : f.random # Now'
    BY <1>0, <1>5, <1>7 DEF HandshakeInv, FrameInv, FieldsTyped
  <2>3. ~Consumed'
    BY <1>2, <1>3 DEF Consumed
  <2>4. ~Answered'
    BY <2>1, <2>2, <2>3 DEF Answered
  <2> QED
    BY <2>2, <2>3, <2>4 DEF ReportInv
<1>17. SaveInv'
  BY <1>2 DEF SaveInv
<1> QED
  BY <1>5, <1>9, <1>10, <1>11, <1>12, <1>13, <1>14, <1>15, <1>16, <1>17
  DEF HandshakeInv

\* While the challenged session goes on, nothing that the report depends on
\* changes.
LEMMA ReportUnmoved ==
    ASSUME HandshakeInv, UNCHANGED <<ram, flash, uplink, cached>>, kept' = kept,
           Now' = Now, Under' => Under,
           Under' => Pend'.counter = Pend.counter /\ Pend'.random = Pend.random,
           Under' /\ Consumed' => Consumed
    PROVE  ReportInv'
<1> SUFFICES ASSUME kept', Under', ~Held'
             PROVE  /\ Answered' => /\ enable' \/ status' # "complete"
                                    /\ zb' \notin Concluding
                    /\ Consumed' => \A g \in Frames' : ~g.done
                    /\ \A e, g \in Frames' :
                          Follows(e, g)' /\ e.random = Now' => ~g.done
  BY DEF ReportInv
<1>0. FieldsTyped
  BY FieldsAreTyped DEF HandshakeInv
<1>1. UNCHANGED <<enable, status, zb, answer, acks, provBlob>>
  BY DEF ram, flash
<1>2. Frames' = Frames /\ Thinned
  BY FramesStay
<1>3. kept /\ Under /\ ~Held
  BY <1>1 DEF Held
<1>4. /\ Answered => (enable \/ status # "complete") /\ zb \notin Concluding
      /\ Consumed => \A g \in Frames : ~g.done
      /\ \A e, g \in Frames : Follows(e, g) /\ e.random = Now => ~g.done
  BY <1>3 DEF HandshakeInv, ReportInv
<1>5. Answered' => Answered
  BY <1>1, <1>2 DEF Answered
<1>6. \A e, g \in Frames' : Follows(e, g)' => Follows(e, g)
  BY <1>0, <1>2 DEF Thinned, FieldsTyped
<1> QED
  BY <1>1, <1>2, <1>4, <1>5, <1>6

\* A and P carry the counter and the random of the session.
LEMMA SendKeeps ==
    ASSUME HandshakeInv, TypeOK', UNCHANGED <<ram, flash, uplink, cached, kept>>,
           SendChallenge(Device) \/ SendProvisioning(Device)
    PROVE  HandshakeInv'
<1>0. FieldsTyped /\ FieldsTyped' /\ Device \in Devices /\ TypeOK
  BY FieldsAreTyped, BoundsAre DEF HandshakeInv
<1>1. job \in [Devices -> Job]
  BY <1>0 DEF TypeOK, ListenerTypeOK
<1>2. /\ TheJob.pc \in {"send_a", "send_p"}
      /\ TheJob'.pc \in {"record_a", "record_p"}
      /\ TheJob'.session = TheJob.session
  BY <1>0, <1>1 DEF SendChallenge, SendProvisioning, At, Goto, TheJob
<1>3. /\ Pend' = Pend /\ Saved' = Saved /\ Now' = Now /\ nonce' = nonce
      /\ Heard' = Heard /\ certKey'[Device] = certKey[Device]
      /\ Under' = Under
  BY DEF SendChallenge, SendProvisioning, Pend, Saved, Now, Heard, Under
<1>4. /\ UNCHANGED <<sState, provBlob, enrollCounter>>
      /\ Frames' = Frames
  BY FramesStay DEF ram, flash
<1>5. \A m \in Commands' :
         \/ m \in Commands
         \/ m.counter = TheJob.session.counter /\ m.random = TheJob.session.random
  BY <1>0, CommandPublished DEF SendChallenge, SendProvisioning, TheJob, FieldsTyped
<1>6. /\ TheJob.session.random = Now /\ 1 < nonce
      /\ 1 <= TheJob.session.counter /\ TheJob.session.counter <= Heard
  BY <1>2 DEF HandshakeInv, JobInv, Tends
<1>7. FrameInv' /\ DeviceInv' /\ AnswerInv'
  BY <1>0, <1>3, <1>4, DeviceUnmoved DEF FieldsTyped
<1>8. HeardInv'
  BY <1>2, <1>3, <1>4 DEF HandshakeInv, HeardInv, Bounded
<1>9. CertInv' /\ PendInv'
  BY <1>2, <1>3, <1>4 DEF HandshakeInv, CertInv, PendInv
<1>10. JobInv'
  BY <1>2, <1>3, <1>6 DEF JobInv, Draws
<1>11. CommandInv'
  <2> SUFFICES ASSUME NEW m \in Commands'
               PROVE  /\ 1 <= m.random /\ m.random <= Now
                      /\ 1 <= m.counter /\ m.counter <= Heard
                      /\ m.random < Now => m.counter < Heard
    BY <1>2, <1>3 DEF CommandInv
  <2>1. CASE m \in Commands
    BY <2>1 DEF HandshakeInv, CommandInv
  <2>2. CASE m.counter = TheJob.session.counter /\ m.random = TheJob.session.random
    BY <1>0, <1>6, <2>2 DEF FieldsTyped, Now
  <2> QED
    BY <1>5, <2>1, <2>2
<1>12. LatestInv'
  <2>1. PICK c \in 0..MaxCounter : LatestIs(c)
    BY DEF HandshakeInv, LatestInv
  <2>2. TheJob.session.counter = c
    BY <1>2, <2>1 DEF LatestIs, Tends
  <2>3. LatestIs(c)'
    BY <1>2, <1>3, <1>4, <1>5, <2>1, <2>2 DEF LatestIs
  <2> QED
    BY <2>3 DEF LatestInv
<1>13. ReportInv'
  BY <1>2, <1>3, ReportUnmoved DEF Consumed
<1>14. SaveInv'
  BY <1>2 DEF SaveInv
<1> QED
  BY <1>7, <1>8, <1>9, <1>10, <1>11, <1>12, <1>13, <1>14 DEF HandshakeInv

\* The second look at the session, before P (RecheckSession).
LEMMA RecheckKeeps ==
    ASSUME HandshakeInv, TypeOK', UNCHANGED <<ram, flash, uplink, cached, kept>>,
           RecheckSession(Device)
    PROVE  HandshakeInv'
<1>0. FieldsTyped /\ FieldsTyped' /\ Device \in Devices
  BY FieldsAreTyped, BoundsAre DEF HandshakeInv
<1>1. job \in [Devices -> Job] /\ sessions \in [Devices -> Session]
  BY DEF HandshakeInv, TypeOK, ListenerTypeOK
<1>2. /\ TheJob.pc = "recheck"
      /\ \/ /\ Under /\ Pend' = [Pend EXCEPT !.state = "PROVISIONING_SENT"]
            /\ TheJob'.pc = "send_p" /\ TheJob'.session = Pend'
         \/ Pend' = Pend /\ TheJob'.pc = "idle"
  BY <1>0, <1>1
  DEF RecheckSession, At, Goto, Return, IdleJob, Pending, TheJob, Pend, Under
<1>3. /\ Saved' = Saved /\ Now' = Now /\ nonce' = nonce /\ Heard' = Heard
      /\ certKey'[Device] = certKey[Device] /\ Commands' = Commands
  BY DEF RecheckSession, Saved, Now, Heard, Commands
<1>4. /\ UNCHANGED <<sState, provBlob, enrollCounter>>
      /\ Frames' = Frames
  BY FramesStay DEF ram, flash
<1>5. /\ Pend'.counter = Pend.counter /\ Pend'.random = Pend.random
      /\ Under' = Under
      /\ ~Under => Pend' = Pend
  BY <1>0, <1>2 DEF Under, FieldsTyped, Session
<1>6. TheJob'.pc = "send_p" => /\ TheJob'.session.counter = Pend.counter
                               /\ TheJob'.session.random = Pend.random
                               /\ Under
  BY <1>2, <1>5
<1>7. FrameInv' /\ DeviceInv' /\ AnswerInv'
  BY <1>0, <1>3, <1>4, DeviceUnmoved DEF FieldsTyped
<1>8. HeardInv'
  BY <1>2, <1>3, <1>4 DEF HandshakeInv, HeardInv, Bounded
<1>9. CertInv' /\ PendInv'
  BY <1>2, <1>3, <1>4, <1>5 DEF HandshakeInv, CertInv, PendInv
<1>10. JobInv'
  <2>1. TheJob.pc \in Tends => 1 < nonce
    BY DEF HandshakeInv, JobInv
  <2>2. TheJob'.pc \in {"send_p", "idle"}
    BY <1>2
  <2> QED
    BY <1>2, <1>3, <1>6, <2>1, <2>2
    DEF HandshakeInv, PendInv, JobInv, Draws, Tends
<1>11. CommandInv'
  BY <1>2, <1>3 DEF HandshakeInv, CommandInv
<1>12. LatestInv'
  <2>1. PICK c \in 0..MaxCounter : LatestIs(c)
    BY DEF HandshakeInv, LatestInv
  <2>2. TheJob'.pc \in Tends => TheJob'.session.counter = c
    BY <1>2, <1>6, <2>1 DEF LatestIs, Tends
  <2>3. LatestIs(c)'
    BY <1>3, <1>4, <1>5, <2>1, <2>2 DEF LatestIs
  <2> QED
    BY <2>3 DEF LatestInv
<1>13. ReportInv'
  <2>1. Consumed
    BY <1>2 DEF Consumed
  <2> QED
    BY <1>3, <1>5, <2>1, ReportUnmoved
<1>14. SaveInv'
  BY <1>2 DEF SaveInv
<1> QED
  BY <1>7, <1>8, <1>9, <1>10, <1>11, <1>12, <1>13, <1>14 DEF HandshakeInv

\* The context is saved (SaveContext): it is of the last attempt, which none
\* is pending after, and unless Enable OTA has been off the device holds it.
LEMMA SaveConfirms ==
    ASSUME HandshakeInv, SaveContext(Device)
    PROVE  /\ TheJob.pc = "save" /\ ~Under
           /\ Saved' = [counter |-> TheJob.session.counter,
                        random |-> TheJob.session.random]
           /\ Saved'.random = Now /\ Saved.random < Now
           /\ kept => Saved' = provBlob
<1>1. /\ context \in [Devices -> Context] /\ Device \in Devices
  BY BoundsAre DEF HandshakeInv, TypeOK, ListenerTypeOK
<1>2. /\ TheJob.pc = "save"
      /\ Saved' = [counter |-> TheJob.session.counter,
                   random |-> TheJob.session.random]
  BY <1>1 DEF SaveContext, At, TheJob, Saved
<1> QED
  BY <1>2 DEF HandshakeInv, JobInv, SaveInv, Tends

LEMMA SaveKeeps ==
    ASSUME HandshakeInv, TypeOK', UNCHANGED <<ram, flash, uplink, cached, kept>>,
           SaveContext(Device)
    PROVE  HandshakeInv'
<1>0. FieldsTyped /\ FieldsTyped' /\ Device \in Devices
  BY FieldsAreTyped, BoundsAre DEF HandshakeInv
<1>1. job \in [Devices -> Job]
  BY DEF HandshakeInv, TypeOK, ListenerTypeOK
<1>2. /\ TheJob.pc = "save" /\ ~Under /\ Saved'.random = Now
      /\ TheJob'.pc = "record_done" /\ TheJob'.session = TheJob.session
  BY <1>0, <1>1, SaveConfirms DEF SaveContext, Goto, TheJob
<1>3. /\ Pend' = Pend /\ Now' = Now /\ nonce' = nonce /\ Heard' = Heard
      /\ certKey'[Device] = certKey[Device] /\ Commands' = Commands
      /\ Under' = Under
  BY DEF SaveContext, Pend, Now, Heard, Commands, Under
<1>4. /\ UNCHANGED <<sState, provBlob, enrollCounter>>
      /\ Frames' = Frames
  BY FramesStay DEF ram, flash
<1>5. FrameInv' /\ DeviceInv' /\ AnswerInv'
  BY <1>0, <1>3, <1>4, DeviceUnmoved DEF FieldsTyped
<1>6. HeardInv'
  BY <1>2, <1>3, <1>4 DEF HandshakeInv, HeardInv, Bounded
<1>7. CertInv' /\ PendInv'
  BY <1>0, <1>2, <1>3, <1>4 DEF HandshakeInv, CertInv, PendInv, FieldsTyped, Now
<1>8. JobInv'
  BY <1>2, <1>3 DEF HandshakeInv, JobInv, Draws, Tends
<1>9. CommandInv'
  BY <1>2, <1>3 DEF HandshakeInv, CommandInv
<1>10. LatestInv'
  <2>1. PICK c \in 0..MaxCounter : LatestIs(c)
    BY DEF HandshakeInv, LatestInv
  <2>2. LatestIs(c)'
    BY <1>2, <1>3, <1>4, <2>1 DEF LatestIs, Tends
  <2> QED
    BY <2>2 DEF LatestInv
<1>11. ReportInv' /\ SaveInv'
  BY <1>2, <1>3 DEF ReportInv, SaveInv
<1> QED
  BY <1>5, <1>6, <1>7, <1>8, <1>9, <1>10, <1>11 DEF HandshakeInv

\* The certificate of the device comes before anything is accepted from it
\* (register_device_certificate): there is no counter to start over.
LEMMA CertificateKeeps ==
    ASSUME HandshakeInv, TypeOK', UNCHANGED <<ram, flash, uplink, cached, kept>>,
           RegisterCertificate(Device, DeviceKey)
    PROVE  HandshakeInv'
<1>0. FieldsTyped /\ FieldsTyped' /\ Device \in Devices
  BY FieldsAreTyped, BoundsAre DEF HandshakeInv
<1>1. /\ certKey \in [Devices -> Keys \cup {NoKey}]
      /\ helloCounter \in [Devices -> 0..MaxCounter]
  BY DEF HandshakeInv, TypeOK, ListenerTypeOK
<1>2. /\ certKey[Device] # DeviceKey /\ certKey'[Device] = DeviceKey
      /\ Heard' = 0
  BY <1>0, <1>1 DEF RegisterCertificate, Heard
<1>3. /\ Pend' = Pend /\ TheJob' = TheJob /\ Saved' = Saved /\ Now' = Now
      /\ nonce' = nonce /\ Commands' = Commands /\ Under' = Under
  BY DEF RegisterCertificate, Pend, TheJob, Saved, Now, Commands, Under
<1>4. /\ UNCHANGED <<sState, provBlob, enrollCounter>>
      /\ Frames' = Frames
  BY FramesStay DEF ram, flash
<1>5. nonce = 1 /\ TheJob.pc = "idle" /\ Now = 0
  BY <1>2 DEF HandshakeInv, CertInv, Now
<1>6. ~Under /\ ~Under'
  BY <1>0, <1>3, <1>5 DEF HandshakeInv, PendInv, FieldsTyped
<1>7. \A m \in Commands : FALSE
  BY <1>0, <1>5 DEF HandshakeInv, CommandInv, FieldsTyped
<1>8. FrameInv' /\ DeviceInv' /\ AnswerInv'
  BY <1>0, <1>3, <1>4, DeviceUnmoved DEF FieldsTyped
<1>9. HeardInv'
  BY <1>0, <1>2, <1>3, <1>4 DEF HandshakeInv, HeardInv, Bounded, FieldsTyped
<1>10. CertInv' /\ PendInv'
  BY <1>2, <1>3, <1>4, <1>6 DEF HandshakeInv, CertInv, PendInv
<1>11. JobInv' /\ CommandInv'
  BY <1>3, <1>5, <1>7 DEF JobInv, CommandInv, Draws, Tends
<1>12. LatestInv'
  <2>1. PICK c \in 0..MaxCounter : LatestIs(c)
    BY DEF HandshakeInv, LatestInv
  <2>2. LatestIs(c)'
    BY <1>3, <1>4, <2>1 DEF LatestIs
  <2> QED
    BY <2>2 DEF LatestInv
<1>13. ReportInv' /\ SaveInv'
  BY <1>3, <1>5, <1>6 DEF ReportInv, SaveInv
<1> QED
  BY <1>8, <1>9, <1>10, <1>11, <1>12, <1>13 DEF HandshakeInv

-----------------------------------------------------------------------------
(* The invariant *)

LEMMA HandshakeInit == Init => HandshakeInv
<1> SUFFICES ASSUME Init PROVE HandshakeInv
  OBVIOUS
<1>0. TypeOK /\ FieldsTyped /\ Device \in Devices
  BY TypeInit, FieldsAreTyped, BoundsAre
<1>1. /\ Pend = NoSession /\ TheJob.pc = "idle" /\ Heard = 0 /\ nonce = 1
      /\ Saved = NoContext /\ downlink[Device] = <<>>
  BY <1>0 DEF Init, ListenerInit, Pend, TheJob, Heard, Saved, IdleJob
<1>2. /\ sState = IdleSecure /\ provBlob = NoAttempt /\ enrollCounter = 0
      /\ hello = "none" /\ zb = "idle" /\ answer = NoResponse /\ acks = {}
      /\ uplink = <<>> /\ cached = <<>>
  BY DEF Init, EspInit
<1>3. Frames = {} /\ Commands = {} /\ Now = 0 /\ ~Under
  BY <1>1, <1>2 DEF Frames, Commands, Now, Under, NoSession
<1>4. FrameInv /\ CommandInv
  BY <1>3 DEF FrameInv, CommandInv
<1>5. HeardInv /\ DeviceInv
  BY <1>1, <1>2, <1>3
  DEF HeardInv, Bounded, DeviceInv, Waits, IdleSecure, Secured, NoAttempt
<1>6. CertInv /\ JobInv
  BY <1>1 DEF CertInv, JobInv, Draws, Tends
<1>7. PendInv /\ AnswerInv
  BY <1>1, <1>2, <1>3
  DEF PendInv, AnswerInv, NoContext, NoAttempt, NoResponse, SignedResponse
<1>8. LatestInv
  <2>1. 0 \in 0..MaxCounter
    BY BoundsAre
  <2>2. LatestIs(0)
    BY <1>1, <1>3 DEF LatestIs, Tends
  <2> QED
    BY <2>1, <2>2 DEF LatestInv
<1>9. ReportInv /\ SaveInv
  BY <1>1, <1>3 DEF ReportInv, SaveInv
<1> QED
  BY <1>0, <1>4, <1>5, <1>6, <1>7, <1>8, <1>9 DEF HandshakeInv

LEMMA NetworkKeeps ==
    ASSUME HandshakeInv, TypeOK',
           \/ FrameArrives \/ CachedFrameArrives \/ FrameMissed \/ FrameLost
           \/ CommandArrives \/ CommandLost \/ CommandRepeated
    PROVE  HandshakeInv'
<1>0. TypeOK /\ DeviceInv /\ kept \in BOOLEAN
  BY DEF HandshakeInv, TypeOK
<1>1. CASE FrameArrives
  <2>1. /\ uplink # <<>> /\ uplink' = Tail(uplink)
        /\ cached' = <<Head(uplink)>>
        /\ UNCHANGED <<ram, flash>> /\ KeepsClean
        /\ OnMessage(Device, Head(uplink))
    BY <1>1 DEF FrameArrives
  <2> QED
    BY <1>0, <2>1, FrameShifts, MessageKeeps
<1>2. CASE CachedFrameArrives
  <2>1. /\ cached # <<>> /\ OnMessage(Device, Head(cached))
        /\ UNCHANGED <<ram, flash>> /\ UNCHANGED <<uplink, cached>>
        /\ KeepsClean
    BY <1>2 DEF CachedFrameArrives, ListenerOnly, espVars
  <2>2. Thinned /\ Frames' = Frames
    BY <2>1, FramesStay
  <2>3. /\ Head(cached) \in Frames
        /\ \A g \in Frames' : g = Head(cached) \/ Follows(Head(cached), g)
    BY <1>0, <2>1, <2>2, CachedFirst
  <2> QED
    BY <2>1, <2>2, <2>3, MessageKeeps
<1>3. CASE FrameMissed
  BY <1>0, <1>3, FrameShifts, QuietMessage DEF FrameMissed
<1>4. CASE FrameLost
  BY <1>0, <1>4, FrameDrops, QuietMessage DEF FrameLost, DeviceOnly
<1>5. ASSUME UNCHANGED serverVars, UNCHANGED cached, KeepsClean
      PROVE  ServerStill /\ UNCHANGED <<cached, kept>>
  BY <1>0, <1>5 DEF serverVars, ServerStill, KeepsClean
<1>6. ASSUME NEW m \in Commands, HandleCommand(m), UNCHANGED serverVars,
             UNCHANGED cached, KeepsClean, Commands' \subseteq Commands
      PROVE  HandshakeInv'
  <2>1. CASE AcceptChallenge(m)
    BY <1>5, <1>6, <2>1, AcceptKeeps
  <2>2. CASE StoreProvisioning(m)
    BY <1>5, <1>6, <2>2, StoreKeeps
  <2>3. CASE IgnoreCommand(m)
    BY <1>0, <1>5, <1>6, <2>3, DeviceEffect, DeviceKeeps
  <2> QED
    BY <1>6, <2>1, <2>2, <2>3 DEF HandleCommand
<1>7. CASE CommandArrives
  <2>1. /\ CommandTaken /\ HandleCommand(Head(downlink[Device]))
        /\ UNCHANGED serverVars /\ UNCHANGED cached /\ KeepsClean
    BY <1>7 DEF CommandArrives
  <2> QED
    BY <1>0, <1>6, <2>1, CommandTakenLeaves
<1>8. CASE CommandLost
  <2>1. /\ CommandTaken /\ UNCHANGED serverVars /\ KeepsClean
        /\ UNCHANGED <<ram, flash>> /\ UNCHANGED <<uplink, cached>>
    BY <1>8 DEF CommandLost, ListenerOnly, espVars
  <2>2. /\ nonce' = nonce /\ certKey' = certKey /\ helloCounter' = helloCounter
        /\ context' = context /\ sessions' = sessions /\ job' = job
    BY <2>1 DEF serverVars
  <2>3. kept' = kept
    BY <1>0, <2>1, <2>2 DEF KeepsClean
  <2>4. Wanes
    BY <1>0, <2>1, <2>2, <2>3, CommandTakenLeaves, FramesStay
    DEF Wanes, GoesOn, TheJob, Pend, Heard, Saved
  <2> QED
    BY <2>4, WanesKeeps
<1>9. CASE CommandRepeated
  <2>1. /\ downlink[Device] # <<>> /\ HandleCommand(Head(downlink[Device]))
        /\ UNCHANGED listenerVars /\ UNCHANGED cached /\ KeepsClean
    BY <1>9 DEF CommandRepeated, DeviceOnly
  <2>2. UNCHANGED serverVars /\ Commands' = Commands
    BY <2>1 DEF listenerVars, serverVars, Commands
  <2>3. Head(downlink[Device]) \in Commands
    <3>1. downlink[Device] \in Seq(Command)
      BY <1>0, BoundsAre DEF TypeOK, ListenerTypeOK
    <3>2. 1 \in DOMAIN downlink[Device]
          /\ Head(downlink[Device]) = downlink[Device][1]
      BY <2>1, <3>1
    <3> QED
      BY <3>2 DEF Commands
  <2> QED
    BY <1>6, <2>1, <2>2, <2>3
<1> QED
  BY <1>1, <1>2, <1>3, <1>4, <1>7, <1>8, <1>9

LEMMA TaskKeeps ==
    ASSUME HandshakeInv, TypeOK',
           \/ \E n \in Writes : ApplyTask(n)
           \/ HelloTask \/ ZigbeeTask \/ AckTask \/ ReportTask \/ CheckTask
           \/ HelloTimesOut \/ DeviceFault
           \/ HelloElapsed /\ DeviceOnly
    PROVE  HandshakeInv'
<1>0. TypeOK /\ DeviceInv /\ kept \in BOOLEAN
  BY DEF HandshakeInv, TypeOK
<1>1. DeviceOnly
  BY DEF ApplyTask, HelloTask, ZigbeeTask, AckTask, ReportTask, CheckTask,
         HelloTimesOut, DeviceFault
<1>2. /\ ServerStill /\ UNCHANGED <<cached, kept>> /\ Commands' \subseteq Commands
  BY <1>0, <1>1 DEF DeviceOnly, KeepsClean, listenerVars, ServerStill, Commands
<1>3. Effect
  BY <1>0, DeviceEffect
  DEF ApplyTask, HelloTask, ZigbeeTask, AckTask, ReportTask, CheckTask,
      HelloTimesOut, DeviceFault
<1> QED
  BY <1>2, <1>3, DeviceKeeps

LEMMA ThreadKeeps ==
    ASSUME HandshakeInv, TypeOK', ListenerOnly,
           \/ JobStep(Device) \/ RecordTimeout \/ ExpireSessions({Device})
           \/ TimeoutThreadDies \/ ListenerStops \/ ListenerStarts
           \/ RegisterCertificate(Device, DeviceKey)
    PROVE  HandshakeInv'
<1>0. kept \in BOOLEAN
  BY DEF HandshakeInv, TypeOK
<1>1. /\ KeepsClean /\ UNCHANGED <<ram, flash>> /\ UNCHANGED <<uplink, cached>>
      /\ nonce' = nonce => kept' = kept
  BY <1>0 DEF ListenerOnly, espVars, KeepsClean
<1>2. CASE OpenSession(Device)
  BY <1>1, <1>2, OpenKeeps
<1>3. CASE \/ HelloAccepted(Device) \/ SendChallenge(Device)
           \/ SendProvisioning(Device) \/ RecheckSession(Device)
           \/ SaveContext(Device) \/ RegisterCertificate(Device, DeviceKey)
  <2>1. nonce' = nonce
    BY <1>3
    DEF HelloAccepted, SendChallenge, SendProvisioning, RecheckSession,
        SaveContext, RegisterCertificate
  <2> QED
    BY <1>1, <1>3, <2>1, AcceptedKeeps, SendKeeps, RecheckKeeps, SaveKeeps,
       CertificateKeeps
<1>4. CASE \/ HelloStale(Device) \/ RecordHello(Device)
           \/ ChallengeNotBuilt(Device) \/ RecordChallenge(Device)
           \/ RecordResponse(Device) \/ RecordProvisioning(Device)
           \/ SendFailed(Device) \/ DropSession(Device) \/ RecordError(Device)
           \/ SaveFailed(Device) \/ RecordCompletion(Device)
  BY <1>1, <1>4, QuietJob
<1>5. CASE \/ ExpireSessions({Device}) \/ RecordTimeout \/ TimeoutThreadDies
           \/ ListenerStops \/ ListenerStarts
  BY <1>1, <1>5, QuietProcess
<1> QED
  BY <1>2, <1>3, <1>4, <1>5 DEF JobStep

LEMMA HandshakeNext == HandshakeInv /\ [Next]_vars => HandshakeInv'
<1> SUFFICES ASSUME HandshakeInv, [Next]_vars PROVE HandshakeInv'
  OBVIOUS
<1>0. TypeOK'
  BY TypeNext DEF HandshakeInv
<1>1. CASE UNCHANGED vars
  <2>1. /\ ServerStill /\ UNCHANGED <<ram, flash>> /\ UNCHANGED <<uplink, cached>>
        /\ UNCHANGED listenerVars /\ kept' = kept
    BY <1>1 DEF vars, espVars, listenerVars, ServerStill
  <2>2. Wanes
    BY <2>1, FramesStay
    DEF Wanes, GoesOn, TheJob, Pend, Heard, Saved, Commands, listenerVars
  <2> QED
    BY <1>0, <2>2, WanesKeeps
<1>2. CASE \/ FrameArrives \/ CachedFrameArrives \/ FrameMissed \/ FrameLost
           \/ CommandArrives \/ CommandLost \/ CommandRepeated
  BY <1>0, <1>2, NetworkKeeps
<1>3. CASE \E on \in BOOLEAN : User(on)
  BY <1>0, <1>3, UserKeeps
<1>4. CASE \/ \E n \in Writes : ApplyTask(n)
           \/ HelloTask \/ ZigbeeTask \/ AckTask \/ ReportTask \/ CheckTask
           \/ HelloTimesOut \/ DeviceFault
  BY <1>0, <1>4, TaskKeeps
<1>5. CASE SlowFrames
  BY <1>0, <1>5, TaskKeeps, ThreadKeeps DEF SlowFrames
<1>6. CASE \/ SessionTimesOut \/ MqttThread \/ TimeoutThread
           \/ ListenerProcess \/ FirmwarePublish
  BY <1>0, <1>6, ThreadKeeps
  DEF SessionTimesOut, MqttThread, TimeoutThread, ListenerProcess, FirmwarePublish
<1> QED
  BY <1>1, <1>2, <1>3, <1>4, <1>5, <1>6 DEF Next

LEMMA HandshakeHolds == Spec => []HandshakeInv
BY HandshakeInit, HandshakeNext, PTL DEF Spec

-----------------------------------------------------------------------------
(* The promise *)

PromiseStill == UNCHANGED <<nonce, kept, provBlob>> /\ Saved' = Saved

PromiseStep == Promise!Next \/ PromiseStill

\* What a device does that installs nothing.
LEMMA DeviceStepsStill ==
    ASSUME HandshakeInv,
           DeviceOnly \/ (UNCHANGED <<serverVars, cached>> /\ KeepsClean),
           UNCHANGED provBlob
    PROVE  PromiseStill
<1>1. nonce' = nonce /\ context' = context /\ KeepsClean
  BY DEF DeviceOnly, listenerVars, serverVars
<1> QED
  BY <1>1 DEF PromiseStill, Saved, KeepsClean, HandshakeInv, TypeOK

\* A configuration installed is that of the attempt offered last.
LEMMA StoreInstalls ==
    ASSUME HandshakeInv, NEW m \in Commands, StoreProvisioning(m),
           DeviceOnly \/ (UNCHANGED <<serverVars, cached>> /\ KeepsClean)
    PROVE  Promise!Install
<1>0. FieldsTyped
  BY FieldsAreTyped DEF HandshakeInv
<1>1. nonce' = nonce /\ context' = context /\ KeepsClean
  BY DEF DeviceOnly, listenerVars, serverVars
<1>2. kept' = kept
  BY <1>1 DEF KeepsClean, HandshakeInv, TypeOK
<1>3. /\ m.random = Now /\ provBlob.random < Now
      /\ provBlob' = [counter |-> m.counter, random |-> m.random]
  BY StoreInstallsLast
<1>4. m.counter \in Nat /\ m.random \in Nat
  BY <1>0 DEF FieldsTyped
<1>5. provBlob' \in [counter : Nat, random : Nat] /\ provBlob'.random = Now
  BY <1>3, <1>4
<1> QED
  BY <1>1, <1>2, <1>3, <1>5 DEF Promise!Install, Promise!Attempts, Now

LEMMA NetworkSteps ==
    ASSUME HandshakeInv,
           \/ FrameArrives \/ CachedFrameArrives \/ FrameMissed \/ FrameLost
           \/ CommandArrives \/ CommandLost \/ CommandRepeated
    PROVE  PromiseStep
<1>0. TypeOK
  BY DEF HandshakeInv
<1>1. ASSUME NEW f, OnMessage(Device, f) PROVE nonce' = nonce /\ context' = context
  BY <1>1
  DEF OnMessage, OnHello, OnResponse, OnControl, HelloIgnored, HelloRejected,
      HelloVerified, ResponseIgnored, ResponseVerified, ResponseRejected,
      ControlIgnored, AttemptFinished, listenerVars
<1>2. CASE \/ FrameArrives \/ CachedFrameArrives \/ FrameMissed \/ FrameLost
           \/ CommandLost
  <2>1. /\ nonce' = nonce /\ context' = context /\ provBlob' = provBlob
        /\ KeepsClean
    BY <1>1, <1>2
    DEF FrameArrives, CachedFrameArrives, FrameMissed, FrameLost, CommandLost,
        DeviceOnly, ListenerOnly, listenerVars, serverVars, espVars, flash
  <2> QED
    BY <1>0, <2>1 DEF PromiseStep, PromiseStill, KeepsClean, TypeOK, Saved
<1>3. CASE CommandArrives \/ CommandRepeated
  <2>1. /\ downlink[Device] # <<>> /\ HandleCommand(Head(downlink[Device]))
        /\ DeviceOnly \/ (UNCHANGED <<serverVars, cached>> /\ KeepsClean)
    BY <1>3 DEF CommandArrives, CommandRepeated, CommandTaken, DeviceOnly
  <2>2. Head(downlink[Device]) \in Commands
    <3>1. downlink[Device] \in Seq(Command)
      BY <1>0, BoundsAre DEF TypeOK, ListenerTypeOK
    <3>2. 1 \in DOMAIN downlink[Device]
          /\ Head(downlink[Device]) = downlink[Device][1]
      BY <2>1, <3>1
    <3> QED
      BY <3>2 DEF Commands
  <2>3. PICK m \in Commands : HandleCommand(m)
    BY <2>1, <2>2
  <2>4. CASE StoreProvisioning(m)
    BY <2>1, <2>4, StoreInstalls DEF PromiseStep, Promise!Next
  <2>5. CASE AcceptChallenge(m) \/ IgnoreCommand(m)
    <3>1. provBlob' = provBlob
      BY <2>5 DEF AcceptChallenge, IgnoreCommand, espVars, flash
    <3> QED
      BY <2>1, <3>1, DeviceStepsStill DEF PromiseStep
  <2> QED
    BY <2>3, <2>4, <2>5 DEF HandleCommand
<1> QED
  BY <1>2, <1>3

\* Enable OTA written.
LEMMA UserSteps ==
    ASSUME HandshakeInv, NEW on \in BOOLEAN, User(on)
    PROVE  PromiseStep
<1>1. /\ nonce' = nonce /\ Saved' = Saved /\ provBlob' = provBlob
      /\ kept' = (kept /\ (on \/ sessions[Device] = NoSession))
  BY DEF User, UserWrites, flash, listenerVars, Saved
<1>2. kept \in BOOLEAN
  BY DEF HandshakeInv, TypeOK
<1>3. CASE kept' = kept
  BY <1>1, <1>3 DEF PromiseStep, PromiseStill
<1>4. CASE kept' # kept
  <2>1. kept' = FALSE
    BY <1>1, <1>2, <1>4
  <2> QED
    BY <1>1, <2>1 DEF PromiseStep, Promise!Next, Promise!SwitchOff, Saved
<1> QED
  BY <1>3, <1>4

LEMMA ThreadSteps ==
    ASSUME HandshakeInv, ListenerOnly,
           \/ JobStep(Device) \/ RecordTimeout \/ ExpireSessions({Device})
           \/ TimeoutThreadDies \/ ListenerStops \/ ListenerStarts
           \/ RegisterCertificate(Device, DeviceKey)
    PROVE  PromiseStep
<1>0. FieldsTyped /\ kept \in BOOLEAN
  BY FieldsAreTyped DEF HandshakeInv, TypeOK
<1>1. provBlob' = provBlob /\ kept' = (kept \/ nonce' # nonce)
  BY DEF ListenerOnly, espVars, flash, KeepsClean
<1>2. CASE OpenSession(Device)
  <2>1. nonce' = nonce + 1 /\ context' = context
    BY <1>2 DEF OpenSession
  <2>2. nonce' - 1 = nonce - 1 + 1 /\ nonce' # nonce
    BY <1>0, <2>1 DEF FieldsTyped
  <2>3. kept' = TRUE
    BY <1>1, <2>2
  <2>4. Promise!Offer
    BY <1>1, <2>1, <2>2, <2>3 DEF Promise!Offer
  <2> QED
    BY <2>4 DEF PromiseStep, Promise!Next
<1>3. CASE SaveContext(Device)
  <2>1. nonce' = nonce
    BY <1>3 DEF SaveContext
  <2>2. /\ Saved' = [counter |-> TheJob.session.counter,
                     random |-> TheJob.session.random]
        /\ Saved'.random = Now /\ Saved.random < Now
        /\ kept => Saved' = provBlob
    BY <1>3, SaveConfirms
  <2>3. Saved' \in [counter : Nat, random : Nat]
    BY <1>0, <2>2 DEF FieldsTyped
  <2>4. kept' = kept
    BY <1>0, <1>1, <2>1
  <2>5. Promise!Confirm
    BY <1>1, <2>1, <2>2, <2>3, <2>4
    DEF Promise!Confirm, Promise!Attempts, Now, Saved
  <2> QED
    BY <2>5 DEF PromiseStep, Promise!Next
<1>4. CASE ~OpenSession(Device) /\ ~SaveContext(Device)
  <2>1. nonce' = nonce /\ context' = context
    BY <1>4
    DEF JobStep, HelloAccepted, HelloStale, RecordHello, ChallengeNotBuilt,
        SendChallenge, RecordChallenge, RecordResponse, RecheckSession,
        SendProvisioning, RecordProvisioning, SendFailed, DropSession,
        RecordError, SaveFailed, RecordCompletion, RecordTimeout,
        ExpireSessions, TimeoutThreadDies, ListenerStops, ListenerStarts,
        RegisterCertificate
  <2> QED
    BY <1>0, <1>1, <2>1 DEF PromiseStep, PromiseStill, Saved
<1> QED
  BY <1>2, <1>3, <1>4

LEMMA PromiseSteps == HandshakeInv /\ [Next]_vars => PromiseStep
<1> SUFFICES ASSUME HandshakeInv, [Next]_vars PROVE PromiseStep
  OBVIOUS
<1>1. CASE UNCHANGED vars
  BY <1>1
  DEF vars, espVars, flash, listenerVars, PromiseStep, PromiseStill, Saved
<1>2. CASE \/ FrameArrives \/ CachedFrameArrives \/ FrameMissed \/ FrameLost
           \/ CommandArrives \/ CommandLost \/ CommandRepeated
  BY <1>2, NetworkSteps
<1>3. CASE \E on \in BOOLEAN : User(on)
  BY <1>3, UserSteps
<1>4. ASSUME DeviceOnly, DeviceInv,
             \/ \E n \in Writes : ApplyStep(n)
             \/ HelloStep \/ HelloElapsed \/ HelloFails
             \/ ZigbeeStep \/ SendResponse \/ ChallengeNotStored \/ PersistFails
             \/ InitialReport \/ FirmwareStatus \/ Reboot
      PROVE  PromiseStep
  <2>1. Effect
    BY <1>4, DeviceEffect DEF HandshakeInv
  <2> QED
    BY <1>4, <2>1, DeviceStepsStill DEF PromiseStep, Effect, SecureEffect
<1>5. CASE \/ \E n \in Writes : ApplyTask(n)
           \/ HelloTask \/ ZigbeeTask \/ AckTask \/ ReportTask \/ CheckTask
           \/ HelloTimesOut \/ DeviceFault
  <2>1. DeviceInv
    BY DEF HandshakeInv
  <2> QED
    BY <1>4, <1>5, <2>1
    DEF ApplyTask, HelloTask, ZigbeeTask, AckTask, ReportTask, CheckTask,
        HelloTimesOut, DeviceFault
<1>6. CASE SlowFrames
  BY <1>4, <1>6, ThreadSteps DEF SlowFrames, HandshakeInv
<1>7. CASE \/ SessionTimesOut \/ MqttThread \/ TimeoutThread
           \/ ListenerProcess \/ FirmwarePublish
  BY <1>7, ThreadSteps
  DEF SessionTimesOut, MqttThread, TimeoutThread, ListenerProcess, FirmwarePublish
<1> QED
  BY <1>1, <1>2, <1>3, <1>5, <1>6, <1>7 DEF Next

\* Under every loss, repetition, delay, restart and flash failure the device
\* installs a configuration only of the attempt challenged last, and the
\* server takes only that one for its durable context, and only when the
\* device holds it, unless Enable OTA has been switched off meanwhile: the
\* handshake implements ProvisioningPromise.
THEOREM PromiseKept == Spec => KeepsPromise
<1>1. Init => Promise!Init
  <2> SUFFICES ASSUME Init PROVE Promise!Init
    OBVIOUS
  <2>1. /\ nonce = 1 /\ kept = TRUE /\ provBlob = NoAttempt
        /\ context[Device] = NoContext
    BY BoundsAre DEF Init, ListenerInit, EspInit
  <2> QED
    BY <2>1 DEF Promise!Init, Promise!None, NoAttempt, NoContext
<1>2. PromiseStep => [Promise!Next]_(Promise!promiseVars)
  BY DEF PromiseStep, PromiseStill, Saved, Promise!promiseVars
<1>3. HandshakeInv /\ [Next]_vars => [Promise!Next]_(Promise!promiseVars)
  BY <1>2, PromiseSteps
<1> QED
  BY <1>1, <1>3, HandshakeHolds, PTL DEF Spec, KeepsPromise, Promise!Spec

-----------------------------------------------------------------------------
(* An undisturbed attempt: what both sides have come to *)

\* The attempt as the session that the server has of it.
This(state) == [counter |-> enrollCounter, random |-> Now, key |-> DeviceKey,
                state |-> state]
ThisContext == [counter |-> enrollCounter, random |-> Now]
ThisHello == SignedHello(enrollCounter)
ThisResponse == SignedResponse(enrollCounter, Now)
ThisCommand(kind) == [kind |-> kind, counter |-> enrollCounter, random |-> Now,
                      key |-> DeviceKey]
Completion == ControlState(FALSE, "complete")

ServerUp ==
    threads = Threads /\ expired = {} /\ certKey[Device] = DeviceKey

\* The server has nothing of this attempt, and takes no older H for it.
Vacant ==
    /\ Pend = NoSession /\ downlink[Device] = <<>>
    /\ \/ TheJob = IdleJob
       \/ TheJob.pc = "accept" /\ TheJob.session.counter <= Heard
    /\ \A i \in DOMAIN cached : cached[i].kind = "H" => cached[i].counter <= Heard

\* A frame that the server ignores.
Plain(f) == f.kind = "T" /\ ~f.done

Still == zb = "idle" /\ acks = {}
NoApply == \A n \in Writes : apply[n] = "none"
Working == enable /\ NoApply /\ status = "started"

Challenges == sState = Secured("WAIT_CHALLENGE", enrollCounter, 0)
Provisions == sState = Secured("WAIT_PROVISIONING", enrollCounter, Now)

Installed ==
    /\ 0 < enrollCounter
    /\ sState = Secured("PROVISIONED", enrollCounter, 0)
    /\ stateBlob = Secured("PROVISIONED", enrollCounter, Now)

\* The hello task may be anywhere behind its wait.
Ending == {"wait", "judge", "done", "none"}

\* The MQTT thread is in this step of the attempt, or through with it.
Does(pc, state) == TheJob = [pc |-> pc, session |-> This(state)]
DoesOrIdle(pc, state) == Does(pc, state) \/ TheJob = IdleJob

-----------------------------------------------------------------------------
(* The phases of an undisturbed attempt *)

\* Enable OTA has been written.
Switches ==
    /\ Vacant /\ Still /\ enable /\ hello = "none" /\ Heard <= enrollCounter
    /\ \A i \in DOMAIN uplink : Plain(uplink[i])
    /\ \E n \in Writes :
          /\ apply[n] \in {"delayed", "on", "schedule"}
          /\ apply[n] = "schedule" => sState = IdleSecure
          /\ \A k \in Writes : k # n => apply[k] = "none"

\* The hello task draws its counter.
Greets ==
    /\ Vacant /\ Still /\ Working
    /\ \A i \in DOMAIN uplink : Plain(uplink[i])
    /\ \/ hello \in {"begin", "draw"} /\ Heard <= enrollCounter /\ sState = IdleSecure
       \/ hello = "enter" /\ Heard < enrollCounter /\ sState = IdleSecure
       \/ hello = "send" /\ Heard < enrollCounter /\ Challenges

\* H is on its way, behind T that switching on has sent.
Calls ==
    /\ Vacant /\ Still /\ Working /\ hello = "wait"
    /\ Heard < enrollCounter /\ Challenges
    /\ uplink # <<>> /\ uplink[Len(uplink)] = ThisHello
    /\ \A i \in 1..(Len(uplink) - 1) : Plain(uplink[i])

\* The server accepts it and sends the challenge.
Opening ==
    /\ TheJob.session = [NoSession EXCEPT !.counter = enrollCounter,
                                          !.key = DeviceKey]
    /\ Pend = NoSession /\ downlink[Device] = <<>>
    /\ \/ TheJob.pc = "accept" /\ Heard < enrollCounter
       \/ TheJob.pc \in {"record_h", "open"}
Challenging ==
    /\ Pend = This("WAIT_RESPONSE")
    /\ \/ Does("send_a", "WAIT_RESPONSE") /\ downlink[Device] = <<>>
       \/ /\ DoesOrIdle("record_a", "WAIT_RESPONSE")
          /\ downlink[Device] = <<ThisCommand("A")>>
Heeds ==
    /\ Still /\ Working /\ hello = "wait" /\ Challenges
    /\ uplink = <<>> /\ cached = <<ThisHello>>
    /\ Opening \/ Challenging

\* The device answers it.
Signing ==
    /\ zb = "answer" /\ answer = ThisResponse /\ Challenges
    /\ acks = {} /\ uplink = <<>>
Replying ==
    /\ zb = "idle" /\ Provisions
    /\ \/ acks = {ThisResponse} /\ uplink = <<>>
       \/ acks = {} /\ uplink = <<ThisResponse>>
Replies ==
    /\ Working /\ hello = "wait" /\ cached = <<ThisHello>>
    /\ Pend = This("WAIT_RESPONSE") /\ downlink[Device] = <<>>
    /\ DoesOrIdle("record_a", "WAIT_RESPONSE")
    /\ Signing \/ Replying

\* The server sends the configuration.
Checking ==
    /\ Does("record_r", "WAIT_RESPONSE") \/ Does("recheck", "WAIT_RESPONSE")
    /\ Pend = This("WAIT_RESPONSE") /\ downlink[Device] = <<>>
Providing ==
    /\ Pend = This("PROVISIONING_SENT")
    /\ \/ Does("send_p", "PROVISIONING_SENT") /\ downlink[Device] = <<>>
       \/ /\ DoesOrIdle("record_p", "PROVISIONING_SENT")
          /\ downlink[Device] = <<ThisCommand("P")>>
Serves ==
    /\ Still /\ Working /\ hello = "wait" /\ Provisions
    /\ uplink = <<>> /\ cached = <<ThisResponse>>
    /\ Checking \/ Providing

\* The server waits for the report.
Awaited ==
    /\ Pend = This("PROVISIONING_SENT") /\ cached = <<ThisResponse>>
    /\ DoesOrIdle("record_p", "PROVISIONING_SENT")

\* The device installs it.
Stores ==
    /\ NoApply /\ acks = {} /\ uplink = <<>> /\ downlink[Device] = <<>>
    /\ Awaited
    /\ \/ zb = "persist" /\ Provisions /\ Working /\ hello = "wait"
       \/ zb = "status" /\ Installed /\ Working /\ hello \in Ending
       \/ /\ zb = "publish" /\ Installed /\ hello \in Ending
          /\ ~enable /\ status = "complete"

\* The report is on its way, and the server saves the context.
Saving ==
    /\ Pend = NoSession /\ cached = <<Completion>>
    /\ \/ Does("save", "PROVISIONING_SENT")
       \/ /\ Does("record_done", "PROVISIONING_SENT")
          /\ context[Device] = ThisContext
       \/ /\ TheJob = IdleJob /\ context[Device] = ThisContext
          /\ attempts[Device][enrollCounter] = "COMPLETED"
Confirms ==
    /\ NoApply /\ acks = {} /\ downlink[Device] = <<>>
    /\ Installed /\ ~enable /\ status = "complete" /\ hello \in Ending
    /\ zb \in {"snapshot", "disable", "idle"}
    /\ zb # "snapshot" => contextBlob = ThisContext
    /\ \/ uplink = <<Completion>> /\ Awaited
       \/ uplink = <<>> /\ Saving

Phases ==
    \/ Switches \/ Greets \/ Calls \/ Heeds \/ Replies \/ Serves \/ Stores
    \/ Confirms

CleanInv == clean => ServerUp /\ ~reporting /\ Phases

-----------------------------------------------------------------------------
(* The device in it *)

LEMMA OneIs ==
    \A x : /\ Append(<<>>, x) = <<x>> /\ Head(<<x>>) = x /\ Tail(<<x>>) = <<>>
           /\ <<x>> # <<>> /\ Len(<<x>>) = 1 /\ <<x>>[1] = x
OBVIOUS

\* A T behind T.
LEMMA PlainSent ==
    ASSUME TypeOK, NEW f, f \in Frame, uplink' = Append(uplink, f),
           \A i \in DOMAIN uplink : Plain(uplink[i])
    PROVE  /\ Plain(f) => \A i \in DOMAIN uplink' : Plain(uplink'[i])
           /\ uplink' # <<>> /\ uplink'[Len(uplink')] = f
           /\ \A i \in 1..(Len(uplink') - 1) : Plain(uplink'[i])
<1>1. uplink \in Seq(Frame)
  BY DEF TypeOK
<1>2. /\ Len(uplink) \in Nat /\ DOMAIN uplink = 1..Len(uplink)
      /\ Len(uplink') = Len(uplink) + 1 /\ DOMAIN uplink' = 1..(Len(uplink) + 1)
      /\ \A i \in 1..Len(uplink) : uplink'[i] = uplink[i]
      /\ uplink'[Len(uplink) + 1] = f
  BY <1>1
<1> QED
  BY <1>2

\* Only the last write of Enable OTA is being applied (apply_enable_task).
LEMMA SwitchingKeepsClean ==
    ASSUME TypeOK, Phases, NEW n \in Writes, ApplyStep(n),
           UNCHANGED <<listenerVars, cached>>
    PROVE  Phases'
<1> USE DEF TheJob, Pend, Heard, Now
<1>1. apply[n] # "none"
  BY DEF ApplyStep, ApplyStarts, ApplyOn, ApplySchedule, ApplyOff
<1>2. Switches
  BY <1>1 DEF Phases, Greets, Calls, Heeds, Replies, Serves, Stores, Confirms,
              Working, NoApply
<1>3. /\ apply[n] \in {"delayed", "on", "schedule"}
      /\ apply[n] = "schedule" => sState = IdleSecure
      /\ \A k \in Writes : k # n => apply[k] = "none"
  BY <1>1, <1>2 DEF Switches
<1>4. /\ apply \in [Writes -> ApplyPcs] /\ enable
      /\ Vacant' = Vacant /\ Heard' = Heard
  BY <1>2 DEF TypeOK, EspTypeOK, Switches, Vacant, listenerVars
<1>5. ASSUME NEW st, uplink' = Append(uplink, ControlState(TRUE, st))
      PROVE  \A i \in DOMAIN uplink' : Plain(uplink'[i])
  <2>1. Plain(ControlState(TRUE, st)) /\ ControlState(TRUE, st) \in Frame
    BY ControlFrame DEF Plain, ControlState
  <2> QED
    BY <1>2, <1>5, <2>1, PlainSent DEF Switches
<1>6. CASE ApplyStarts(n)
  <2>1. \A i \in DOMAIN uplink' : Plain(uplink'[i])
    BY <1>4, <1>5, <1>6 DEF ApplyStarts, PublishState
  <2>2. apply'[n] = "on" /\ \A k \in Writes : k # n => apply'[k] = "none"
    BY <1>3, <1>4, <1>6 DEF ApplyStarts
  <2>3. Switches'
    BY <1>2, <1>4, <1>6, <2>1, <2>2 DEF ApplyStarts, Switches, Still, flash
  <2> QED
    BY <2>3 DEF Phases
<1>7. CASE ApplyOn(n)
  <2>1. apply'[n] = "schedule" /\ \A k \in Writes : k # n => apply'[k] = "none"
    BY <1>3, <1>4, <1>7 DEF ApplyOn
  <2>2. Switches'
    BY <1>2, <1>4, <1>7, <2>1 DEF ApplyOn, Switches, Still
  <2> QED
    BY <2>2 DEF Phases
<1>8. CASE ApplySchedule(n)
  <2>1. NoApply'
    BY <1>3, <1>4, <1>8 DEF ApplySchedule, NoApply
  <2>2. \A i \in DOMAIN uplink' : Plain(uplink'[i])
    <3>1. CASE uplink' = uplink
      BY <1>2, <3>1 DEF Switches
    <3>2. CASE uplink' = Append(uplink, ControlState(TRUE, "started"))
      BY <1>5, <3>2
    <3>3. enable = TRUE
      BY <1>4 DEF TypeOK, EspTypeOK
    <3> QED
      BY <1>8, <3>1, <3>2, <3>3 DEF ApplySchedule, ReportProgress, PublishState
  <2>3. status' = "started" /\ hello' = "begin" /\ sState' = IdleSecure
    BY <1>2, <1>3, <1>8 DEF ApplySchedule, ReportProgress, Switches
  <2>4. Greets'
    BY <1>2, <1>4, <1>8, <2>1, <2>2, <2>3
    DEF ApplySchedule, Switches, Greets, Working, Still, flash
  <2> QED
    BY <2>4 DEF Phases
<1> QED
  BY <1>3, <1>6, <1>7, <1>8 DEF ApplyStep, ApplyOff

\* The hello task, up to its H and from its wait on.
LEMMA GreetingKeepsClean ==
    ASSUME TypeOK, Phases, HelloStep, UNCHANGED <<listenerVars, cached>>
    PROVE  Phases'
<1> USE DEF TheJob, Pend, Heard, Now
<1>1. CASE hello \in {"begin", "draw", "enter", "send"}
  <2>1. Greets
    BY <1>1 DEF Phases, Switches, Calls, Heeds, Replies, Serves, Stores,
                Confirms, Ending
  <2>2. /\ Vacant' = Vacant /\ Heard' = Heard /\ Heard \in 0..MaxCounter
        /\ enrollCounter \in 0..MaxHello
    BY BoundsAre DEF Vacant, listenerVars, TypeOK, EspTypeOK, ListenerTypeOK
  <2>3. CASE HelloBegin
    <3>1. UNCHANGED <<sState, status, uplink>>
      BY <2>1, <2>3
      DEF HelloBegin, Greets, Working, ReportProgress, ResetForRetry,
          IdleSecure, Secured, Provisioned
    <3>2. Greets'
      BY <2>1, <2>2, <2>3, <3>1 DEF HelloBegin, Greets, Working, NoApply, Still
    <3> QED
      BY <3>2 DEF Phases
  <2>4. CASE HelloDraw
    <3>1. Heard < enrollCounter'
      BY <2>1, <2>2, <2>4 DEF HelloDraw, Greets
    <3>2. Greets'
      BY <2>1, <2>2, <2>4, <3>1 DEF HelloDraw, Greets, Working, NoApply, Still
    <3> QED
      BY <3>2 DEF Phases
  <2>5. CASE HelloEnter
    <3>1. Greets'
      BY <2>1, <2>2, <2>5
      DEF HelloEnter, Greets, Working, NoApply, Still, Challenges
    <3> QED
      BY <3>1 DEF Phases
  <2>6. CASE HelloSend
    <3>1. uplink' = Append(uplink, ThisHello) /\ ThisHello \in Frame
      BY <2>2, <2>6, HelloFrame DEF HelloSend, ThisHello
    <3>2. ThisHello' = ThisHello
      BY <2>6 DEF HelloSend, ThisHello, flash
    <3>3. Calls'
      BY <2>1, <2>2, <2>6, <3>1, <3>2, PlainSent
      DEF HelloSend, Greets, Calls, Working, NoApply, Still, Challenges, flash
    <3> QED
      BY <3>3 DEF Phases
  <2>7. ~HelloRefused
    BY <2>1 DEF HelloRefused, Greets, Working, IdleSecure, Secured
  <2> QED
    BY <1>1, <2>3, <2>4, <2>5, <2>6, <2>7
    DEF HelloStep, HelloStop, HelloJudge, HelloExpire, HelloDone
<1>2. CASE hello \notin {"begin", "draw", "enter", "send"}
  <2>1. HelloStop \/ HelloJudge \/ HelloExpire \/ HelloDone
    BY <1>2 DEF HelloStep, HelloBegin, HelloDraw, HelloEnter, HelloSend,
                HelloRefused
  <2>2. /\ Stores \/ Confirms
        /\ Installed /\ hello # "none"
    BY <1>2, <2>1
    DEF Phases, Switches, Greets, Calls, Heeds, Replies, Serves, Stores,
        Confirms, Ending, Working, Challenges, Provisions, Secured, Provisioned,
        Signing, Replying, HelloStop, HelloJudge, HelloExpire, HelloDone
  <2>3. Provisioned
    BY <2>2 DEF Installed, Provisioned, Secured
  <2>4. /\ UNCHANGED <<sState, stateBlob, enable, status, apply, zb, acks,
                       contextBlob, enrollCounter, uplink>>
        /\ hello \in Ending /\ hello' \in Ending
    BY <2>1, <2>2, <2>3
    DEF HelloStop, HelloJudge, HelloExpire, HelloDone, ResetForRetry, Ending,
        Stores, Confirms, Provisions, Secured, Provisioned, flash
  <2>5. CASE Stores
    <3>1. Stores'
      BY <2>2, <2>3, <2>4, <2>5
      DEF Stores, NoApply, Awaited, This, DoesOrIdle, Does, Installed, Working,
          Provisions, Provisioned, Secured, listenerVars, ThisResponse
    <3> QED
      BY <3>1 DEF Phases
  <2>6. CASE Confirms
    <3>1. Confirms'
      BY <2>4, <2>6
      DEF Confirms, NoApply, Awaited, This, DoesOrIdle, Does, Installed, Saving,
          listenerVars, ThisResponse, ThisContext, Completion
    <3> QED
      BY <3>1 DEF Phases
  <2> QED
    BY <2>2, <2>5, <2>6
<1> QED
  BY <1>1, <1>2

\* From the signature to the report, in the Zigbee task.
LEMMA ZigbeeKeepsClean ==
    ASSUME TypeOK, PendInv, Phases, ZigbeeStep, UNCHANGED <<listenerVars, cached>>
    PROVE  Phases'
<1> USE DEF TheJob, Pend, Heard, Now
<1>1. zb # "idle"
  BY DEF ZigbeeStep, ScheduleResponse, PersistProvisioned, StatusComplete,
         PublishComplete, SnapshotContext, DisableAfterProvisioning
<1>2. \/ Replies /\ Signing
      \/ Stores
      \/ Confirms
  BY <1>1 DEF Phases, Switches, Greets, Calls, Heeds, Replies, Serves, Still,
              Replying, Signing
<1>3. CASE Replies /\ Signing
  <2>1. ScheduleResponse
    BY <1>3 DEF ZigbeeStep, Signing, PersistProvisioned, StatusComplete,
                PublishComplete, SnapshotContext, DisableAfterProvisioning
  <2>2. /\ Provisions' /\ acks' = {ThisResponse} /\ zb' = "idle"
        /\ ThisResponse' = ThisResponse
    BY <1>3, <2>1
    DEF ScheduleResponse, Signing, Challenges, Provisions, Secured, ThisResponse,
        SignedResponse, listenerVars
  <2>3. Replies'
    BY <1>3, <2>1, <2>2
    DEF ScheduleResponse, Replies, Signing, Replying, Working, NoApply, This,
        DoesOrIdle, Does, ThisHello, listenerVars
  <2> QED
    BY <2>3 DEF Phases
<1>4. CASE Stores
  <2>1. /\ Awaited' = Awaited /\ Awaited
        /\ enrollCounter' = enrollCounter
        /\ acks' = {} /\ downlink'[Device] = <<>> /\ hello' = hello
    BY <1>1, <1>4
    DEF Stores, Awaited, This, DoesOrIdle, Does, ThisResponse, listenerVars,
        ZigbeeStep, ScheduleResponse, PersistProvisioned, StatusComplete,
        PublishComplete, SnapshotContext, DisableAfterProvisioning, flash
  <2>2. CASE zb = "persist"
    <3>1. PersistProvisioned /\ Provisions /\ Working /\ hello = "wait"
      BY <1>4, <2>2
      DEF Stores, ZigbeeStep, ScheduleResponse, StatusComplete, PublishComplete,
          SnapshotContext, DisableAfterProvisioning
    <3>2. 0 < enrollCounter
      BY <2>1, BoundsAre
      DEF Awaited, This, PendInv, Under, TypeOK, EspTypeOK, ListenerTypeOK
    <3>3. Installed'
      BY <2>1, <3>1, <3>2
      DEF PersistProvisioned, Provisions, Installed, Secured, listenerVars
    <3>4. Stores'
      BY <1>4, <2>1, <3>1, <3>3
      DEF Stores, PersistProvisioned, Working, NoApply, Ending
    <3> QED
      BY <3>4 DEF Phases
  <2>3. CASE zb = "status"
    <3>1. StatusComplete /\ Installed /\ Working /\ hello \in Ending
      BY <1>4, <2>3
      DEF Stores, ZigbeeStep, ScheduleResponse, PersistProvisioned,
          PublishComplete, SnapshotContext, DisableAfterProvisioning
    <3>2. /\ zb' = "publish" /\ status' = "complete" /\ ~enable'
          /\ apply' = Superseded
      BY <3>1 DEF StatusComplete, Working, ChangeStatus, TerminalStatuses
    <3>3. NoApply'
      BY <3>1, <3>2 DEF Working, NoApply, Superseded
    <3>4. Stores'
      BY <1>4, <2>1, <3>1, <3>2, <3>3
      DEF Stores, StatusComplete, Installed, listenerVars, flash
    <3> QED
      BY <3>4 DEF Phases
  <2>4. CASE zb = "publish"
    <3>1. /\ PublishComplete /\ Installed /\ hello \in Ending
          /\ ~enable /\ status = "complete" /\ uplink = <<>> /\ NoApply
      BY <1>4, <2>4
      DEF Stores, ZigbeeStep, ScheduleResponse, PersistProvisioned,
          StatusComplete, SnapshotContext, DisableAfterProvisioning
    <3>2. enable = FALSE
      BY <3>1 DEF TypeOK, EspTypeOK
    <3>3. uplink' = <<Completion>>
      BY <3>1, <3>2, OneIs DEF PublishComplete, PublishState, Completion
    <3>4. Confirms'
      BY <2>1, <3>1, <3>3
      DEF PublishComplete, Confirms, NoApply, Installed, listenerVars, flash,
          Completion, ControlState
    <3> QED
      BY <3>4 DEF Phases
  <2> QED
    BY <1>4, <2>2, <2>3, <2>4 DEF Stores
<1>5. CASE Confirms
  <2>1. /\ SnapshotContext \/ DisableAfterProvisioning
        /\ Installed /\ ~enable /\ Provisioned /\ zb' \in {"disable", "idle"}
    BY <1>1, <1>5
    DEF Confirms, ZigbeeStep, ScheduleResponse, PersistProvisioned, Installed,
        StatusComplete, PublishComplete, Provisioned, Secured, SnapshotContext,
        DisableAfterProvisioning
  <2>2. contextBlob' = ThisContext
    BY <2>1
    DEF SnapshotContext, DisableAfterProvisioning, Snapshot, Usable, Installed,
        Secured, AttemptOf, ThisContext
  <2>3. UNCHANGED <<sState, enable, status, apply, hello, acks, stateBlob,
                    enrollCounter, uplink>>
    BY <2>1, <1>5 DEF SnapshotContext, DisableAfterProvisioning, TypeOK, EspTypeOK
  <2>4. Confirms'
    BY <1>5, <2>1, <2>2, <2>3
    DEF Confirms, NoApply, Awaited, This, DoesOrIdle, Does, Installed, Saving,
        listenerVars, ThisResponse, ThisContext, Completion
  <2> QED
    BY <2>4 DEF Phases
<1> QED
  BY <1>2, <1>3, <1>4, <1>5

\* R leaves the device (ack_task).
LEMMA AckKeepsClean ==
    ASSUME TypeOK, Phases, SendResponse, UNCHANGED <<listenerVars, cached>>
    PROVE  Phases'
<1> USE DEF TheJob, Pend, Heard, Now
<1>1. acks # {}
  BY DEF SendResponse
<1>2. Replies /\ Replying /\ acks = {ThisResponse} /\ uplink = <<>>
  BY <1>1
  DEF Phases, Switches, Greets, Calls, Heeds, Replies, Serves, Stores, Confirms,
      Still, Signing, Replying
<1>3. uplink' = <<ThisResponse>> /\ acks' = {}
  BY <1>2, OneIs DEF SendResponse
<1>4. Replies'
  BY <1>2, <1>3
  DEF SendResponse, Replies, Replying, Working, NoApply, This, DoesOrIdle, Does,
      ThisHello, ThisResponse, Provisions, listenerVars, flash
<1> QED
  BY <1>4 DEF Phases

\* A and P reach the device.
LEMMA CommandKeepsClean ==
    ASSUME TypeOK, Phases, CommandTaken, HandleCommand(Head(downlink[Device])),
           UNCHANGED <<serverVars, cached>>
    PROVE  Phases'
<1> USE DEF TheJob, Pend, Heard, Now, serverVars
<1>0. /\ downlink \in [Devices -> Seq(Command)] /\ Device \in Devices
      /\ downlink[Device] # <<>>
      /\ downlink'[Device] = Tail(downlink[Device])
  BY BoundsAre DEF CommandTaken, TypeOK, ListenerTypeOK
<1>1. \/ /\ Heeds /\ Challenging /\ downlink[Device] = <<ThisCommand("A")>>
         /\ DoesOrIdle("record_a", "WAIT_RESPONSE")
      \/ /\ Serves /\ Providing /\ downlink[Device] = <<ThisCommand("P")>>
         /\ DoesOrIdle("record_p", "PROVISIONING_SENT")
  BY <1>0
  DEF Phases, Switches, Greets, Calls, Heeds, Replies, Serves, Stores, Confirms,
      Vacant, Opening, Challenging, Checking, Providing
<1>2. CASE Heeds /\ Challenging /\ downlink[Device] = <<ThisCommand("A")>>
           /\ DoesOrIdle("record_a", "WAIT_RESPONSE")
  <2>1. downlink'[Device] = <<>> /\ Head(downlink[Device]) = ThisCommand("A")
    BY <1>0, <1>2, OneIs
  <2>2. ChallengeFits(ThisCommand("A"))
    BY <1>2 DEF ChallengeFits, ThisCommand, Heeds, Working, Challenges, Secured
  <2>3. AcceptChallenge(ThisCommand("A"))
    BY <2>1, <2>2
    DEF HandleCommand, StoreProvisioning, ProvisioningFits, ThisCommand,
        IgnoreCommand
  <2>4. zb' = "answer" /\ answer' = ThisResponse
    BY <2>3 DEF AcceptChallenge, ThisCommand, ThisResponse
  <2>5. Replies'
    BY <1>2, <2>1, <2>3, <2>4
    DEF AcceptChallenge, Heeds, Challenging, Replies, Signing, Working, NoApply,
        Still, This, DoesOrIdle, Does, ThisHello, ThisResponse, Challenges, flash
  <2> QED
    BY <2>5 DEF Phases
<1>3. CASE Serves /\ Providing /\ downlink[Device] = <<ThisCommand("P")>>
           /\ DoesOrIdle("record_p", "PROVISIONING_SENT")
  <2>1. downlink'[Device] = <<>> /\ Head(downlink[Device]) = ThisCommand("P")
    BY <1>0, <1>3, OneIs
  <2>2. ProvisioningFits(ThisCommand("P"))
    BY <1>3 DEF ProvisioningFits, ThisCommand, Serves, Working, Provisions, Secured
  <2>3. StoreProvisioning(ThisCommand("P"))
    BY <2>1, <2>2
    DEF HandleCommand, AcceptChallenge, ChallengeFits, ThisCommand, IgnoreCommand
  <2>4. Stores'
    BY <1>3, <2>1, <2>3
    DEF StoreProvisioning, Serves, Providing, Stores, Awaited, Working, NoApply,
        Still, This, DoesOrIdle, Does, ThisResponse, Provisions, flash
  <2> QED
    BY <2>4 DEF Phases
<1> QED
  BY <1>1, <1>2, <1>3

-----------------------------------------------------------------------------
(* The server in it *)

LEMMA CompletionIs == Completion.kind = "T" /\ Completion.done = TRUE
BY DEF Completion, ControlState

LEMMA TailPlain ==
    ASSUME TypeOK, uplink # <<>>, uplink' = Tail(uplink)
    PROVE  /\ Head(uplink) = uplink[1] /\ Len(uplink) \in Nat \ {0}
           /\ 1 \in DOMAIN uplink /\ uplink' \in Seq(Frame)
           /\ Len(uplink') = Len(uplink) - 1
           /\ \A i \in 1..(Len(uplink) - 1) : uplink'[i] = uplink[i + 1]
           /\ Len(uplink) = 1 => uplink' = <<>>
           /\ (\A i \in DOMAIN uplink : Plain(uplink[i])) =>
                  \A i \in DOMAIN uplink' : Plain(uplink'[i])
<1>1. uplink \in Seq(Frame)
  BY DEF TypeOK
<1> QED
  BY <1>1

\* Any T but T|0|42, while there is no session: the listener does nothing.
LEMMA PlainIgnored ==
    ASSUME NEW f, Plain(f), OnMessage(Device, f)
    PROVE  UNCHANGED <<listenerVars, faults>>
BY DEF Plain, OnMessage, OnHello, OnResponse, OnControl, ControlIgnored,
       AttemptFinished

\* A frame that is new arrives.
LEMMA ArrivingKeepsClean ==
    ASSUME TypeOK, ServerUp, Phases, uplink # <<>>,
           OnMessage(Device, Head(uplink)), uplink' = Tail(uplink),
           cached' = <<Head(uplink)>>, UNCHANGED <<ram, flash>>
    PROVE  ServerUp' /\ Phases'
<1> USE DEF TheJob, Pend, Heard, Now, ram, flash
<1>0. /\ sessions \in [Devices -> Session] /\ job \in [Devices -> Job]
      /\ Device \in Devices
      /\ enrollCounter \in 0..MaxHello /\ Heard \in 0..MaxCounter
      /\ NoSession.state = "IDLE"
  BY BoundsAre DEF TypeOK, ListenerTypeOK, EspTypeOK, NoSession
<1>1. ServerUp'
  BY DEF ServerUp, OnMessage, OnHello, OnResponse, OnControl, HelloIgnored,
         HelloRejected, HelloVerified, ResponseIgnored, ResponseVerified,
         ResponseRejected, ControlIgnored, AttemptFinished, listenerVars
<1>2. ASSUME Plain(Head(uplink)), Vacant PROVE Vacant' /\ Heard' = Heard
  <2>1. UNCHANGED listenerVars
    BY <1>2, PlainIgnored
  <2>2. \A i \in DOMAIN cached' : cached'[i].kind # "H"
    BY <1>2, OneIs DEF Plain
  <2> QED
    BY <1>2, <2>1, <2>2 DEF Vacant, listenerVars
<1>3. CASE Switches \/ Greets
  <2>1. \A i \in DOMAIN uplink : Plain(uplink[i])
    BY <1>3 DEF Switches, Greets
  <2>2. /\ Plain(Head(uplink)) /\ \A i \in DOMAIN uplink' : Plain(uplink'[i])
        /\ Vacant
    BY <1>3, <2>1, TailPlain DEF Switches, Greets
  <2>3. CASE Switches
    BY <1>1, <1>2, <2>2, <2>3 DEF Switches, Still, Phases
  <2>4. CASE Greets
    <3>1. Greets'
      BY <1>2, <2>2, <2>4 DEF Greets, Still, Working, NoApply, Challenges
    <3> QED
      BY <1>1, <3>1 DEF Phases
  <2> QED
    BY <1>1, <1>3, <2>3, <2>4
<1>4. CASE Calls
  <2>1. CASE Len(uplink) = 1
    <3>1. /\ Head(uplink) = ThisHello /\ uplink' = <<>>
          /\ cached' = <<ThisHello>>
      BY <1>4, <2>1, TailPlain DEF Calls
    <3>2. /\ ThisHello.kind = "H" /\ ThisHello.key = DeviceKey
          /\ ThisHello.counter = enrollCounter /\ Pend = NoSession
      BY <1>4 DEF ThisHello, SignedHello, Calls, Vacant
    <3>3. HelloVerified(Device, ThisHello)
      BY <3>1, <3>2
      DEF OnMessage, OnHello, OnResponse, OnControl, HelloIgnored,
          HelloRejected, ServerUp
    <3>4. /\ TheJob'.pc = "accept"
          /\ TheJob'.session = [NoSession EXCEPT !.counter = enrollCounter,
                                                 !.key = DeviceKey]
      BY <1>0, <3>2, <3>3 DEF HelloVerified, Goto
    <3>5. Opening'
      BY <1>4, <3>3, <3>4 DEF HelloVerified, Opening, Calls, Vacant
    <3>6. Heeds'
      BY <1>4, <3>1, <3>5
      DEF Heeds, Calls, Still, Working, NoApply, Challenges, ThisHello
    <3> QED
      BY <1>1, <3>6 DEF Phases
  <2>2. CASE Len(uplink) # 1
    <3>1. /\ Plain(Head(uplink)) /\ uplink' # <<>>
          /\ uplink'[Len(uplink')] = ThisHello
          /\ \A i \in 1..(Len(uplink') - 1) : Plain(uplink'[i])
      <4>1. Plain(uplink[1])
        BY <1>4, <2>2, TailPlain DEF Calls
      <4>2. Len(uplink') # 0 /\ uplink'[Len(uplink')] = uplink[Len(uplink)]
        BY <2>2, TailPlain
      <4>3. ASSUME NEW i \in 1..(Len(uplink') - 1) PROVE Plain(uplink'[i])
        <5>1. i + 1 \in 1..(Len(uplink) - 1) /\ uplink'[i] = uplink[i + 1]
          BY TailPlain
        <5> QED
          BY <1>4, <5>1 DEF Calls
      <4>4. uplink' # <<>>
        BY <4>2
      <4> QED
        BY <1>4, <4>1, <4>2, <4>3, <4>4, TailPlain DEF Calls
    <3>2. Calls'
      BY <1>2, <1>4, <3>1
      DEF Calls, Still, Working, NoApply, Challenges, ThisHello
    <3> QED
      BY <1>1, <3>2 DEF Phases
  <2> QED
    BY <2>1, <2>2
<1>5. CASE Replies
  <2>1. /\ uplink = <<ThisResponse>> /\ acks = {} /\ zb = "idle" /\ Provisions
    BY <1>5 DEF Replies, Signing, Replying
  <2>2. Head(uplink) = ThisResponse /\ uplink' = <<>> /\ cached' = <<ThisResponse>>
    BY <2>1, OneIs
  <2>3. /\ Pend.state = "WAIT_RESPONSE" /\ Answers(Pend, ThisResponse)
        /\ ThisResponse.kind = "R"
    BY <1>5 DEF Replies, This, Answers, ThisResponse, SignedResponse
  <2>4. ResponseVerified(Device, ThisResponse)
    BY <2>2, <2>3
    DEF OnMessage, OnHello, OnResponse, OnControl, ResponseIgnored,
        ResponseRejected
  <2>5. Does("record_r", "WAIT_RESPONSE")' /\ UNCHANGED <<sessions, nonce, downlink>>
    BY <1>0, <1>5, <2>4 DEF ResponseVerified, Goto, Does, This, Replies
  <2>6. Serves'
    BY <1>5, <2>1, <2>2, <2>5
    DEF Serves, Checking, Replies, Still, Working, NoApply, This, Provisions,
        ThisResponse
  <2> QED
    BY <1>1, <2>6 DEF Phases
<1>6. CASE Confirms
  <2>1. uplink = <<Completion>> /\ Awaited
    BY <1>6 DEF Confirms
  <2>2. Head(uplink) = Completion /\ uplink' = <<>> /\ cached' = <<Completion>>
    BY <2>1, OneIs
  <2>3. /\ Pend.state = "PROVISIONING_SENT" /\ Completion.done
        /\ Completion.kind = "T"
    <3>1. Completion.kind = "T" /\ Completion.done = TRUE
      BY CompletionIs
    <3> QED
      BY <2>1, <3>1 DEF Awaited, This
  <2>4. AttemptFinished(Device, Completion)
    BY <2>2, <2>3
    DEF OnMessage, OnHello, OnResponse, OnControl, ControlIgnored
  <2>5. Does("save", "PROVISIONING_SENT")' /\ Pend' = NoSession
        /\ downlink' = downlink
    BY <1>0, <2>1, <2>4 DEF AttemptFinished, Goto, Does, This, Awaited
  <2>6. Completion' = Completion
    BY DEF Completion, ControlState
  <2>7. Saving'
    BY <2>2, <2>5, <2>6 DEF Saving
  <2>8. /\ NoApply' /\ Installed' /\ hello' \in Ending
        /\ acks' = {} /\ downlink'[Device] = <<>>
    <3>1. NoApply'
      BY <1>6 DEF Confirms, NoApply
    <3>2. Installed'
      <4>1. enrollCounter' = enrollCounter /\ sState' = sState /\ stateBlob' = stateBlob
        OBVIOUS
      <4>2. Installed /\ nonce' = nonce
        BY <1>6, <2>4 DEF Confirms, AttemptFinished
      <4> QED
        BY <4>1, <4>2 DEF Installed, Secured
    <3>3. hello' \in Ending' /\ Ending' = Ending
      BY <1>6 DEF Confirms, Ending
    <3> QED
      BY <1>6, <2>5, <3>1, <3>2, <3>3 DEF Confirms
  <2>9. /\ ~enable' /\ status' = "complete"
        /\ zb' \in {"snapshot", "disable", "idle"}
        /\ zb' # "snapshot" => contextBlob' = ThisContext'
    <3>1. nonce' = nonce
      BY <2>4 DEF AttemptFinished
    <3> QED
      BY <1>6, <3>1 DEF Confirms, ThisContext
  <2>10. Confirms'
    BY <2>2, <2>7, <2>8, <2>9 DEF Confirms
  <2> QED
    BY <1>1, <2>10 DEF Phases
<1> QED
  BY <1>3, <1>4, <1>5, <1>6 DEF Phases, Heeds, Serves, Stores

\* Zigbee2MQTT publishes its state again.
LEMMA RepeatingKeepsClean ==
    ASSUME TypeOK, FrameInv, ServerUp, Phases, cached # <<>>,
           OnMessage(Device, Head(cached)), UNCHANGED <<espVars, cached>>
    PROVE  ServerUp' /\ Phases'
<1> USE DEF TheJob, Pend, Heard, Now, espVars, ram, flash
<1>0. /\ sessions \in [Devices -> Session] /\ job \in [Devices -> Job]
      /\ Device \in Devices
      /\ NoSession.state = "IDLE"
      /\ 1 \in DOMAIN cached /\ Head(cached) = cached[1]
  BY BoundsAre DEF TypeOK, ListenerTypeOK, NoSession
<1>1. ServerUp'
  BY DEF ServerUp, OnMessage, OnHello, OnResponse, OnControl, HelloIgnored,
         HelloRejected, HelloVerified, ResponseIgnored, ResponseVerified,
         ResponseRejected, ControlIgnored, AttemptFinished, listenerVars
<1>2. ASSUME Vacant PROVE Vacant' /\ Heard' = Heard
  <2>1. /\ Head(cached).kind = "H" => Head(cached).key = certKey[Device]
        /\ Head(cached).kind = "H" => Head(cached).counter <= Heard
    BY <1>0, <1>2 DEF FrameInv, Frames, ServerUp, Vacant
  <2>2. /\ UNCHANGED <<sessions, downlink, helloCounter>>
        /\ \/ job' = job
           \/ /\ TheJob'.pc = "accept"
              /\ TheJob'.session.counter <= Heard
    <3>1. Pend = NoSession /\ Pend.state = "IDLE"
      BY <1>0, <1>2 DEF Vacant
    <3>2. CASE OnHello(Device, Head(cached))
      <4>1. HelloVerified(Device, Head(cached))
        BY <2>1, <3>1, <3>2 DEF OnHello, HelloIgnored, HelloRejected
      <4> DEFINE s == [NoSession EXCEPT !.counter = Head(cached).counter,
                                        !.key = Head(cached).key]
      <4>2. s.counter = Head(cached).counter
        BY DEF NoSession
      <4>3. TheJob' = [pc |-> "accept", session |-> s]
        BY <1>0, <4>1 DEF HelloVerified, Goto
      <4>4. Head(cached).kind = "H"
        BY <3>2 DEF OnHello
      <4>5. UNCHANGED <<sessions, downlink, helloCounter>>
        BY <4>1 DEF HelloVerified
      <4> HIDE DEF s
      <4>6. TheJob'.pc = "accept" /\ TheJob'.session.counter = Head(cached).counter
        BY <4>2, <4>3
      <4>7. TheJob'.session.counter <= Heard
        BY <2>1, <4>4, <4>6
      <4> QED
        BY <4>5, <4>6, <4>7
    <3>3. CASE OnResponse(Device, Head(cached)) \/ OnControl(Device, Head(cached))
      BY <3>1, <3>3
      DEF OnResponse, OnControl, ResponseIgnored, ResponseVerified,
          ResponseRejected, ControlIgnored, AttemptFinished, listenerVars
    <3> QED
      BY <3>2, <3>3 DEF OnMessage
  <2> QED
    BY <1>2, <2>2 DEF Vacant
<1>3. CASE Switches
  BY <1>1, <1>2, <1>3 DEF Switches, Still, Phases
<1>4. CASE Greets
  <2>1. Greets'
    BY <1>2, <1>4 DEF Greets, Still, Working, NoApply, Challenges
  <2> QED
    BY <1>1, <2>1 DEF Phases
<1>5. CASE Calls
  <2>1. Calls'
    BY <1>2, <1>5 DEF Calls, Still, Working, NoApply, Challenges, ThisHello
  <2> QED
    BY <1>1, <2>1 DEF Phases
<1>6. CASE Heeds \/ Replies \/ Serves \/ Stores \/ Confirms
  <2>1. TheJob.pc = "idle"
    BY <1>0 DEF OnMessage, OnHello, OnResponse, OnControl, ThreadFree
  <2>2. \/ Head(cached) = ThisHello /\ Pend = This("WAIT_RESPONSE")
        \/ Head(cached) = ThisResponse /\ Pend = This("PROVISIONING_SENT")
        \/ Head(cached) = Completion /\ Pend = NoSession
    BY <1>0, <1>6, <2>1, OneIs
    DEF Heeds, Opening, Challenging, Replies, Serves, Checking, Providing,
        Stores, Confirms, Awaited, Saving, Does
  <2>3. UNCHANGED listenerVars
    BY <1>0, <2>2
    DEF OnMessage, OnHello, OnResponse, OnControl, HelloIgnored, HelloRejected,
        HelloVerified, ResponseIgnored, ResponseVerified, ResponseRejected,
        ControlIgnored, AttemptFinished, ThisHello, SignedHello, ThisResponse,
        SignedResponse, Completion, ControlState, This, NoSession
  <2>4. UNCHANGED <<sessions, job, downlink, helloCounter, nonce, context,
                    attempts>>
    BY <2>3 DEF listenerVars
  <2>5. CASE Heeds
    <3>1. Heeds'
      BY <2>4, <2>5
      DEF Heeds, Opening, Challenging, Still, Working, NoApply, Challenges,
          ThisHello, This, Does, DoesOrIdle, ThisCommand
    <3> QED
      BY <1>1, <3>1 DEF Phases
  <2>6. CASE Replies
    <3>1. Replies'
      BY <2>4, <2>6
      DEF Replies, Signing, Replying, Working, NoApply, Challenges, Provisions,
          ThisHello, ThisResponse, This, Does, DoesOrIdle
    <3> QED
      BY <1>1, <3>1 DEF Phases
  <2>7. CASE Serves
    <3>1. Serves'
      BY <2>4, <2>7
      DEF Serves, Checking, Providing, Still, Working, NoApply, Provisions,
          ThisResponse, This, Does, DoesOrIdle, ThisCommand
    <3> QED
      BY <1>1, <3>1 DEF Phases
  <2>8. CASE Stores
    <3>1. Stores'
      BY <2>4, <2>8
      DEF Stores, Awaited, Working, NoApply, Provisions, Installed,
          ThisResponse, This, Does, DoesOrIdle
    <3> QED
      BY <1>1, <3>1 DEF Phases
  <2>9. CASE Confirms
    <3>1. Confirms'
      BY <2>4, <2>9
      DEF Confirms, Awaited, Saving, NoApply, Installed, ThisResponse,
          ThisContext, Completion, This, Does, DoesOrIdle
    <3> QED
      BY <1>1, <3>1 DEF Phases
  <2> QED
    BY <1>6, <2>5, <2>6, <2>7, <2>8, <2>9
<1> QED
  BY <1>3, <1>4, <1>5, <1>6 DEF Phases

\* The steps of the MQTT thread without a fault, by the place it is at.
LEMMA JobStepIs ==
    ASSUME TypeOK, JobStep(Device), faults' = faults
    PROVE  /\ TheJob.pc = "accept" => HelloAccepted(Device) \/ HelloStale(Device)
           /\ TheJob.pc = "record_h" => RecordHello(Device)
           /\ TheJob.pc = "open" => OpenSession(Device)
           /\ TheJob.pc = "send_a" => SendChallenge(Device)
           /\ TheJob.pc = "record_a" => RecordChallenge(Device)
           /\ TheJob.pc = "record_r" => RecordResponse(Device)
           /\ TheJob.pc = "recheck" => RecheckSession(Device)
           /\ TheJob.pc = "send_p" => SendProvisioning(Device)
           /\ TheJob.pc = "record_p" => RecordProvisioning(Device)
           /\ TheJob.pc = "save" => SaveContext(Device)
           /\ TheJob.pc = "record_done" => RecordCompletion(Device)
           /\ TheJob.pc # "idle"
<1>1. ~Fault
  <2>1. faults \in Nat
    BY BoundsAre, BoundsAssumption DEF TypeOK, ListenerTypeOK
  <2> QED
    BY <2>1 DEF Fault
<1>2. ~ChallengeNotBuilt(Device) /\ ~SendFailed(Device) /\ ~SaveFailed(Device)
  BY <1>1 DEF ChallengeNotBuilt, SendFailed, SaveFailed
<1>3. /\ HelloAccepted(Device) \/ HelloStale(Device) => TheJob.pc = "accept"
      /\ RecordHello(Device) => TheJob.pc = "record_h"
      /\ OpenSession(Device) => TheJob.pc = "open"
      /\ SendChallenge(Device) => TheJob.pc = "send_a"
      /\ RecordChallenge(Device) => TheJob.pc = "record_a"
      /\ RecordResponse(Device) => TheJob.pc = "record_r"
      /\ RecheckSession(Device) => TheJob.pc = "recheck"
      /\ SendProvisioning(Device) => TheJob.pc = "send_p"
      /\ RecordProvisioning(Device) => TheJob.pc = "record_p"
      /\ DropSession(Device) => TheJob.pc = "failed"
      /\ RecordError(Device) => TheJob.pc = "record_error"
      /\ SaveContext(Device) => TheJob.pc = "save"
      /\ RecordCompletion(Device) => TheJob.pc = "record_done"
  BY DEF HelloAccepted, HelloStale, RecordHello, OpenSession, SendChallenge,
         RecordChallenge, RecordResponse, RecheckSession, SendProvisioning,
         RecordProvisioning, DropSession, RecordError, SaveContext,
         RecordCompletion, At, TheJob
<1> QED
  BY <1>2, <1>3 DEF JobStep

\* Where the MQTT thread goes.
LEMMA JobGoes ==
    ASSUME TypeOK
    PROVE  /\ \A pc, s : Goto(Device, pc, s) =>
                  TheJob' = [pc |-> pc, session |-> s]
           /\ Return(Device) => TheJob' = IdleJob
           /\ \A kind, s : Publish(Device, kind, s) =>
                  downlink'[Device] = Append(downlink[Device],
                      [kind |-> kind, counter |-> s.counter,
                       random |-> s.random, key |-> s.key])
<1>1. /\ job \in [Devices -> Job] /\ Device \in Devices
      /\ DOMAIN downlink = Devices
  BY BoundsAre DEF TypeOK, ListenerTypeOK
<1> QED
  BY <1>1 DEF TheJob, Goto, Return, Publish

\* An H of an attempt that the server has already had.
LEMMA StaleIgnored ==
    ASSUME TypeOK, Vacant, JobStep(Device), faults' = faults, cached' = cached
    PROVE  Vacant' /\ Heard' = Heard
<1>1. TheJob.pc = "accept" /\ TheJob.session.counter <= Heard
  BY JobStepIs DEF Vacant, IdleJob
<1>2. HelloStale(Device)
  <2>1. TheJob.session.counter \in Nat /\ Heard \in Nat
    BY FieldsAreTyped DEF FieldsTyped
  <2>2. ~HelloAccepted(Device)
    BY <1>1, <2>1 DEF HelloAccepted, TheJob, Heard
  <2> QED
    BY <1>1, <2>2, JobStepIs
<1>3. TheJob' = IdleJob /\ UNCHANGED <<sessions, downlink, helloCounter>>
  BY <1>2, JobGoes DEF HelloStale
<1> QED
  BY <1>3 DEF Vacant, Pend, Heard

LEMMA SessionIs ==
    \A s \in Session :
        s = [counter |-> s.counter, random |-> s.random, key |-> s.key,
             state |-> s.state]
BY DEF Session

\* The server accepts H and challenges the device (handle_hello).
LEMMA HeedsServed ==
    ASSUME TypeOK, TypeOK', Heeds, JobStep(Device), faults' = faults,
           UNCHANGED <<espVars, cached>>
    PROVE  Heeds'
<1>0. /\ sessions \in [Devices -> Session] /\ Device \in Devices
      /\ TheJob.session \in Session
      /\ nonce \in Nat /\ enrollCounter \in Nat /\ Heard \in Nat
  BY BoundsAre, FieldsAreTyped DEF TypeOK, ListenerTypeOK, FieldsTyped
<1>1. /\ enrollCounter' = enrollCounter
      /\ Still' /\ Working' /\ hello' = "wait" /\ Challenges'
      /\ uplink' = <<>> /\ cached' = <<ThisHello>>'
  BY DEF Heeds, Still, Working, NoApply, Challenges, ThisHello, SignedHello,
         espVars, ram, flash
<1>2. CASE Opening /\ TheJob.pc = "accept"
  <2>1. HelloAccepted(Device)
    <3>1. TheJob.session.counter = enrollCounter
      BY <1>2 DEF Opening, NoSession
    <3>2. ~HelloStale(Device)
      BY <1>0, <1>2, <3>1 DEF Opening, HelloStale, TheJob, Heard
    <3> QED
      BY <1>2, <3>2, JobStepIs
  <2>2. /\ TheJob' = [pc |-> "record_h", session |-> TheJob.session]
        /\ UNCHANGED <<sessions, downlink>>
    BY <2>1, JobGoes DEF HelloAccepted, TheJob
  <2>3. Opening'
    BY <1>1, <1>2, <2>2 DEF Opening, Pend
  <2> QED
    BY <1>1, <2>3 DEF Heeds
<1>3. CASE Opening /\ TheJob.pc = "record_h"
  <2>1. RecordHello(Device)
    BY <1>3, JobStepIs
  <2>2. /\ TheJob' = [pc |-> "open", session |-> TheJob.session]
        /\ UNCHANGED <<sessions, downlink>>
    BY <2>1, JobGoes DEF RecordHello, TheJob
  <2>3. Opening'
    BY <1>1, <1>3, <2>2 DEF Opening, Pend
  <2> QED
    BY <1>1, <2>3 DEF Heeds
<1>4. CASE Opening /\ TheJob.pc = "open"
  <2> DEFINE s == [TheJob.session EXCEPT !.random = nonce,
                                         !.state = "WAIT_RESPONSE"]
  <2>1. OpenSession(Device)
    BY <1>4, JobStepIs
  <2>2. /\ TheJob' = [pc |-> "send_a", session |-> s]
        /\ Pend' = s /\ nonce' = nonce + 1 /\ downlink' = downlink
    BY <1>0, <2>1, JobGoes DEF OpenSession, TheJob, Pend
  <2>3. s = This("WAIT_RESPONSE")'
    <3>1. /\ TheJob.session.counter = enrollCounter
          /\ TheJob.session.key = DeviceKey
      BY <1>4 DEF Opening, NoSession
    <3>2. /\ s.counter = enrollCounter /\ s.random = nonce
          /\ s.key = DeviceKey /\ s.state = "WAIT_RESPONSE"
      BY <1>0, <3>1 DEF Session
    <3>3. Now' = nonce
      BY <1>0, <2>2 DEF Now
    <3>4. s \in Session
      BY <2>2, FieldsAreTyped DEF FieldsTyped
    <3>5. s = [counter |-> enrollCounter, random |-> nonce, key |-> DeviceKey,
               state |-> "WAIT_RESPONSE"]
      BY <3>2, <3>4, SessionIs
    <3> QED
      BY <1>1, <3>3, <3>5 DEF This
  <2> HIDE DEF s
  <2>4. Challenging'
    BY <1>4, <2>2, <2>3 DEF Challenging, Opening, Does
  <2> QED
    BY <1>1, <2>4 DEF Heeds
<1>5. CASE Challenging /\ TheJob.pc = "send_a"
  <2>1. SendChallenge(Device)
    BY <1>5, JobStepIs
  <2>2. /\ TheJob.session = This("WAIT_RESPONSE") /\ downlink[Device] = <<>>
        /\ Pend = This("WAIT_RESPONSE")
    BY <1>5 DEF Challenging, Does, DoesOrIdle, IdleJob
  <2>3. /\ TheJob' = [pc |-> "record_a", session |-> TheJob.session]
        /\ downlink'[Device] = Append(downlink[Device],
              [kind |-> "A", counter |-> TheJob.session.counter,
               random |-> TheJob.session.random, key |-> TheJob.session.key])
        /\ UNCHANGED <<sessions, nonce>>
    BY <2>1, JobGoes DEF SendChallenge, TheJob
  <2>4. downlink'[Device] = <<ThisCommand("A")>>
    BY <2>2, <2>3, OneIs DEF This, ThisCommand
  <2>5. /\ Now' = Now /\ Pend' = Pend
        /\ This("WAIT_RESPONSE")' = This("WAIT_RESPONSE")
        /\ ThisCommand("A")' = ThisCommand("A")
    BY <1>1, <2>3 DEF Now, Pend, This, ThisCommand
  <2>6. Challenging'
    BY <2>2, <2>3, <2>4, <2>5 DEF Challenging, Does, DoesOrIdle
  <2> QED
    BY <1>1, <2>6 DEF Heeds
<1>6. CASE Challenging /\ TheJob.pc = "record_a"
  <2>1. RecordChallenge(Device)
    BY <1>6, JobStepIs
  <2>2. TheJob' = IdleJob /\ UNCHANGED <<sessions, nonce, downlink>>
    BY <2>1, JobGoes DEF RecordChallenge
  <2>3. /\ Pend = This("WAIT_RESPONSE") /\ downlink[Device] = <<ThisCommand("A")>>
    BY <1>6 DEF Challenging, Does, DoesOrIdle, IdleJob
  <2>4. /\ Now' = Now /\ Pend' = Pend
        /\ This("WAIT_RESPONSE")' = This("WAIT_RESPONSE")
        /\ ThisCommand("A")' = ThisCommand("A")
    BY <1>1, <2>2 DEF Now, Pend, This, ThisCommand
  <2>5. Challenging'
    BY <2>2, <2>3, <2>4 DEF Challenging, DoesOrIdle
  <2> QED
    BY <1>1, <2>5 DEF Heeds
<1> QED
  <2>1. Opening => TheJob.pc \in {"accept", "record_h", "open"}
    BY DEF Opening
  <2>2. Challenging => TheJob.pc \in {"send_a", "record_a"}
    <3>1. TheJob.pc # "idle"
      BY JobStepIs
    <3> QED
      BY <3>1 DEF Challenging, Does, DoesOrIdle, IdleJob
  <2> QED
    BY <1>2, <1>3, <1>4, <1>5, <1>6, <2>1, <2>2 DEF Heeds

\* The server notes that the challenge is out (handle_hello).
LEMMA RepliesServed ==
    ASSUME TypeOK, Replies, JobStep(Device), faults' = faults,
           UNCHANGED <<espVars, cached>>
    PROVE  Replies'
<1>1. TheJob.pc = "record_a"
  <2>1. TheJob.pc # "idle"
    BY JobStepIs
  <2> QED
    BY <2>1 DEF Replies, DoesOrIdle, Does, IdleJob
<1>2. TheJob' = IdleJob /\ UNCHANGED <<sessions, nonce, downlink>>
  BY <1>1, JobStepIs, JobGoes DEF RecordChallenge
<1>3. /\ Pend = This("WAIT_RESPONSE") /\ downlink[Device] = <<>>
      /\ Pend' = Pend /\ This("WAIT_RESPONSE")' = This("WAIT_RESPONSE")
      /\ ThisHello' = ThisHello /\ ThisResponse' = ThisResponse
      /\ enrollCounter' = enrollCounter /\ Now' = Now
  BY <1>2
  DEF Replies, Pend, This, Now, ThisHello, ThisResponse, SignedHello,
      SignedResponse, espVars, flash
<1>4. (Signing => Signing') /\ (Replying => Replying')
  BY <1>3 DEF Signing, Replying, Challenges, Provisions, espVars, ram
<1>5. Working' /\ hello' = "wait" /\ cached' = <<ThisHello>>'
  BY <1>3 DEF Replies, Working, NoApply, espVars, ram
<1> QED
  BY <1>2, <1>3, <1>4, <1>5 DEF Replies, DoesOrIdle

\* The server answers R with the configuration (handle_response).
LEMMA ServesServed ==
    ASSUME TypeOK, Serves, JobStep(Device), faults' = faults,
           UNCHANGED <<espVars, cached>>
    PROVE  Serves'
<1>0. /\ sessions \in [Devices -> Session] /\ Device \in Devices
  BY BoundsAre DEF TypeOK, ListenerTypeOK
<1>1. nonce' = nonce
  BY JobStepIs
  DEF Serves, Checking, Providing, Does, DoesOrIdle, IdleJob, RecordResponse,
      RecheckSession, SendProvisioning, RecordProvisioning
<1>2. /\ enrollCounter' = enrollCounter /\ Now' = Now
      /\ \A state : This(state)' = This(state)
      /\ ThisCommand("P")' = ThisCommand("P") /\ ThisResponse' = ThisResponse
  BY <1>1
  DEF Now, This, ThisCommand, ThisResponse, SignedResponse, espVars, flash
<1>3. /\ Still' /\ Working' /\ hello' = "wait" /\ Provisions'
      /\ uplink' = <<>> /\ cached' = <<ThisResponse>>'
  BY <1>2 DEF Serves, Still, Working, NoApply, Provisions, espVars, ram
<1>4. CASE Checking /\ TheJob.pc = "record_r"
  <2>1. RecordResponse(Device)
    BY <1>4, JobStepIs
  <2>2. /\ TheJob' = [pc |-> "recheck", session |-> TheJob.session]
        /\ Pend' = Pend /\ downlink' = downlink
    BY <2>1, JobGoes DEF RecordResponse, TheJob, Pend
  <2>3. TheJob.session = This("WAIT_RESPONSE")
    BY <1>4 DEF Checking, Does
  <2>4. Checking'
    BY <1>2, <1>4, <2>2, <2>3 DEF Checking, Does
  <2> QED
    BY <1>3, <2>4 DEF Serves
<1>5. CASE Checking /\ TheJob.pc = "recheck"
  <2>1. RecheckSession(Device)
    BY <1>5, JobStepIs
  <2>2. /\ TheJob.session = This("WAIT_RESPONSE") /\ Pend = This("WAIT_RESPONSE")
        /\ downlink[Device] = <<>>
    BY <1>5 DEF Checking, Does
  <2>3. Pending(Device, TheJob.session) /\ Pend.state = "WAIT_RESPONSE"
    BY <2>2 DEF Pending, Pend, This
  <2>4. /\ sessions' = [sessions EXCEPT ![Device].state = "PROVISIONING_SENT"]
        /\ Goto(Device, "send_p", sessions'[Device])
        /\ downlink' = downlink
    BY <2>1, <2>3 DEF RecheckSession, TheJob, Pend
  <2>5. Pend' = [Pend EXCEPT !.state = "PROVISIONING_SENT"]
    BY <1>0, <2>4 DEF Pend
  <2>6. Pend' = This("PROVISIONING_SENT")
    BY <2>2, <2>5 DEF This
  <2>7. TheJob' = [pc |-> "send_p", session |-> Pend']
    BY <2>4, JobGoes DEF Pend
  <2>8. Providing'
    BY <1>2, <2>2, <2>4, <2>6, <2>7 DEF Providing, Does
  <2> QED
    BY <1>3, <2>8 DEF Serves
<1>6. CASE Providing /\ TheJob.pc = "send_p"
  <2>1. SendProvisioning(Device)
    BY <1>6, JobStepIs
  <2>2. /\ TheJob.session = This("PROVISIONING_SENT") /\ downlink[Device] = <<>>
        /\ Pend = This("PROVISIONING_SENT")
    BY <1>6 DEF Providing, Does, DoesOrIdle, IdleJob
  <2>3. /\ TheJob' = [pc |-> "record_p", session |-> TheJob.session]
        /\ downlink'[Device] = Append(downlink[Device],
              [kind |-> "P", counter |-> TheJob.session.counter,
               random |-> TheJob.session.random, key |-> TheJob.session.key])
        /\ Pend' = Pend
    BY <2>1, JobGoes DEF SendProvisioning, TheJob, Pend
  <2>4. downlink'[Device] = <<ThisCommand("P")>>
    BY <2>2, <2>3, OneIs DEF This, ThisCommand
  <2>5. Providing'
    BY <1>2, <2>2, <2>3, <2>4 DEF Providing, Does, DoesOrIdle
  <2> QED
    BY <1>3, <2>5 DEF Serves
<1>7. CASE Providing /\ TheJob.pc = "record_p"
  <2>1. RecordProvisioning(Device)
    BY <1>7, JobStepIs
  <2>2. TheJob' = IdleJob /\ Pend' = Pend /\ downlink' = downlink
    BY <2>1, JobGoes DEF RecordProvisioning, Pend
  <2>3. /\ Pend = This("PROVISIONING_SENT")
        /\ downlink[Device] = <<ThisCommand("P")>>
    BY <1>7 DEF Providing, Does, DoesOrIdle, IdleJob
  <2>4. Providing'
    BY <1>2, <2>2, <2>3 DEF Providing, DoesOrIdle
  <2> QED
    BY <1>3, <2>4 DEF Serves
<1> QED
  <2>1. Checking => TheJob.pc \in {"record_r", "recheck"}
    BY DEF Checking, Does
  <2>2. Providing => TheJob.pc \in {"send_p", "record_p"}
    <3>1. TheJob.pc # "idle"
      BY JobStepIs
    <3> QED
      BY <3>1 DEF Providing, Does, DoesOrIdle, IdleJob
  <2> QED
    BY <1>4, <1>5, <1>6, <1>7, <2>1, <2>2 DEF Serves

\* The server notes that the configuration is out.
LEMMA AwaitedServed ==
    ASSUME TypeOK, Awaited, JobStep(Device), faults' = faults,
           UNCHANGED <<espVars, cached>>
    PROVE  Awaited' /\ downlink' = downlink /\ nonce' = nonce
<1>1. TheJob.pc = "record_p"
  <2>1. TheJob.pc # "idle"
    BY JobStepIs
  <2> QED
    BY <2>1 DEF Awaited, DoesOrIdle, Does, IdleJob
<1>2. TheJob' = IdleJob /\ UNCHANGED <<sessions, nonce, downlink>>
  BY <1>1, JobStepIs, JobGoes DEF RecordProvisioning
<1>3. /\ Pend' = Pend
      /\ This("PROVISIONING_SENT")' = This("PROVISIONING_SENT")
      /\ ThisResponse' = ThisResponse
  BY <1>2
  DEF Pend, This, Now, ThisResponse, SignedResponse, espVars, flash
<1> QED
  BY <1>2, <1>3 DEF Awaited, DoesOrIdle

LEMMA StoresServed ==
    ASSUME TypeOK, Stores, JobStep(Device), faults' = faults,
           UNCHANGED <<espVars, cached>>
    PROVE  Stores'
<1>1. Awaited' /\ downlink' = downlink /\ nonce' = nonce
  BY AwaitedServed DEF Stores
<1>2. /\ Now' = Now /\ NoApply' = NoApply /\ Working' = Working
      /\ Provisions' = Provisions /\ Installed' = Installed /\ Ending' = Ending
  BY <1>1
  DEF Now, NoApply, Working, Provisions, Installed, Ending, Secured, espVars,
      ram, flash
<1> QED
  BY <1>1, <1>2 DEF Stores, espVars, ram

\* The server saves the context and completes the row (handle_control_state).
LEMMA SavingServed ==
    ASSUME TypeOK, Saving, Installed, JobStep(Device), faults' = faults,
           UNCHANGED <<espVars, cached>>
    PROVE  Saving' /\ downlink' = downlink /\ nonce' = nonce
<1>0. /\ context \in [Devices -> Context] /\ Device \in Devices
      /\ attempts \in [Devices -> [Counters -> RowStates]]
      /\ enrollCounter \in Counters
  BY BoundsAre DEF TypeOK, ListenerTypeOK, EspTypeOK, Installed, Counters
<1>1. TheJob.pc # "idle"
  BY JobStepIs
<1>2. CASE Does("save", "PROVISIONING_SENT")
  <2>1. SaveContext(Device) /\ TheJob.session = This("PROVISIONING_SENT")
    BY <1>2, JobStepIs DEF Does
  <2>2. /\ TheJob' = [pc |-> "record_done", session |-> TheJob.session]
        /\ UNCHANGED <<sessions, nonce, downlink>>
        /\ context'[Device] = [counter |-> TheJob.session.counter,
                               random |-> TheJob.session.random]
    BY <1>0, <2>1, JobGoes DEF SaveContext, TheJob
  <2>3. /\ Pend' = Pend /\ This("PROVISIONING_SENT")' = This("PROVISIONING_SENT")
        /\ ThisContext' = ThisContext /\ Completion' = Completion
    BY <2>2
    DEF Pend, This, Now, ThisContext, Completion, ControlState, espVars, flash
  <2>4. context'[Device] = ThisContext
    BY <2>1, <2>2 DEF This, ThisContext
  <2> QED
    BY <2>1, <2>2, <2>3, <2>4 DEF Saving, Does
<1>3. CASE Does("record_done", "PROVISIONING_SENT") /\ context[Device] = ThisContext
  <2>1. RecordCompletion(Device) /\ TheJob.session.counter = enrollCounter
    BY <1>3, JobStepIs DEF Does, This
  <2>2. /\ TheJob' = IdleJob
        /\ UNCHANGED <<sessions, nonce, downlink, context>>
        /\ attempts' = [attempts EXCEPT ![Device][enrollCounter] = "COMPLETED"]
    BY <2>1, JobGoes DEF RecordCompletion, Record, TheJob
  <2>3. /\ Pend' = Pend /\ enrollCounter' = enrollCounter
        /\ ThisContext' = ThisContext /\ Completion' = Completion
    BY <2>2 DEF Pend, Now, ThisContext, Completion, ControlState, espVars, flash
  <2>4. attempts'[Device][enrollCounter] = "COMPLETED"
    BY <1>0, <2>2
  <2> QED
    BY <1>3, <2>2, <2>3, <2>4 DEF Saving
<1> QED
  BY <1>1, <1>2, <1>3 DEF Saving, IdleJob

LEMMA ConfirmsServed ==
    ASSUME TypeOK, Confirms, JobStep(Device), faults' = faults,
           UNCHANGED <<espVars, cached>>
    PROVE  Confirms'
<1>1. /\ nonce' = nonce /\ downlink' = downlink
      /\ \/ uplink = <<Completion>> /\ Awaited'
         \/ uplink = <<>> /\ Saving'
  BY AwaitedServed, SavingServed DEF Confirms
<1>2. /\ NoApply' = NoApply /\ Installed' = Installed /\ Ending' = Ending
      /\ ThisContext' = ThisContext /\ Completion' = Completion
  BY <1>1
  DEF Now, NoApply, Installed, Ending, Secured, ThisContext, Completion,
      ControlState, espVars, ram, flash
<1> QED
  BY <1>1, <1>2 DEF Confirms, espVars, ram, flash

\* The MQTT thread, without a fault.
LEMMA WorkingKeepsClean ==
    ASSUME TypeOK, TypeOK', ServerUp, Phases, JobStep(Device),
           faults' = faults, UNCHANGED <<espVars, cached>>
    PROVE  ServerUp' /\ Phases'
<1>1. ServerUp'
  BY DEF ServerUp, JobStep, HelloAccepted, HelloStale, RecordHello,
         OpenSession, ChallengeNotBuilt, SendChallenge, RecordChallenge,
         RecordResponse, RecheckSession, SendProvisioning, RecordProvisioning,
         SendFailed, DropSession, RecordError, SaveContext, SaveFailed,
         RecordCompletion
<1>2. CASE Switches
  <2>1. Vacant' /\ Heard' = Heard
    BY <1>2, StaleIgnored DEF Switches
  <2> QED
    BY <1>1, <1>2, <2>1 DEF Switches, Still, Phases, espVars, ram, flash
<1>3. CASE Greets
  <2>1. Vacant' /\ Heard' = Heard
    BY <1>3, StaleIgnored DEF Greets
  <2>2. Greets'
    BY <1>3, <2>1
    DEF Greets, Still, Working, NoApply, Challenges, espVars, ram, flash
  <2> QED
    BY <1>1, <2>2 DEF Phases
<1>4. CASE Calls
  <2>1. Vacant' /\ Heard' = Heard
    BY <1>4, StaleIgnored DEF Calls
  <2>2. Calls'
    BY <1>4, <2>1
    DEF Calls, Still, Working, NoApply, Challenges, ThisHello, espVars, ram,
        flash
  <2> QED
    BY <1>1, <2>2 DEF Phases
<1> QED
  BY <1>1, <1>2, <1>3, <1>4, HeedsServed, RepliesServed, ServesServed,
     StoresServed, ConfirmsServed DEF Phases

-----------------------------------------------------------------------------
(* The undisturbed attempt as a whole *)

\* Where nothing is under way, the attempt is through.
LEMMA QuietIsDone ==
    ASSUME Quiet, Phases
    PROVE  Confirms /\ Saving
<1>1. /\ downlink[Device] = <<>> /\ uplink = <<>> /\ acks = {} /\ zb = "idle"
      /\ TheJob = IdleJob /\ TheJob.pc = "idle"
      /\ hello \in {"none", "wait"} /\ NoApply
  BY DEF Quiet, TheJob, IdleJob, NoApply
<1>2. ~Switches /\ ~Greets /\ ~Calls
  BY <1>1 DEF Switches, NoApply, Greets, Calls
<1>3. ~Opening /\ ~Challenging /\ ~Checking /\ ~Providing
  BY <1>1, OneIs DEF Opening, Challenging, Checking, Providing, Does
<1>4. ~Signing /\ ~Replying
  BY <1>1, OneIs DEF Signing, Replying
<1>5. Confirms
  BY <1>1, <1>2, <1>3, <1>4 DEF Phases, Heeds, Replies, Serves, Stores
<1> QED
  BY <1>1, <1>5, OneIs DEF Confirms

\* The hello task, which has nothing left to wait for, runs out of time.
LEMMA ElapsingKeepsClean ==
    ASSUME Quiet, Phases, HelloElapsed, UNCHANGED <<listenerVars, cached>>
    PROVE  Phases'
<1>1. Confirms /\ Saving
  BY QuietIsDone
<1>2. Saving' = Saving /\ ThisContext' = ThisContext /\ Installed' = Installed
  BY DEF HelloElapsed, listenerVars, flash, Saving, Pend, TheJob, Does, This,
         Now, ThisContext, Completion, ControlState, Installed, Secured
<1>3. hello' \in Ending'
  BY DEF HelloElapsed, Ending
<1>4. Confirms'
  BY <1>1, <1>2, <1>3, OneIs
  DEF HelloElapsed, listenerVars, flash, Confirms, NoApply, Quiet
<1> QED
  BY <1>4 DEF Phases

\* Enable OTA is switched on at rest.
LEMMA WriteBegins ==
    ASSUME TypeOK, HeardInv, AtRest, UserWrites(TRUE),
           UNCHANGED <<listenerVars, cached>>
    PROVE  ServerUp' /\ ~reporting' /\ Phases'
<1>1. ServerUp' /\ ~reporting'
  BY DEF AtRest, ServerUp, UserWrites, listenerVars
<1>2. Vacant'
  BY DEF AtRest, Quiet, Vacant, Pend, TheJob, Heard, listenerVars
<1>3. Still' /\ enable' /\ hello' = "none" /\ uplink' = <<>>
  BY DEF AtRest, Quiet, Still, UserWrites
<1>4. Heard' <= enrollCounter'
  BY DEF HeardInv, Bounded, Heard, UserWrites, flash, listenerVars
<1>5. PICK n \in Writes :
          apply'[n] = "delayed" /\ \A k \in Writes : k # n => apply'[k] = "none"
  <2>1. commands + 1 \in Writes /\ Writes = 1..MaxCommands
    BY BoundsAre DEF TypeOK, EspTypeOK, UserWrites, Writes
  <2>2. \A k \in Writes : Superseded[k] = "none"
    BY DEF AtRest, Quiet, Superseded
  <2>3. apply'[commands + 1] = "delayed"
    BY <2>1 DEF UserWrites, Superseded
  <2>4. \A k \in Writes : k # commands + 1 => apply'[k] = "none"
    BY <2>1, <2>2 DEF UserWrites, Superseded
  <2> QED
    BY <2>1, <2>3, <2>4
<1>6. Switches'
  BY <1>2, <1>3, <1>4, <1>5 DEF Switches
<1> QED
  BY <1>1, <1>6 DEF Phases

\* Nothing has happened.
LEMMA IdlingKeepsClean ==
    ASSUME Phases, UNCHANGED <<listenerVars, espVars, cached>>
    PROVE  Phases'
<1> USE DEF listenerVars, espVars, ram, flash, TheJob, Pend, Heard, Now
<1>1. /\ Vacant' = Vacant /\ Still' = Still /\ Working' = Working
      /\ NoApply' = NoApply /\ Challenges' = Challenges
      /\ Provisions' = Provisions /\ Installed' = Installed
  BY DEF Vacant, Still, Working, NoApply, Challenges, Provisions, Installed,
         Secured
<1>2. /\ ThisHello' = ThisHello /\ ThisResponse' = ThisResponse
      /\ ThisContext' = ThisContext /\ Completion' = Completion
      /\ \A kind : ThisCommand(kind)' = ThisCommand(kind)
      /\ \A state : This(state)' = This(state)
  BY DEF ThisHello, ThisResponse, ThisContext, Completion, ThisCommand, This,
         SignedHello, SignedResponse, ControlState
<1>3. /\ Opening' = Opening /\ Challenging' = Challenging
      /\ Signing' = Signing /\ Replying' = Replying
      /\ Checking' = Checking /\ Providing' = Providing
      /\ Awaited' = Awaited /\ Saving' = Saving
  BY <1>1, <1>2
  DEF Opening, Challenging, Signing, Replying, Checking, Providing, Awaited,
      Saving, Does, DoesOrIdle
<1>4. Switches => Switches'
  BY <1>1 DEF Switches
<1>5. (Greets => Greets') /\ (Calls => Calls')
  BY <1>1, <1>2 DEF Greets, Calls
<1>6. (Heeds => Heeds') /\ (Serves => Serves')
  BY <1>1, <1>2, <1>3 DEF Heeds, Serves
<1>7. Replies => Replies'
  <2> SUFFICES ASSUME Replies PROVE Replies'
    OBVIOUS
  <2>1. DoesOrIdle("record_a", "WAIT_RESPONSE")'
    BY <1>2 DEF Replies, DoesOrIdle, Does
  <2>2. Working' /\ (Signing' \/ Replying')
    BY <1>1, <1>3 DEF Replies
  <2> QED
    BY <1>2, <2>1, <2>2 DEF Replies
<1>8. (Stores => Stores') /\ (Confirms => Confirms')
  BY <1>1, <1>2, <1>3 DEF Stores, Confirms, Ending
<1> QED
  BY <1>4, <1>5, <1>6, <1>7, <1>8 DEF Phases

\* Steps that keep clean: no write, no fault, no OTA CHECK.
LEMMA StepKeepsClean ==
    ASSUME HandshakeInv, TypeOK', ServerUp, ~reporting, Phases, Next,
           ~\E on \in BOOLEAN : User(on), faults' = faults, checks' = checks
    PROVE  ServerUp' /\ ~reporting' /\ Phases'
<1>0. TypeOK /\ FrameInv /\ PendInv /\ HeardInv
  BY DEF HandshakeInv
<1>1. ~Fault
  <2>1. faults \in Nat
    BY <1>0, BoundsAssumption DEF TypeOK, ListenerTypeOK
  <2> QED
    BY <2>1 DEF Fault
<1>2. /\ ~FrameLost /\ ~CommandLost /\ ~CommandRepeated /\ ~SlowFrames
      /\ ~DeviceFault /\ ~TimeoutThreadDies /\ ~ListenerStops
  BY <1>1
  DEF FrameLost, CommandLost, CommandRepeated, SlowFrames, DeviceFault,
      TimeoutThreadDies, ListenerStops
<1>3. /\ ~FrameMissed /\ ~ReportTask /\ ~TimeoutThread /\ ~ListenerStarts
      /\ ~FirmwarePublish
  BY DEF ServerUp, Threads, FrameMissed, ReportTask, InitialReport,
         TimeoutThread, RecordTimeout, ListenerStarts, FirmwarePublish,
         RegisterCertificate
<1>4. ~CheckTask
  <2>1. checks \in Nat
    BY <1>0, BoundsAre DEF TypeOK, EspTypeOK
  <2> QED
    BY <2>1 DEF CheckTask, FirmwareStatus
<1>5. ~SessionTimesOut
  <2> SUFFICES ASSUME SessionTimesOut PROVE FALSE
    OBVIOUS
  <2>1. sessions[Device] = NoSession
    BY QuietIsDone DEF SessionTimesOut, Saving, Pend
  <2>2. Device \in Active
    BY DEF SessionTimesOut, ExpireSessions
  <2> QED
    BY <2>1, <2>2 DEF Active
<1>6. ASSUME UNCHANGED <<listenerVars, cached>> PROVE ServerUp' = ServerUp
  BY <1>6 DEF ServerUp, listenerVars
<1>7. CASE FrameArrives
  <2>1. ServerUp' /\ Phases'
    BY <1>0, <1>7, ArrivingKeepsClean DEF FrameArrives
  <2> QED
    BY <1>7, <2>1 DEF FrameArrives, ram
<1>8. CASE CachedFrameArrives
  <2>1. ServerUp' /\ Phases'
    BY <1>0, <1>8, RepeatingKeepsClean DEF CachedFrameArrives, ListenerOnly
  <2> QED
    BY <1>8, <2>1 DEF CachedFrameArrives, ListenerOnly, espVars, ram
<1>9. CASE CommandArrives
  <2>1. Phases'
    BY <1>0, <1>9, CommandKeepsClean DEF CommandArrives
  <2>2. ServerUp'
    BY <1>9 DEF CommandArrives, ServerUp, serverVars
  <2>3. reporting' = reporting
    BY <1>9
    DEF CommandArrives, HandleCommand, AcceptChallenge, StoreProvisioning,
        IgnoreCommand, espVars, ram
  <2> QED
    BY <2>1, <2>2, <2>3
<1>10. CASE \E n \in Writes : ApplyTask(n)
  <2>1. PICK n \in Writes : ApplyStep(n) /\ UNCHANGED <<listenerVars, cached>>
    BY <1>10 DEF ApplyTask, DeviceOnly
  <2>2. Phases'
    BY <1>0, <2>1, SwitchingKeepsClean
  <2>3. reporting' = reporting
    BY <2>1 DEF ApplyStep, ApplyStarts, ApplyOn, ApplySchedule, ApplyOff
  <2> QED
    BY <1>6, <2>1, <2>2, <2>3
<1>11. CASE HelloTask
  <2>1. HelloStep /\ UNCHANGED <<listenerVars, cached>>
    BY <1>11 DEF HelloTask, DeviceOnly
  <2>2. Phases'
    BY <1>0, <2>1, GreetingKeepsClean
  <2>3. reporting' = reporting
    BY <2>1
    DEF HelloStep, HelloBegin, HelloDraw, HelloEnter, HelloSend, HelloRefused,
        HelloStop, HelloJudge, HelloExpire, HelloDone
  <2> QED
    BY <1>6, <2>1, <2>2, <2>3
<1>12. CASE ZigbeeTask
  <2>1. ZigbeeStep /\ UNCHANGED <<listenerVars, cached>>
    BY <1>12 DEF ZigbeeTask, DeviceOnly
  <2>2. Phases'
    BY <1>0, <2>1, ZigbeeKeepsClean
  <2>3. reporting' = reporting
    BY <2>1
    DEF ZigbeeStep, ScheduleResponse, PersistProvisioned, StatusComplete,
        PublishComplete, SnapshotContext, DisableAfterProvisioning
  <2> QED
    BY <1>6, <2>1, <2>2, <2>3
<1>13. CASE AckTask
  <2>1. SendResponse /\ UNCHANGED <<listenerVars, cached>>
    BY <1>13 DEF AckTask, DeviceOnly
  <2>2. Phases'
    BY <1>0, <2>1, AckKeepsClean
  <2> QED
    BY <1>6, <2>1, <2>2 DEF SendResponse
<1>14. CASE HelloTimesOut
  <2>1. Quiet /\ HelloElapsed /\ UNCHANGED <<listenerVars, cached>>
    BY <1>14 DEF HelloTimesOut, DeviceOnly
  <2>2. Phases'
    BY <2>1, ElapsingKeepsClean
  <2> QED
    BY <1>6, <2>1, <2>2 DEF HelloElapsed
<1>15. CASE MqttThread
  <2>1. JobStep(Device) /\ UNCHANGED <<espVars, cached>>
    BY <1>15 DEF MqttThread, ListenerOnly
  <2>2. ServerUp' /\ Phases'
    BY <1>0, <2>1, WorkingKeepsClean
  <2> QED
    BY <2>1, <2>2 DEF espVars, ram
<1> QED
  BY <1>2, <1>3, <1>4, <1>5, <1>7, <1>8, <1>9, <1>10, <1>11, <1>12, <1>13,
     <1>14, <1>15 DEF Next, ListenerProcess

LEMMA CleanKept ==
    ASSUME HandshakeInv, CleanInv, [Next]_vars
    PROVE  CleanInv'
<1> SUFFICES ASSUME clean' PROVE ServerUp' /\ ~reporting' /\ Phases'
  BY DEF CleanInv
<1>0. TypeOK /\ TypeOK' /\ HeardInv
  BY TypeNext DEF HandshakeInv
<1>1. CASE UNCHANGED vars
  <2>1. UNCHANGED <<listenerVars, espVars, cached>> /\ clean' = clean
    BY <1>1 DEF vars
  <2>2. ServerUp /\ ~reporting /\ Phases
    BY <2>1 DEF CleanInv
  <2> QED
    BY <2>1, <2>2, IdlingKeepsClean DEF ServerUp, listenerVars, espVars, ram
<1>2. CASE \E on \in BOOLEAN : User(on)
  <2>1. PICK on \in BOOLEAN : User(on)
    BY <1>2
  <2>2. AtRest /\ on
    BY <2>1 DEF User
  <2>3. UserWrites(TRUE) /\ UNCHANGED <<listenerVars, cached>>
    BY <2>1, <2>2 DEF User, UserWrites
  <2> QED
    BY <1>0, <2>2, <2>3, WriteBegins
<1>3. CASE Next /\ ~\E on \in BOOLEAN : User(on)
  <2>1. KeepsClean
    BY <1>3
    DEF Next, FrameArrives, CachedFrameArrives, FrameMissed, FrameLost,
        CommandArrives, CommandLost, CommandRepeated, ApplyTask, HelloTask,
        ZigbeeTask, AckTask, ReportTask, CheckTask, HelloTimesOut,
        SessionTimesOut, SlowFrames, DeviceFault, MqttThread, TimeoutThread,
        ListenerProcess, FirmwarePublish, DeviceOnly, ListenerOnly
  <2>2. clean /\ faults' = faults /\ checks' = checks
    BY <2>1 DEF KeepsClean
  <2>3. ServerUp /\ ~reporting /\ Phases
    BY <2>2 DEF CleanInv
  <2> QED
    BY <1>0, <1>3, <2>2, <2>3, StepKeepsClean
<1> QED
  BY <1>1, <1>2, <1>3

\* An attempt that starts at rest repairs whatever earlier faults, restarts
\* and races have left: when no fault and no OTA CHECK disturbs it, device and
\* server authenticate OTA CHECK with its context and its row says COMPLETED
\* when everything is at rest again (apply_enable_task and the handshake of
\* ota_secure_session.c with handle_hello, handle_response and
\* handle_control_state of mqtt_listener.py).
THEOREM CleanAttemptSettles == Spec => []CleanAttemptAgrees
<1>1. Init => CleanInv
  BY DEF Init, CleanInv
<1>2. HandshakeInv /\ CleanInv /\ [Next]_vars => CleanInv'
  BY CleanKept
<1>3. HandshakeInv /\ CleanInv => CleanAttemptAgrees
  <2> SUFFICES ASSUME HandshakeInv, CleanInv, clean, AtRest
               PROVE  /\ context[Device] = CheckContext
                      /\ context[Device].counter = enrollCounter
                      /\ attempts[Device][enrollCounter] = "COMPLETED"
                      /\ status = "complete" /\ ~enable
    BY DEF CleanAttemptAgrees
  <2>1. Confirms /\ Saving /\ Quiet
    BY QuietIsDone DEF CleanInv, AtRest
  <2>2. /\ context[Device] = ThisContext
        /\ attempts[Device][enrollCounter] = "COMPLETED"
    BY <2>1 DEF Quiet, Saving, Does, TheJob, IdleJob
  <2>3. /\ contextBlob = ThisContext /\ 0 < enrollCounter
        /\ status = "complete" /\ ~enable
    BY <2>1 DEF Quiet, Confirms, Installed
  <2>4. CheckContext = ThisContext /\ ThisContext.counter = enrollCounter
    BY <2>3 DEF CheckContext, ThisContext, NoAttempt
  <2> QED
    BY <2>2, <2>3, <2>4
<1> QED
  BY <1>1, <1>2, <1>3, HandshakeHolds, PTL DEF Spec
=============================================================================
