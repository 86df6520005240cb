---------------------------- MODULE Provisioning ----------------------------
(***************************************************************************)
(* One device and the listener, with Zigbee, Zigbee2MQTT and the broker    *)
(* between them.                                                           *)
(*                                                                         *)
(* Frames of one direction keep their order.  Zigbee2MQTT keeps the last   *)
(* uplink frame in the cached state of the device and publishes that state *)
(* again with every later change of the device, so that the listener sees  *)
(* the frame any number of times (ota_transport in mqtt_listener.py).      *)
(* Frames are lost, and commands delivered twice, at the cost of a fault.  *)
(***************************************************************************)
EXTENDS ProvisioningListener, EspProvisioning

CONSTANT Device  \* the device looked at

ASSUME CompositionAssumption ==
    /\ Device \in Devices /\ DeviceKey \in Keys /\ Unsigned = NoKey
    /\ MaxHello = MaxCounter

VARIABLES
    cached,  \* <<the uplink frame Zigbee2MQTT has in its state>>, or <<>>
    clean,   \* history: the last write switched Enable OTA on at rest, and
             \* there was no fault and no OTA CHECK since
    kept     \* history: Enable OTA has not been switched off while the last
             \* session of the server was pending

serverVars == <<sessions, job, expired, threads, certKey, helloCounter,
                context, attempts, nonce>>
vars == <<listenerVars, faults, espVars, cached, clean, kept>>

\* Nothing is under way that would take the attempt further.
Quiet ==
    /\ downlink[Device] = <<>> /\ uplink = <<>> /\ acks = {}
    /\ zb = "idle" /\ job[Device] = IdleJob
    /\ hello \in {"none", "wait"}
    /\ \A n \in Writes : apply[n] = "none"

\* Both sides are up and idle, and Zigbee2MQTT has no H in its state that the
\* server has not seen and would take for a new one.
AtRest ==
    /\ Quiet
    /\ hello = "none" /\ ~reporting
    /\ sessions[Device] = NoSession /\ expired = {}
    /\ threads = Threads /\ certKey[Device] = DeviceKey
    /\ \A f \in {cached[i] : i \in DOMAIN cached} :
          f.kind = "H" => f.counter <= helloCounter[Device]

KeepsClean ==
    /\ clean' = (clean /\ faults' = faults /\ checks' = checks)
    /\ kept' = (kept \/ nonce' # nonce)

DeviceOnly == UNCHANGED <<listenerVars, cached>> /\ KeepsClean
ListenerOnly == UNCHANGED <<espVars, cached>> /\ KeepsClean

-----------------------------------------------------------------------------
(* The network *)

\* A new state of the device, with the oldest frame, reaches the listener.
FrameArrives ==
    /\ uplink # <<>>
    /\ OnMessage(Device, Head(uplink))
    /\ uplink' = Tail(uplink)
    /\ cached' = <<Head(uplink)>>
    /\ UNCHANGED <<ram, flash>> /\ KeepsClean

\* The cached state is published again, without a new frame.
CachedFrameArrives ==
    /\ cached # <<>>
    /\ OnMessage(Device, Head(cached))
    /\ ListenerOnly

\* Nobody listens: a subscription of QoS 0 keeps nothing for later.
FrameMissed ==
    /\ uplink # <<>> /\ "mqtt" \notin threads
    /\ uplink' = Tail(uplink)
    /\ cached' = <<Head(uplink)>>
    /\ UNCHANGED <<listenerVars, faults, ram, flash>> /\ KeepsClean

\* Zigbee loses it.
FrameLost ==
    /\ uplink # <<>>
    /\ Fault
    /\ uplink' = Tail(uplink)
    /\ UNCHANGED <<ram, flash>> /\ DeviceOnly

CommandTaken ==
    /\ downlink[Device] # <<>>
    /\ downlink' = [downlink EXCEPT ![Device] = Tail(@)]

HandleCommand(m) ==
    AcceptChallenge(m) \/ StoreProvisioning(m) \/ IgnoreCommand(m)

\* The initial report is out at most INITIAL_REPORT_RETRY_MS (500) after the
\* device has joined, before a command for it can be on its way.
CommandArrives ==
    /\ CommandTaken /\ ~reporting
    /\ HandleCommand(Head(downlink[Device]))
    /\ UNCHANGED <<serverVars, faults, cached>> /\ KeepsClean

\* Zigbee loses it, or the device cannot write it to flash.
CommandLost ==
    /\ CommandTaken
    /\ Fault
    /\ UNCHANGED serverVars /\ ListenerOnly

\* QoS 1 and Zigbee retries deliver it once more.
CommandRepeated ==
    /\ downlink[Device] # <<>> /\ ~reporting
    /\ Fault
    /\ HandleCommand(Head(downlink[Device]))
    /\ DeviceOnly

-----------------------------------------------------------------------------
(* The device *)

User(on) ==
    /\ UserWrites(on)
    /\ clean' = (AtRest /\ on)
    /\ kept' = (kept /\ (on \/ sessions[Device] = NoSession))
    /\ UNCHANGED <<listenerVars, faults, cached>>

ApplyTask(n) == ApplyStep(n) /\ UNCHANGED faults /\ DeviceOnly
HelloTask == HelloStep /\ UNCHANGED faults /\ DeviceOnly
ZigbeeTask == ZigbeeStep /\ UNCHANGED faults /\ DeviceOnly
AckTask == SendResponse /\ UNCHANGED faults /\ DeviceOnly
ReportTask == InitialReport /\ UNCHANGED faults /\ DeviceOnly
CheckTask == FirmwareStatus /\ UNCHANGED faults /\ DeviceOnly

\* HELLO_TIMEOUT_MS and SESSION_TIMEOUT_SECONDS, 120 s both: long after the
\* last frame, in either order ...
HelloTimesOut ==
    /\ Quiet
    /\ HelloElapsed
    /\ UNCHANGED faults /\ DeviceOnly

SessionTimesOut ==
    /\ Quiet
    /\ ExpireSessions({Device})
    /\ UNCHANGED faults /\ ListenerOnly

\* ... or, at the cost of a fault, while frames are slow.
SlowFrames ==
    /\ Fault
    /\ \/ HelloElapsed /\ DeviceOnly
       \/ ExpireSessions({Device}) /\ ListenerOnly

DeviceFault ==
    /\ Fault
    /\ HelloFails \/ ChallengeNotStored \/ PersistFails \/ Reboot
    /\ DeviceOnly

-----------------------------------------------------------------------------
(* The listener *)

MqttThread == JobStep(Device) /\ ListenerOnly
TimeoutThread == RecordTimeout /\ ListenerOnly

ListenerProcess ==
    /\ TimeoutThreadDies \/ ListenerStops \/ ListenerStarts
    /\ ListenerOnly

FirmwarePublish == RegisterCertificate(Device, DeviceKey) /\ ListenerOnly

Init ==
    /\ ListenerInit /\ certKey[Device] \in {DeviceKey, NoKey}
    /\ EspInit
    /\ cached = <<>> /\ clean = FALSE /\ kept = TRUE

Next ==
    \/ FrameArrives \/ CachedFrameArrives \/ FrameMissed \/ FrameLost
    \/ CommandArrives \/ CommandLost \/ CommandRepeated
    \/ \E on \in BOOLEAN : User(on)
    \/ \E n \in Writes : ApplyTask(n)
    \/ HelloTask \/ ZigbeeTask \/ AckTask \/ ReportTask \/ CheckTask
    \/ HelloTimesOut \/ SessionTimesOut \/ SlowFrames \/ DeviceFault
    \/ MqttThread \/ TimeoutThread \/ ListenerProcess \/ FirmwarePublish

\* Tasks and threads run, timers run out, and frames that are not lost arrive
\* in their turn (what the listener is given next is the oldest message, so
\* repetitions of the cached state cannot hold it back).  The user, OTA
\* CHECKs, certificates, faults and restarts are owed to nobody.
Fairness ==
    /\ \A n \in Writes : WF_vars(ApplyTask(n))
    /\ WF_vars(HelloTask) /\ WF_vars(ZigbeeTask) /\ WF_vars(AckTask)
    /\ WF_vars(ReportTask) /\ WF_vars(MqttThread) /\ WF_vars(TimeoutThread)
    /\ WF_vars(HelloTimesOut) /\ WF_vars(SessionTimesOut)
    /\ SF_vars(FrameArrives) /\ WF_vars(FrameMissed)
    /\ WF_vars(CommandArrives)

Spec == Init /\ [][Next]_vars

FairSpec == Spec /\ Fairness

-----------------------------------------------------------------------------
\* Every variable stays in its set.
TypeOK ==
    /\ ListenerTypeOK /\ EspTypeOK
    /\ uplink \in Seq(Frame) /\ clean \in BOOLEAN /\ kept \in BOOLEAN
    /\ cached \in Seq(Frame) /\ Len(cached) <= 1

\* The handshake keeps the promise of ProvisioningPromise under every loss,
\* repetition, delay, restart and flash failure: once the server has sent a
\* newer challenge, a late P of an older attempt is no longer installed
\* (accept_provisioning), and T|0|42, which names no attempt, confirms only
\* the newest, and that one only after it has been installed, unless Enable
\* OTA has been switched off meanwhile (handle_control_state).
Promise == INSTANCE ProvisioningPromise
               WITH offered <- nonce - 1, installed <- provBlob,
                    confirmed <- context[Device]
KeepsPromise == Promise!Spec

\* An attempt begun at rest repairs what earlier faults, restarts and races
\* left behind: without a fault of its own, once everything is at rest again,
\* the server and the device authenticate OTA CHECK with the same context,
\* that of this very attempt, and its row says COMPLETED.
CleanAttemptAgrees ==
    clean /\ AtRest =>
        /\ context[Device] = CheckContext
        /\ context[Device].counter = enrollCounter
        /\ attempts[Device][enrollCounter] = "COMPLETED"
        /\ status = "complete" /\ ~enable

\* ... and it does come to rest.
CleanAttemptEnds == (clean /\ enable) ~> (~clean \/ AtRest)

-----------------------------------------------------------------------------
(* What the documentation says and the code does not do *)

\* This one the code does not keep (README, section 5): a correctly signed H with a
\* higher counter may replace an unfinished attempt immediately (README.md:280).
HigherHelloIsTaken ==
    [][/\ uplink # <<>> /\ uplink' = Tail(uplink) /\ faults' = faults
       /\ "mqtt" \in threads
       /\ Head(uplink).kind = "H" /\ Head(uplink).key = certKey[Device]
       /\ Head(uplink).counter > helloCounter[Device]
       => job'[Device].pc = "accept"]_vars

\* This one the code does not keep either (README, section 5): the server
\* replaces its durable context only when the device has installed the
\* configuration of that attempt, whatever the user does (README.md:276).
ConfirmsInstalled ==
    [][context'[Device] # context[Device]
          => context'[Device] = provBlob]_vars

\* README.md:270 says that successful completion is reported as T|0|42.
CompletionReported ==
    [][zb = "publish" /\ zb' = "snapshot"
          => uplink' = Append(uplink, ControlState(FALSE, "complete"))]_vars
=============================================================================
