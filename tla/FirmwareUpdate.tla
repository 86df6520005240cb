--------------------------- MODULE FirmwareUpdate ---------------------------
(***************************************************************************)
(* An update from the dispatch in the UI to the confirmation by the device:*)
(* the server, the device, HTTPS over Wi-Fi, and Zigbee with Zigbee2MQTT   *)
(* and the broker.                                                         *)
(*                                                                         *)
(* Delays are taken to be in proportion, and cost a fault otherwise.  While*)
(* the device scans, connects Wi-Fi or shakes hands for TLS, its monitor   *)
(* (250 ms) looks and Zigbee delivers its frames; the observer has noted a *)
(* CHECK before the device asks for the BIN; a thread has booked a transfer*)
(* before F, sent when the BIN is verified, arrives; a grant does not      *)
(* expire (300 s) while the update goes on.                                *)
(***************************************************************************)
EXTENDS DownloadGrants, OtaService

CONSTANT NoThread  \* none of the HTTPS threads

ASSUME UpdateAssumption ==
    MaxChecks = MaxGrants /\ MaxContent = MaxBuild /\ NoThread \notin Requests

VARIABLES
    connection,  \* the HTTPS thread the device reads from
    cached,      \* the last uplink frame, which Zigbee2MQTT has in its state
    verified,    \* history: CHECKs whose download the device has verified
    clean        \* history: the last dispatch found everything at rest and a
                 \* newer build, and neither a fault nor a publish came since

vars == <<storeVars, grantVars, faults, otaVars, connection, cached, verified,
          clean>>
historyVars == <<verified, clean>>

\* Nothing is under way; a page of the UI may be.
AtRest ==
    /\ publishing.pc = "idle" /\ scanning["send"].pc = "idle"
    /\ sender.pc = "idle"
    /\ checks = <<>> /\ observed = <<>> /\ observing = 0
    /\ confirming = 0 /\ uplink = <<>>
    /\ \A r \in Requests : requests[r].pc = "idle"
    /\ \A c \in Checks : checkTasks[c] = "none"
    /\ queue = 0 /\ task.pc = "idle"
    /\ monitor = "idle" /\ seen = otaState

KeepsHistory ==
    /\ verified' = verified
    /\ clean' = (clean /\ faults' = faults)

ServerOnly == UNCHANGED <<otaVars, connection, cached>> /\ KeepsHistory
DeviceOnly == UNCHANGED <<storeVars, grantVars>> /\ KeepsHistory
SameLinks == UNCHANGED <<connection, cached>>

-----------------------------------------------------------------------------
(* The server *)

Publisher(b) ==
    /\ PublishBegins(b)
    /\ clean' = FALSE
    /\ UNCHANGED <<grantVars, faults, otaVars, connection, cached, verified>>

Publishing ==
    /\ PublishStep
    /\ UNCHANGED <<grantVars, faults>> /\ ServerOnly

\* Somebody opens a page.  A scan of unchanged files changes nothing, and is
\* left out where no publish and no repair of the table is to be seen.
OpenPage ==
    /\ MaxPublishes > 0 \/ listed = NoOffer
    /\ ScanHashes("page")
    /\ UNCHANGED <<grantVars, faults>> /\ ServerOnly

\* Somebody sends the update.
User ==
    /\ sender.pc = "idle" /\ made < MaxGrants
    /\ ScanHashes("send")
    /\ clean' = (AtRest /\ scanning["page"].pc = "idle"
                        /\ bin = release /\ bin > fw)
    /\ UNCHANGED <<grantVars, faults, otaVars, connection, cached, verified>>

Scanning(s) ==
    /\ ScanStep(s)
    /\ UNCHANGED <<grantVars, faults>> /\ ServerOnly

Sending ==
    /\ SendLooks \/ SendFindsVersion \/ SendGrants \/ SendPublishes
    /\ ServerOnly
Failing == SendFails /\ ServerOnly
Observing == (ObserverLooks \/ ObserverNotes) /\ ServerOnly
Serving(r) == RequestStep(r) /\ ServerOnly
Dying(r) == RequestDies(r) /\ ServerOnly
Confirming == NoteConfirmed /\ ServerOnly

\* The device is still there: a fault.  It is not: the rest of the body may go
\* into the buffers all the same (Serving).
Breaking(r) ==
    /\ SendBreaks(r)
    /\ IF connection = r THEN Fault("network") ELSE UNCHANGED faults
    /\ ServerOnly

Expiring(g) == Expires(g) /\ Fault("time") /\ ServerOnly
Maintaining(target) == Clear(target) /\ Fault("maintenance") /\ ServerOnly
Restarting == Restart /\ Fault("server") /\ ServerOnly

-----------------------------------------------------------------------------
(* The network *)

CheckTaken == checks # <<>> /\ checks' = Tail(checks)
CheckVars == <<storeVars, tables, sender, observed, observing, requests,
               confirming>>

CheckDelivered ==
    /\ CheckTaken /\ CheckArrives(Head(checks))
    /\ UNCHANGED <<CheckVars, faults>> /\ SameLinks /\ KeepsHistory

CheckLost ==
    /\ CheckTaken /\ Fault("network")
    /\ UNCHANGED <<CheckVars, otaVars>> /\ SameLinks /\ KeepsHistory

\* QoS 1 delivers it again, at any later time; or a publish that was taken for
\* failed went out all the same.
CheckRepeated(g) ==
    /\ grants[g].state # "none" /\ Fault("repeat")
    /\ \A i \in DOMAIN checks : checks[i] # g
    /\ ~(sender.pc = "publish" /\ made = g)
    /\ CheckArrives(g)
    /\ SameLinks /\ DeviceOnly

FrameTaken ==
    /\ uplink # <<>>
    /\ uplink' = Tail(uplink)
    /\ UNCHANGED <<otaRam, otaFlash, connection>>

Booked == \A r \in Requests : requests[r].pc \notin {"book", "consume"}

\* T|enable|status: only the cached state changes.
StatusArrives ==
    /\ FrameTaken /\ Head(uplink) = 0
    /\ cached' = 0
    /\ UNCHANGED <<storeVars, grantVars, faults>> /\ KeepsHistory

CompletionArrives ==
    /\ FrameTaken /\ Head(uplink) # 0
    /\ OnCompletion(Head(uplink))
    /\ IF Booked THEN UNCHANGED faults ELSE Fault("time")
    /\ cached' = Head(uplink)
    /\ KeepsHistory

\* Zigbee2MQTT publishes the state of the device again, with the last frame.
CachedCompletionArrives ==
    /\ cached # 0
    /\ OnCompletion(cached)
    /\ UNCHANGED faults /\ ServerOnly

FrameLost ==
    /\ FrameTaken /\ Fault("network")
    /\ UNCHANGED <<storeVars, grantVars, cached>> /\ KeepsHistory

\* Wi-Fi or the server's host is gone without a FIN: the read loop of the
\* device goes on, with a timeout for each read and none for the download.
ConnectionDies ==
    /\ connection # NoThread /\ Fault("network")
    /\ connection' = NoThread
    /\ UNCHANGED <<otaVars, cached>> /\ DeviceOnly

-----------------------------------------------------------------------------
(* The device *)

CheckTask(c) ==
    /\ CheckTaskStep(c) \/ Authenticate(c, grants[c].offer.version)
    /\ UNCHANGED faults /\ SameLinks /\ DeviceOnly

CheckTaskFails(c) == CheckFails(c) /\ Fault("device") /\ SameLinks /\ DeviceOnly

\* What the monitor and Zigbee have done when a wait for Wi-Fi or TLS is over.
Prompt == seen = otaState /\ monitor = "idle" /\ uplink = <<>>

Downloading ==
    /\ DownloadStep
    /\ IF task.pc \in {"scan", "connect"} => Prompt THEN UNCHANGED faults
       ELSE Fault("time")
    /\ verified' = IF task.pc = "verify" /\ task'.error = "OK"
                   THEN verified \cup {task.check} ELSE verified
    /\ clean' = (clean /\ faults' = faults)
    /\ UNCHANGED <<storeVars, grantVars>> /\ SameLinks

Requesting(r) ==
    /\ SendGet /\ Get(r, task.check)
    /\ connection' = r
    /\ IF Prompt /\ observed = <<>> /\ observing = 0 THEN UNCHANGED faults
       ELSE Fault("time")
    /\ UNCHANGED cached /\ KeepsHistory

\* What the device sees of the answer.
Answered(r, answers) == connection = r /\ requests[r].answer \in answers
Disconnects == connection' = NoThread /\ UNCHANGED cached /\ DeviceOnly

Refused(r) ==
    /\ Answered(r, {"refused", "broken"})
    /\ GetRefused
    /\ UNCHANGED faults /\ Disconnects

Accepted(r) ==
    /\ Answered(r, {"ok", "all"})
    /\ ReadHeaders(requests[r].image, requests[r].body)
    /\ connection' = IF task'.pc = "read" THEN r ELSE NoThread
    /\ UNCHANGED <<faults, cached>> /\ DeviceOnly

Received(r) ==
    /\ \/ Answered(r, {"all"}) /\ ReadEnds
       \/ task.pc = "read" /\ Answered(r, {"broken"}) /\ TaskFails
    /\ UNCHANGED faults /\ Disconnects

Unlucky == TaskFails /\ Fault("device") /\ Disconnects
CleaningUp == Cleanup /\ UNCHANGED faults /\ SameLinks /\ DeviceOnly
Monitoring == MonitorStep /\ UNCHANGED faults /\ SameLinks /\ DeviceOnly
Rebooting == EspRestart /\ UNCHANGED faults /\ Disconnects
Crashing == Boot /\ Fault("device") /\ Disconnects

-----------------------------------------------------------------------------
TypeOK ==
    /\ GrantsTypeOK /\ OtaTypeOK
    /\ connection \in Requests \cup {NoThread}
    /\ cached \in 0..MaxGrants /\ verified \subseteq GrantIds
    /\ clean \in BOOLEAN

\* The device runs the published build, or an older one.
Init ==
    /\ GrantsInit
    /\ fw \in 1..FirstBuild /\ OtaInit
    /\ connection = NoThread /\ cached = 0 /\ verified = {}
    /\ clean = FALSE

\* What goes on by itself.
System ==
    \/ Publishing \/ Sending \/ Observing \/ Confirming
    \/ \E s \in Scanners : Scanning(s)
    \/ \E r \in Requests : Serving(r) \/ Breaking(r) \/ Requesting(r)
                              \/ Refused(r) \/ Accepted(r) \/ Received(r)
    \/ CheckDelivered \/ StatusArrives \/ CompletionArrives
    \/ \E c \in Checks : CheckTask(c)
    \/ Downloading \/ CleaningUp \/ Monitoring \/ Rebooting

Environment ==
    \/ User \/ OpenPage \/ CachedCompletionArrives
    \/ \E b \in Builds : Publisher(b)

Failures ==
    \/ Failing \/ Restarting \/ CheckLost \/ FrameLost \/ ConnectionDies
    \/ \E r \in Requests : Dying(r)
    \/ \E g \in GrantIds : Expiring(g) \/ CheckRepeated(g)
    \/ \E target \in {"firmware", "esp", "images"} : Maintaining(target)
    \/ \E c \in Checks : CheckTaskFails(c)
    \/ Unlucky \/ Crashing

Next == System \/ Environment \/ Failures

Spec == Init /\ [][Next]_vars

\* The processes go on, and Zigbee delivers what it does not lose.
Fairness ==
    /\ WF_vars(Publishing) /\ WF_vars(Sending) /\ WF_vars(Observing)
    /\ WF_vars(Confirming)
    /\ \A s \in Scanners : WF_vars(Scanning(s))
    /\ \A r \in Requests :
          /\ WF_vars(Serving(r)) /\ WF_vars(Requesting(r))
          /\ WF_vars(Refused(r) \/ Accepted(r) \/ Received(r))
    /\ WF_vars(CheckDelivered) /\ WF_vars(StatusArrives \/ CompletionArrives)
    /\ \A c \in Checks : WF_vars(CheckTask(c))
    /\ WF_vars(Downloading) /\ WF_vars(CleaningUp) /\ WF_vars(Monitoring)
    /\ WF_vars(Rebooting)

FairSpec == Spec /\ Fairness

-----------------------------------------------------------------------------
(* Properties *)

\* The server accepts F only for a grant whose BIN it has sent to the end.
ConfirmedWasSent == confirming # 0 => confirming \in sent

\* And only for a grant whose BIN the device has verified.
ConfirmedWasVerified == confirming # 0 => confirming \in verified

\* Dispatch, HTTPS threads, MQTT thread and maintenance together keep the
\* promise of GrantPromise: a grant is issued for one image, used up once, in
\* time and after its BIN was sent to the end, and only the F of a grant that
\* was used up makes a row DEVICE_CONFIRMED, the row of its image
\* (consume_dispatch_token, confirm_completed_download_b64).
Promise == INSTANCE GrantPromise
               WITH Grants <- GrantIds, Offers <- Offer, Images <- Builds,
                    accepted <- confirming,
                    confirmed <- {i \in Builds : rows[i] = "DEVICE_CONFIRMED"}
KeepsGrants == Promise!Spec

\* The build that the device will boot is the one that the CHECK was made for.
InstalledWasOffered ==
    [][boot' # boot => boot' = grants[task.check].offer.image]_vars

\* The device installs nothing older than what it runs.
DownloadsAreNewer == [][boot' # boot => boot' > fw]_vars

\* An update that nothing disturbed is over: the table says so, its grant is
\* used up, and the device has the build or has reported it verified.
CleanUpdateConfirmed ==
    clean /\ AtRest =>
        /\ rows[bin] = "DEVICE_CONFIRMED"
        /\ grants[made].state = "used"
        /\ IF DryRun THEN status = "FW_UPDATE_COMPLETE" ELSE fw = bin

\* And it does come to an end.
CleanUpdateEnds == clean ~> (AtRest \/ ~clean)
=============================================================================
