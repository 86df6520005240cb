-------------------------- MODULE EspProvisioning --------------------------
(***************************************************************************)
(* The device half of the provisioning handshake: ota_secure_session.c,    *)
(* zigbee_ota_control.c and zigbee_ota_cluster.c, with the durable context *)
(* of ota_check_auth.c and the counter of device_identity.c.               *)
(*                                                                         *)
(* The tasks of the firmware share enable, status and the session without  *)
(* a lock: the Zigbee task (attribute writes, A and P), one apply task for *)
(* each write of Enable OTA, the hello task, the ack tasks, OTA CHECK with *)
(* the status monitor, and the initial report.  A step ends where the task *)
(* writes flash, sends a frame or waits, since another one runs then.      *)
(*                                                                         *)
(* Frames that nothing here depends on are left out: diagnostics and the   *)
(* legacy A1/P1/R1.  Of a T only whether it is T|0|42 matters.             *)
(***************************************************************************)
EXTENDS Integers, Sequences

CONSTANTS
    DeviceKey,     \* the device's key pair
    Unsigned,      \* the key field of a frame that carries no signature
    MaxHello,      \* bound: HELLO counters
    MaxCommands,   \* bound: writes of Enable OTA
    MaxChecks      \* bound: OTA CHECKs and firmware status changes

ASSUME EspAssumption ==
    /\ MaxHello \in Nat \ {0} /\ MaxCommands \in Nat /\ MaxChecks \in Nat
    /\ DeviceKey # Unsigned

VARIABLES
    \* RAM
    sState,       \* s_state, with the counter and random it is for
    enable,       \* s_enable_ota
    status,       \* s_status
    apply,        \* the apply task of each write of Enable OTA
    commands,     \* writes of Enable OTA so far
    hello,        \* where the hello task is; s_hello_task_started is # "none"
    zb,           \* where the Zigbee task is in the handling of a good A or P
    answer,       \* the R it has signed for that A
    acks,         \* R frames whose ack task waits its 50 ms
    reporting,    \* the initial report is still to come
    checks,       \* OTA CHECKs and firmware status changes so far
    \* flash
    stateBlob,    \* "state_v2"
    provBlob,     \* "provision": the attempt whose configuration it holds
    contextBlob,  \* "context_v1" of OTA CHECK
    enrollCounter,\* the HELLO counter
    \* Zigbee towards the server
    uplink        \* frames sent, oldest first

ram == <<sState, enable, status, apply, commands, hello, zb, answer, acks,
         reporting, checks>>
flash == <<stateBlob, provBlob, contextBlob, enrollCounter>>
espVars == <<ram, flash, uplink>>

NoAttempt == [counter |-> 0, random |-> 0]
Attempt == [counter : 0..MaxHello, random : Nat]

SecureStates == {"IDLE", "WAIT_CHALLENGE", "WAIT_PROVISIONING", "PROVISIONED"}
Secure == [state : SecureStates, counter : 0..MaxHello, random : Nat]
Secured(state, c, r) == [state |-> state, counter |-> c, random |-> r]
IdleSecure == Secured("IDLE", 0, 0)

AttemptOf(s) == [counter |-> s.counter, random |-> s.random]

Provisioned == sState.state = "PROVISIONED"

Statuses == {"idle", "started", "complete", "error", "timeout", "firmware"}
TerminalStatuses == {"complete", "error", "timeout"}

Writes == 1..MaxCommands
ApplyPcs == {"none", "delayed", "on", "schedule", "off"}
HelloPcs == {"none", "begin", "draw", "enter", "send", "wait", "judge",
             "expire", "done"}
ZbPcs == {"idle", "answer", "persist", "status", "publish", "snapshot",
          "disable"}

\* ++s_enable_generation: an apply task still in its 20 ms finds its
\* generation stale and ends.
Superseded ==
    [n \in Writes |-> IF apply[n] = "delayed" THEN "none" ELSE apply[n]]

\* T|enable|status; `done` is T|0|42.
ControlState(en, st) ==
    [kind |-> "T", counter |-> 0, random |-> 0, key |-> Unsigned,
     done |-> ~en /\ st = "complete"]

\* publish_state, of the enable and the status it reads.
PublishState(en, st) == uplink' = Append(uplink, ControlState(en, st))

\* The part of set_status before publish_state.
ChangeStatus(new) ==
    /\ status' = new
    /\ IF new \in TerminalStatuses /\ enable
       THEN enable' = FALSE /\ apply' = Superseded
       ELSE UNCHANGED <<enable, apply>>

\* set_status with a status that provisioning does not end with.
ReportProgress(new) ==
    /\ status' = new
    /\ IF status = new THEN UNCHANGED uplink ELSE PublishState(enable, new)

\* set_status(PROVISIONING_ERROR or _TIMEOUT).
ReportFailure(new) ==
    IF status = new THEN UNCHANGED <<status, enable, apply, uplink>>
    ELSE ChangeStatus(new) /\ PublishState(FALSE, new)

SignedHello(c) == [kind |-> "H", counter |-> c, random |-> 0, key |-> DeviceKey,
                   done |-> FALSE]
SignedResponse(c, r) == [kind |-> "R", counter |-> c, random |-> r,
                         key |-> DeviceKey, done |-> FALSE]
NoResponse == SignedResponse(0, 0)
Response == [kind : {"R"}, counter : 0..MaxHello, random : Nat,
             key : {DeviceKey}, done : {FALSE}]

\* Mutant: a state the session does not have.
ResetForRetryMisnamed ==
    IF Provisioned THEN UNCHANGED <<sState, stateBlob>>
    ELSE sState' = Secured("TIMEOUT", 0, 0) /\ stateBlob' = sState'

\* reset_for_retry.
ResetForRetry ==
    IF Provisioned THEN UNCHANGED <<sState, stateBlob>>
                   ELSE sState' = IdleSecure /\ stateBlob' = IdleSecure

\* valid_context.
Usable(b) == b.state = "PROVISIONED" /\ b.counter > 0

\* load_persisted_context: what OTA CHECK authenticates with.
CheckContext ==
    IF contextBlob # NoAttempt THEN contextBlob
    ELSE IF Usable(stateBlob) THEN AttemptOf(stateBlob) ELSE NoAttempt

\* Mutant: the first context is the one that is kept.
SnapshotOnce ==
    contextBlob' = IF Usable(stateBlob) /\ contextBlob = NoAttempt
                   THEN AttemptOf(stateBlob) ELSE contextBlob

\* snapshot_provisioning_context.
Snapshot ==
    contextBlob' = IF Usable(stateBlob) THEN AttemptOf(stateBlob)
                                        ELSE contextBlob

-----------------------------------------------------------------------------
(* Enable OTA, written from Home Assistant *)

\* handle_set_attr, in the Zigbee task.
UserWrites(on) ==
    /\ zb = "idle"
    /\ commands < MaxCommands
    /\ commands' = commands + 1
    /\ enable' = on
    /\ apply' = [Superseded EXCEPT ![commands + 1] = "delayed"]
    /\ UNCHANGED <<sState, status, hello, zb, answer, acks, reporting, checks,
                   flash, uplink>>

\* apply_enable_task, after its delay and with its generation still current.
ApplyStarts(n) ==
    /\ apply[n] = "delayed"
    /\ apply' = [apply EXCEPT ![n] = IF enable THEN "on" ELSE "off"]
    /\ PublishState(enable, status)
    /\ UNCHANGED <<sState, enable, status, commands, hello, zb, answer, acks,
                   reporting, checks, flash>>

\* begin_reprovisioning.
ApplyOn(n) ==
    /\ apply[n] = "on"
    /\ apply' = [apply EXCEPT ![n] = "schedule"]
    /\ sState' = IdleSecure
    /\ stateBlob' = IdleSecure
    /\ UNCHANGED <<enable, status, commands, hello, zb, answer, acks,
                   reporting, checks, provBlob, contextBlob, enrollCounter,
                   uplink>>

\* set_status(PROVISIONING_STARTED), then schedule_hello, which returns
\* without a word when a hello task still exists.
ApplySchedule(n) ==
    /\ apply[n] = "schedule"
    /\ apply' = [apply EXCEPT ![n] = "none"]
    /\ ReportProgress("started")
    /\ hello' = IF enable /\ hello = "none" THEN "begin" ELSE hello
    /\ UNCHANGED <<sState, enable, commands, zb, answer, acks, reporting,
                   checks, flash>>

ApplyOff(n) ==
    /\ apply[n] = "off"
    /\ apply' = [apply EXCEPT ![n] = "none"]
    /\ ResetForRetry
    /\ UNCHANGED <<enable, status, commands, hello, zb, answer, acks,
                   reporting, checks, provBlob, contextBlob, enrollCounter,
                   uplink>>

\* initial_report_task, when the device has joined.
InitialReport ==
    /\ reporting
    /\ reporting' = FALSE
    /\ enable' = FALSE
    /\ status' = "idle"
    /\ apply' = Superseded
    /\ PublishState(FALSE, "idle")
    /\ UNCHANGED <<sState, commands, hello, zb, answer, acks, checks, flash>>

-----------------------------------------------------------------------------
(* The hello task *)

HelloBegin ==
    /\ hello = "begin"
    /\ IF enable
       THEN /\ ResetForRetry
            /\ ReportProgress("started")
            /\ hello' = "draw"
       ELSE /\ hello' = "done"
            /\ UNCHANGED <<sState, status, stateBlob, uplink>>
    /\ UNCHANGED <<enable, apply, commands, zb, answer, acks, reporting,
                   checks, provBlob, contextBlob, enrollCounter>>

\* send_secure_hello: a counter of its own for every H, then begin_hello,
\* which wants an idle session, then the frame.
HelloDraw ==
    /\ hello = "draw"
    /\ enable /\ enrollCounter < MaxHello
    /\ enrollCounter' = enrollCounter + 1
    /\ hello' = "enter"
    /\ UNCHANGED <<sState, enable, status, apply, commands, zb, answer, acks,
                   reporting, checks, stateBlob, provBlob, contextBlob,
                   uplink>>

HelloEnter ==
    /\ hello = "enter"
    /\ sState.state = "IDLE"
    /\ sState' = Secured("WAIT_CHALLENGE", enrollCounter, 0)
    /\ stateBlob' = sState'
    /\ hello' = "send"
    /\ UNCHANGED <<enable, status, apply, commands, zb, answer, acks,
                   reporting, checks, provBlob, contextBlob, enrollCounter,
                   uplink>>

HelloSend ==
    /\ hello = "send"
    /\ uplink' = Append(uplink, SignedHello(enrollCounter))
    /\ hello' = "wait"
    /\ UNCHANGED <<sState, enable, status, apply, commands, zb, answer, acks,
                   reporting, checks, flash>>

\* Switched off in the meantime, or the session is not idle.
HelloRefused ==
    /\ \/ hello = "draw" /\ ~enable
       \/ hello = "enter" /\ sState.state # "IDLE"
    /\ ReportFailure("error")
    /\ hello' = "done"
    /\ UNCHANGED <<sState, commands, zb, answer, acks, reporting, checks,
                   flash>>

\* The network does not come up, or credentials, flash or the radio fail
\* before H is out; counter and state may have been taken before that.
HelloFails ==
    /\ \/ /\ hello = "draw"
          /\ enrollCounter' \in enrollCounter..(enrollCounter + 1)
          /\ enrollCounter' <= MaxHello
          /\ UNCHANGED sState
       \/ /\ hello = "enter" /\ sState.state = "IDLE"
          /\ sState' = Secured("WAIT_CHALLENGE", enrollCounter, 0)
          /\ UNCHANGED enrollCounter
       \/ /\ hello = "send"
          /\ UNCHANGED <<sState, enrollCounter>>
    /\ ReportFailure("error")
    /\ hello' = "done"
    /\ UNCHANGED <<commands, zb, answer, acks, reporting, checks, stateBlob,
                   provBlob, contextBlob>>

\* The wait loop looks once a second.
HelloStop ==
    /\ hello = "wait"
    /\ ~enable \/ Provisioned
    /\ hello' = "judge"
    /\ UNCHANGED <<sState, enable, status, apply, commands, zb, answer, acks,
                   reporting, checks, flash, uplink>>

\* HELLO_TIMEOUT_MS have passed.
HelloElapsed ==
    /\ hello = "wait"
    /\ hello' = "judge"
    /\ UNCHANGED <<sState, enable, status, apply, commands, zb, answer, acks,
                   reporting, checks, flash, uplink>>

HelloJudge ==
    /\ hello = "judge"
    /\ hello' = IF enable /\ ~Provisioned THEN "expire" ELSE "done"
    /\ UNCHANGED <<sState, enable, status, apply, commands, zb, answer, acks,
                   reporting, checks, flash, uplink>>

HelloExpire ==
    /\ hello = "expire"
    /\ ReportFailure("timeout")
    /\ hello' = "done"
    /\ UNCHANGED <<sState, commands, zb, answer, acks, reporting, checks,
                   flash>>

\* Mutant: s_hello_task_started is never cleared.
HelloDoneUnmarked ==
    /\ hello = "done"
    /\ ResetForRetry
    /\ UNCHANGED <<enable, status, apply, commands, hello, zb, answer, acks,
                   reporting, checks, provBlob, contextBlob, enrollCounter,
                   uplink>>

HelloDone ==
    /\ hello = "done"
    /\ hello' = "none"
    /\ ResetForRetry
    /\ UNCHANGED <<enable, status, apply, commands, zb, answer, acks,
                   reporting, checks, provBlob, contextBlob, enrollCounter,
                   uplink>>

-----------------------------------------------------------------------------
(* A and P, in the Zigbee task; m is the command received *)

\* accept_challenge: signed by the server for the counter of the HELLO.
ChallengeFits(m) ==
    /\ m.kind = "A" /\ enable
    /\ sState.state = "WAIT_CHALLENGE" /\ m.counter = sState.counter

\* Checking A and signing R take their time, and other tasks run meanwhile.
AcceptChallenge(m) ==
    /\ zb = "idle"
    /\ ChallengeFits(m)
    /\ zb' = "answer"
    /\ answer' = SignedResponse(m.counter, m.random)
    /\ UNCHANGED <<sState, enable, status, apply, commands, hello, acks,
                   reporting, checks, flash, uplink>>

\* The end of accept_challenge: whatever the session has become, it now waits
\* for P under its counter of this moment.  Then schedule_secure_ack.
ScheduleResponse ==
    /\ zb = "answer"
    /\ sState' = Secured("WAIT_PROVISIONING", sState.counter, answer.random)
    /\ stateBlob' = sState'
    /\ acks' = acks \cup {answer}
    /\ zb' = "idle" /\ answer' = NoResponse
    /\ UNCHANGED <<enable, status, apply, commands, hello, reporting, checks,
                   provBlob, contextBlob, enrollCounter, uplink>>

\* persist_state fails: back to the challenge, and no R.
ChallengeNotStored ==
    /\ zb = "answer"
    /\ sState' = Secured("WAIT_CHALLENGE", sState.counter, 0)
    /\ zb' = "idle" /\ answer' = NoResponse
    /\ UNCHANGED <<enable, status, apply, commands, hello, acks, reporting,
                   checks, flash, uplink>>

\* ack_task: 50 ms later.
SendResponse ==
    /\ \E r \in acks : uplink' = Append(uplink, r) /\ acks' = acks \ {r}
    /\ UNCHANGED <<sState, enable, status, apply, commands, hello, zb, answer,
                   reporting, checks, flash>>

\* accept_provisioning: decrypts under the key of device, counter and random.
ProvisioningFits(m) ==
    /\ m.kind = "P" /\ enable
    /\ sState.state = "WAIT_PROVISIONING"
    /\ m.counter = sState.counter /\ m.random = sState.random
    /\ m.key = DeviceKey

\* Mutant: the configuration is used and not stored.
StoreProvisioningForgotten(m) ==
    /\ zb = "idle"
    /\ ProvisioningFits(m)
    /\ zb' = "persist"
    /\ UNCHANGED <<sState, enable, status, apply, commands, hello, answer, acks,
                   reporting, checks, flash, uplink>>

\* persist_provisioning.
StoreProvisioning(m) ==
    /\ zb = "idle"
    /\ ProvisioningFits(m)
    /\ provBlob' = AttemptOf(sState)
    /\ zb' = "persist"
    /\ UNCHANGED <<sState, enable, status, apply, commands, hello, answer,
                   acks, reporting, checks, stateBlob, contextBlob,
                   enrollCounter, uplink>>

\* Mutant: the random is cleared before the state is written.
PersistProvisionedCleared ==
    /\ zb = "persist"
    /\ sState' = [sState EXCEPT !.state = "PROVISIONED", !.random = 0]
    /\ stateBlob' = sState'
    /\ zb' = "status"
    /\ UNCHANGED <<enable, status, apply, commands, hello, answer, acks,
                   reporting, checks, provBlob, contextBlob, enrollCounter,
                   uplink>>

\* The state becomes PROVISIONED and is written with whatever counter and
\* random the session has by now; then they are cleared in RAM.
PersistProvisioned ==
    /\ zb = "persist"
    /\ stateBlob' = [sState EXCEPT !.state = "PROVISIONED"]
    /\ sState' = [stateBlob' EXCEPT !.random = 0]
    /\ zb' = "status"
    /\ UNCHANGED <<enable, status, apply, commands, hello, answer, acks,
                   reporting, checks, provBlob, contextBlob, enrollCounter,
                   uplink>>

\* persist_state fails: PROVISIONED in RAM only, and nothing is reported.
PersistFails ==
    /\ zb = "persist"
    /\ sState' = [sState EXCEPT !.state = "PROVISIONED"]
    /\ zb' = "idle"
    /\ UNCHANGED <<enable, status, apply, commands, hello, answer, acks,
                   reporting, checks, flash, uplink>>

\* set_status(PROVISIONING_COMPLETE) returns at once if it is the status.
StatusComplete ==
    /\ zb = "status"
    /\ IF status = "complete"
       THEN zb' = "disable" /\ UNCHANGED <<status, enable, apply>>
       ELSE zb' = "publish" /\ ChangeStatus("complete")
    /\ UNCHANGED <<sState, commands, hello, answer, acks, reporting, checks,
                   flash, uplink>>

\* publish_state sends the globals, not its caller's status.
PublishComplete ==
    /\ zb = "publish"
    /\ PublishState(enable, status)
    /\ zb' = "snapshot"
    /\ UNCHANGED <<sState, enable, status, apply, commands, hello, answer,
                   acks, reporting, checks, flash>>

SnapshotContext ==
    /\ zb = "snapshot"
    /\ IF Provisioned THEN Snapshot ELSE UNCHANGED contextBlob
    /\ zb' = "disable"
    /\ UNCHANGED <<sState, enable, status, apply, commands, hello, answer,
                   acks, reporting, checks, stateBlob, provBlob, enrollCounter,
                   uplink>>

\* set_enabled(false).
DisableAfterProvisioning ==
    /\ zb = "disable"
    /\ zb' = "idle"
    /\ enable' = FALSE
    /\ IF enable THEN apply' = Superseded /\ PublishState(FALSE, status)
                 ELSE UNCHANGED <<apply, uplink>>
    /\ IF Provisioned THEN Snapshot ELSE UNCHANGED contextBlob
    /\ UNCHANGED <<sState, status, commands, hello, answer, acks, reporting,
                   checks, stateBlob, provBlob, enrollCounter>>

\* A frame that does not fit the state is dropped, and nothing changes.
IgnoreCommand(m) ==
    /\ zb = "idle"
    /\ ~ChallengeFits(m) /\ ~ProvisioningFits(m)
    /\ UNCHANGED espVars

-----------------------------------------------------------------------------
(* OTA CHECK and the power *)

\* ota_check_task, which recovers the durable context if it is missing, and the
\* status monitor: they report through the same status byte.
FirmwareStatus ==
    /\ checks < MaxChecks
    /\ checks' = checks + 1
    /\ contextBlob' \in {contextBlob, CheckContext}
    /\ ReportProgress("firmware")
    /\ UNCHANGED <<sState, enable, apply, commands, hello, zb, answer, acks,
                   reporting, stateBlob, provBlob, enrollCounter>>

\* Power loss or restart at any point; ota_secure_session_init.
Reboot ==
    /\ sState' = IF provBlob # NoAttempt THEN Secured("PROVISIONED", 0, 0)
                                         ELSE IdleSecure
    /\ enable' = FALSE
    /\ status' = "idle"
    /\ apply' = [n \in Writes |-> "none"]
    /\ hello' = "none"
    /\ zb' = "idle" /\ answer' = NoResponse
    /\ acks' = {}
    /\ reporting' = TRUE
    /\ UNCHANGED <<commands, checks, flash, uplink>>

-----------------------------------------------------------------------------
EspTypeOK ==
    /\ sState \in Secure
    /\ enable \in BOOLEAN
    /\ status \in Statuses
    /\ apply \in [Writes -> ApplyPcs]
    /\ commands \in 0..MaxCommands
    /\ hello \in HelloPcs
    /\ zb \in ZbPcs
    /\ answer \in Response
    /\ acks \subseteq Response
    /\ reporting \in BOOLEAN
    /\ checks \in 0..MaxChecks
    /\ stateBlob \in Secure
    /\ provBlob \in Attempt
    /\ contextBlob \in Attempt
    /\ enrollCounter \in 0..MaxHello

\* A device as flashed at the factory, powered on.
EspInit ==
    /\ sState = IdleSecure /\ enable = FALSE /\ status = "idle"
    /\ apply = [n \in Writes |-> "none"] /\ commands = 0
    /\ hello = "none" /\ zb = "idle" /\ answer = NoResponse /\ acks = {}
    /\ reporting = TRUE /\ checks = 0
    /\ stateBlob = IdleSecure /\ provBlob = NoAttempt
    /\ contextBlob = NoAttempt /\ enrollCounter = 0
    /\ uplink = <<>>

ApplyStep(n) == ApplyStarts(n) \/ ApplyOn(n) \/ ApplySchedule(n) \/ ApplyOff(n)

\* HelloElapsed apart: the others follow from what the task finds.
HelloStep ==
    \/ HelloBegin \/ HelloDraw \/ HelloEnter \/ HelloSend \/ HelloRefused
    \/ HelloStop \/ HelloJudge \/ HelloExpire \/ HelloDone

ZigbeeStep ==
    \/ ScheduleResponse \/ PersistProvisioned \/ StatusComplete
    \/ PublishComplete \/ SnapshotContext \/ DisableAfterProvisioning
=============================================================================
