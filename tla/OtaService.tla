----------------------------- MODULE OtaService -----------------------------
(***************************************************************************)
(* The device half of an update: zigbee_ota_cluster.c (OTA CHECK tasks),   *)
(* ota_check_auth.c (prepare_request), ota_service.c (the download task)   *)
(* and the status monitor of zigbee_ota_control.c.                         *)
(*                                                                         *)
(* The tasks share the stored configuration, the stored grant, the queue of*)
(* one request and s_running, without a lock.  A step ends where the task  *)
(* writes flash, sends a frame or waits, since another one runs then.  A   *)
(* CHECK, its random and its token are known by the grant they are of; its *)
(* MAC is good.  A build is known by its number, which is also its version.*)
(***************************************************************************)
EXTENDS Integers, Sequences

CONSTANTS
    DryRun,      \* CONFIG_APP_OTA_DRY_RUN: download and verify only
    MaxChecks,   \* the CHECKs are 1..MaxChecks
    MaxContent   \* the builds are 1..MaxContent

ASSUME OtaServiceAssumption ==
    DryRun \in BOOLEAN /\ MaxChecks \in Nat \ {0} /\ MaxContent \in Nat \ {0}

VARIABLES
    \* RAM
    checkTasks,  \* the task of each CHECK
    queue,       \* s_request_queue: the request that waits, or 0
    task,        \* ota_task: its step, request, expected SHA256, body, error
    running,     \* s_running
    otaState,    \* s_state
    lastError,   \* s_last_error
    seen,        \* previous, of the status monitor
    monitor,     \* where the monitor is
    status,      \* s_status
    \* flash
    config,      \* "download_cfg": the CHECK its token is of, or 0
    activeGrant, \* the stored grant random, or 0
    fw,          \* the build that runs
    boot,        \* the build in the boot partition
    \* Zigbee towards the server
    uplink       \* frames sent, oldest first: F of a grant, 0 for a T

otaRam == <<checkTasks, queue, task, running, otaState, lastError, seen,
            monitor, status>>
otaFlash == <<config, activeGrant, fw, boot>>
otaVars == <<otaRam, otaFlash, uplink>>
checkVars == <<checkTasks, config, activeGrant, queue>>
taskVars == <<task, running, lastError>>
monitorVars == <<seen, monitor>>

Checks == 1..MaxChecks
CheckPcs == {"none", "auth", "config", "grant", "announce", "request"}
OtaStates == {"IDLE", "PENDING", "CONNECTING_WIFI", "DOWNLOADING", "VERIFYING",
              "SUCCESS", "FAILED"}
Errors == {"OK", "INVALID_VERSION", "INVALID_CRC", "other"}
Statuses == {"IDLE", "FW_UPDATE_STARTED", "FW_UPDATE_COMPLETE", "FW_SKIPPED",
             "FW_VERIFY_ERROR", "FW_UPDATE_ERROR"}
TaskPcs == {"idle", "scan", "connect", "get", "headers", "read", "verify",
            "install", "restart", "cleanup"}
Task == [pc : TaskPcs, check : 0..MaxChecks, sha256 : 0..MaxContent,
         body : 0..MaxContent, error : Errors]
IdleTask == [pc |-> "idle", check |-> 0, sha256 |-> 0, body |-> 0,
             error |-> "OK"]

\* zigbee_ota_control_set_status; a change sends T|enable|status.
SetStatus(new) ==
    /\ status' = new
    /\ uplink' = IF status = new THEN uplink ELSE Append(uplink, 0)

-----------------------------------------------------------------------------
(* ota_check_task *)

CheckStep(c, pc) == checkTasks' = [checkTasks EXCEPT ![c] = pc]

\* schedule_ota_check.
CheckArrives(c) ==
    /\ checkTasks[c] = "none"
    /\ CheckStep(c, "auth")
    /\ UNCHANGED <<queue, task, running, otaState, lastError, seen, monitor,
                   status, otaFlash, uplink>>

\* version_is_newer, of the version in the CHECK.
Authenticate(c, version) ==
    /\ checkTasks[c] = "auth"
    /\ IF version > fw
       THEN CheckStep(c, "config") /\ UNCHANGED <<status, uplink>>
       ELSE CheckStep(c, "none") /\ SetStatus("FW_SKIPPED")
    /\ UNCHANGED <<otaFlash, queue, taskVars, otaState, monitorVars>>

StoreConfig(c) ==
    /\ checkTasks[c] = "config"
    /\ config' = c
    /\ CheckStep(c, "grant")
    /\ UNCHANGED <<queue, taskVars, otaState, monitorVars, status, activeGrant,
                   fw, boot, uplink>>

\* persist_active_grant.
StoreGrant(c) ==
    /\ checkTasks[c] = "grant"
    /\ activeGrant' = c
    /\ CheckStep(c, "announce")
    /\ UNCHANGED <<queue, taskVars, otaState, monitorVars, status, config,
                   fw, boot, uplink>>

Announce(c) ==
    /\ checkTasks[c] = "announce"
    /\ SetStatus("FW_UPDATE_STARTED")
    /\ CheckStep(c, "request")
    /\ UNCHANGED <<otaFlash, queue, taskVars, otaState, monitorVars>>

\* ota_service_request_payload: refused while a download runs or waits, after
\* the CHECK has replaced the configuration and the grant of that one.
RequestDownload(c) ==
    /\ checkTasks[c] = "request"
    /\ CheckStep(c, "none")
    /\ IF running \/ queue # 0
       THEN SetStatus("FW_UPDATE_ERROR") /\ UNCHANGED <<queue, otaState>>
       ELSE queue' = c /\ otaState' = "PENDING" /\ UNCHANGED <<status, uplink>>
    /\ UNCHANGED <<otaFlash, taskVars, monitorVars>>

\* prepare_request fails: no provisioning, or flash that cannot be written.
CheckFails(c) ==
    /\ checkTasks[c] \in {"auth", "config", "grant"}
    /\ CheckStep(c, "none")
    /\ SetStatus("FW_UPDATE_ERROR")
    /\ UNCHANGED <<otaFlash, queue, taskVars, otaState, monitorVars>>

-----------------------------------------------------------------------------
(* ota_task *)

TaskOnly ==
    UNCHANGED <<checkVars, running, lastError, monitorVars, status, fw, boot,
                uplink>>

\* load_config_for_ota_check: the CHECK whose stored token is the request's.
LoadedConfig == IF config = queue THEN queue ELSE 0

TaskReceives ==
    /\ task.pc = "idle" /\ queue # 0
    /\ queue' = 0
    /\ IF LoadedConfig # 0
       THEN /\ task' = [IdleTask EXCEPT !.pc = "scan", !.check = config]
            /\ running' = TRUE /\ lastError' = "OK" /\ UNCHANGED otaState
       ELSE /\ otaState' = "FAILED" /\ lastError' = "other"
            /\ running' = FALSE /\ UNCHANGED task
    /\ UNCHANGED <<checkTasks, config, activeGrant, monitorVars, status, fw,
                   boot, uplink>>

\* set_state after the Wi-Fi scan.
ConnectWifi ==
    /\ task.pc = "scan"
    /\ otaState' = "CONNECTING_WIFI"
    /\ task' = [task EXCEPT !.pc = "connect"]
    /\ TaskOnly

StartDownload ==
    /\ task.pc = "connect"
    /\ otaState' = "DOWNLOADING"
    /\ task' = [task EXCEPT !.pc = "get"]
    /\ TaskOnly

\* esp_http_client_open, with the task's token.
SendGet ==
    /\ task.pc = "get"
    /\ task' = [task EXCEPT !.pc = "headers"]
    /\ UNCHANGED otaState /\ TaskOnly

\* Anything but a 200.
GetRefused ==
    /\ task.pc = "headers"
    /\ task' = [task EXCEPT !.pc = "cleanup", !.error = "other"]
    /\ UNCHANGED otaState /\ TaskOnly

\* X-Firmware-SHA256 and the first block of the body.  The build that runs
\* already is accepted in a dry run only.
ReadHeaders(sha256, body) ==
    /\ task.pc = "headers"
    /\ task' = IF DryRun \/ body # fw
               THEN [task EXCEPT !.pc = "read", !.sha256 = sha256,
                                 !.body = body]
               ELSE [task EXCEPT !.pc = "cleanup", !.error = "INVALID_VERSION"]
    /\ UNCHANGED otaState /\ TaskOnly

ReadEnds ==
    /\ task.pc = "read"
    /\ otaState' = "VERIFYING"
    /\ task' = [task EXCEPT !.pc = "verify"]
    /\ TaskOnly

\* The SHA256 of the body against the one in the header.
Verify ==
    /\ task.pc = "verify"
    /\ IF task.body # task.sha256
       THEN /\ UNCHANGED otaState
            /\ task' = [task EXCEPT !.pc = "cleanup", !.error = "INVALID_CRC"]
       ELSE IF DryRun
       THEN otaState' = "SUCCESS" /\ task' = [task EXCEPT !.pc = "cleanup"]
       ELSE UNCHANGED otaState /\ task' = [task EXCEPT !.pc = "install"]
    /\ TaskOnly

\* esp_ota_end and esp_ota_set_boot_partition.
Install ==
    /\ task.pc = "install"
    /\ boot' = task.body
    /\ otaState' = "SUCCESS"
    /\ task' = [task EXCEPT !.pc = "restart"]
    /\ UNCHANGED <<checkVars, running, lastError, monitorVars, status, fw,
                   uplink>>

\* Wi-Fi, the connection, the flash partition or esp_ota_end fails.
TaskFails ==
    /\ task.pc \in {"connect", "get", "headers", "read", "install"}
    /\ task' = [task EXCEPT !.pc = "cleanup", !.error = "other"]
    /\ UNCHANGED otaState /\ TaskOnly

\* Mutant: a state that ota_state_t does not have.
CleanupMisnamed ==
    /\ task.pc = "cleanup"
    /\ otaState' = IF task.error = "OK" THEN otaState ELSE "ERROR"
    /\ lastError' = task.error /\ running' = FALSE
    /\ task' = IdleTask
    /\ UNCHANGED <<checkVars, monitorVars, status, fw, boot, uplink>>

\* Mutant: s_running stays.
CleanupStaysRunning ==
    /\ task.pc = "cleanup"
    /\ IF task.error = "OK" THEN UNCHANGED <<otaState, lastError>>
       ELSE otaState' = "FAILED" /\ lastError' = task.error
    /\ task' = IdleTask
    /\ UNCHANGED <<checkVars, running, monitorVars, status, fw, boot, uplink>>

\* Wi-Fi is off again.
Cleanup ==
    /\ task.pc = "cleanup"
    /\ IF task.error = "OK" THEN UNCHANGED <<otaState, lastError>>
       ELSE otaState' = "FAILED" /\ lastError' = task.error
    /\ running' = FALSE
    /\ task' = IdleTask
    /\ UNCHANGED <<checkVars, monitorVars, status, fw, boot, uplink>>

-----------------------------------------------------------------------------
(* ota_status_monitor_task, every OTA_STATUS_MONITOR_MS (250) *)

\* What the status becomes, if this state has one.
StatusOf(state) ==
    CASE state \in {"CONNECTING_WIFI", "DOWNLOADING"} -> "FW_UPDATE_STARTED"
      [] state = "SUCCESS" -> "FW_UPDATE_COMPLETE"
      [] state = "FAILED" ->
            CASE lastError = "INVALID_VERSION" -> "FW_SKIPPED"
              [] lastError = "INVALID_CRC" -> "FW_VERIFY_ERROR"
              [] OTHER -> "FW_UPDATE_ERROR"
      [] OTHER -> status

\* Mutant: F is sent as soon as the download is being verified.
MonitorSeesEarly ==
    /\ monitor = "idle" /\ otaState # seen
    /\ seen' = otaState
    /\ monitor' = IF otaState = "VERIFYING" THEN "report" ELSE "idle"
    /\ SetStatus(StatusOf(otaState))
    /\ UNCHANGED <<checkTasks, queue, taskVars, otaState, otaFlash>>

\* Mutant: previous is not updated.
MonitorForgets ==
    /\ monitor = "idle" /\ otaState # seen
    /\ UNCHANGED seen
    /\ monitor' = IF otaState = "SUCCESS" THEN "report" ELSE "idle"
    /\ SetStatus(StatusOf(otaState))
    /\ UNCHANGED <<checkTasks, queue, taskVars, otaState, otaFlash>>

MonitorSees ==
    /\ monitor = "idle" /\ otaState # seen
    /\ seen' = otaState
    /\ monitor' = IF otaState = "SUCCESS" THEN "report" ELSE "idle"
    /\ SetStatus(StatusOf(otaState))
    /\ UNCHANGED <<checkTasks, queue, taskVars, otaState, otaFlash>>

\* zigbee_ota_report_download_complete: F of the grant that is stored by now.
MonitorReports ==
    /\ monitor = "report"
    /\ IF activeGrant = 0 THEN monitor' = "idle" /\ UNCHANGED uplink
       ELSE monitor' = "clear" /\ uplink' = Append(uplink, activeGrant)
    /\ UNCHANGED <<checkVars, taskVars, otaState, seen, status, fw, boot,
                   config>>

\* clear_active_grant, whichever it is by now.
MonitorClears ==
    /\ monitor = "clear"
    /\ activeGrant' = 0
    /\ monitor' = "idle"
    /\ UNCHANGED <<checkTasks, queue, taskVars, otaState, seen, status, config,
                   fw, boot, uplink>>

-----------------------------------------------------------------------------
\* A restart: RAM is lost, the boot partition runs, and initial_report_task
\* sends T|0|00.
Boot ==
    /\ fw' = boot
    /\ checkTasks' = [c \in Checks |-> "none"]
    /\ queue' = 0 /\ task' = IdleTask /\ running' = FALSE
    /\ otaState' = "IDLE" /\ lastError' = "OK"
    /\ seen' = "IDLE" /\ monitor' = "idle" /\ status' = "IDLE"
    /\ uplink' = Append(uplink, 0)
    /\ UNCHANGED <<config, activeGrant, boot>>

\* esp_restart, OTA_SUCCESS_REPORT_DELAY_MS (1200) after SUCCESS: the monitor
\* has seen it and has sent F.
EspRestart ==
    /\ task.pc = "restart"
    /\ seen = "SUCCESS" /\ monitor = "idle"
    /\ Boot

OtaTypeOK ==
    /\ checkTasks \in [Checks -> CheckPcs] /\ queue \in 0..MaxChecks
    /\ task \in Task /\ running \in BOOLEAN
    /\ otaState \in OtaStates /\ seen \in OtaStates /\ lastError \in Errors
    /\ monitor \in {"idle", "report", "clear"} /\ status \in Statuses
    /\ config \in 0..MaxChecks /\ activeGrant \in 0..MaxChecks
    /\ fw \in 1..MaxContent /\ boot \in 1..MaxContent
    /\ uplink \in Seq(0..MaxChecks)

OtaInit ==
    /\ checkTasks = [c \in Checks |-> "none"]
    /\ queue = 0 /\ task = IdleTask /\ running = FALSE
    /\ otaState = "IDLE" /\ lastError = "OK"
    /\ seen = "IDLE" /\ monitor = "idle" /\ status = "IDLE"
    /\ config = 0 /\ activeGrant = 0 /\ boot = fw
    /\ uplink = <<>>

\* What the device does by itself.
CheckTaskStep(c) ==
    StoreConfig(c) \/ StoreGrant(c) \/ Announce(c) \/ RequestDownload(c)
DownloadStep ==
    TaskReceives \/ ConnectWifi \/ StartDownload \/ Verify \/ Install
MonitorStep == MonitorSees \/ MonitorReports \/ MonitorClears
=============================================================================
