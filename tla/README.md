# A TLA+ verification of the JarZem OTA server

The repository is an over-the-air update server for ESP Zigbee devices (Python, one Home Assistant
add-on of several processes around one MySQL database), the firmware component that the devices
carry (C, `esp_component/jarzem_secure_ota`), and the Zigbee2MQTT converter between the two
(`zigbee2mqtt/jarzem_secure_ota.mjs`). This directory models its protocol state machines in TLA+,
checks them with TLC on small instances and proves the most important invariants with TLAPS for
every value of the constants.

Run from this directory: `tlc -workers 2 -config Listener.cfg MCListener`, and so on for the runs below;
`tlapm ListenerProofs.tla`, and so on for the eight modules of section 4.

## 1. Inventory

| Component | State it keeps | Operations | Hard behaviours | What makes it correct |
|---|---|---|---|---|
| Provisioning listener (`mqtt_listener.py`, `secure_transport.py`) | `pending_sessions` in memory under `pending_lock`; rows of attempts and certificates in the database | `on_message` for H, R, T (and F), `session_timeout_loop`, start and end of the process | two threads, the lock released between look-up and use, one transaction per write, restart loses the sessions, timeouts | one outcome per attempt; a context that only advances; COMPLETED only with the context saved; sessions end |
| Device provisioning (`ota_secure_session.c`, `zigbee_ota_control.c`, `zigbee_ota_cluster.c`, `device_identity.c`) | `s_state`, `s_enable_ota`, `s_status`, the hello task's flag in RAM; `state_v2`, `provision`, `context_v1`, the HELLO counter in flash | Enable OTA written, hello task, A and P handled, R sent later, initial report, OTA CHECK | six kinds of task on shared globals without a lock, several flash writes per operation, power loss between them | what is installed is what the server holds; an undisturbed attempt repairs all that went wrong before |
| Transport (Zigbee, Zigbee2MQTT, broker) | cached device state with the last `ota_transport` | uplink command to MQTT state, `ota_command` to attribute write | loss, repetition, the cached frame published again | (environment) |
| Certificates and counters (`device_registry.py`) | `device_certificates` | register, accept H counter, accept status counter | another certificate in the middle of an attempt, counter starting over | a counter is used once |
| OTA CHECK grants (`ota_check_security.py`, `ota_check_runtime.py`, `server_mysql.py`) | `download_grants`, `device_firmware_status` | create, validate, consume, confirm | concurrent GETs, TTL, F before or after the transfer is booked, three processes writing one row | a grant is used up once; confirmed only what was downloaded |
| OTA CHECK on the device (`ota_check_auth.c`, `ota_service.c`) | durable context, one-slot queue, update state | authenticate C, download, verify, confirm with F | status shared with provisioning, restart in the middle | only what was authenticated is installed |
| Firmware server (`server.py`, `server_mysql.py`, `ota_helper.py`) | BIN files, `firmware_images`, `firmware_alias` | scan, manifest, alias, download | files and rows change under each other | a code names the image that is served |
| Artifact publish (`firmware_publish.py`, `zigbee2mqtt_publish.py`, `publish_guard.py`) | files, `artifact_publications`, Zigbee2MQTT's converters | publish BIN; publish converter: guard, save, remove the old names, verify, record | several stores, partial failure, concurrent publishes, late answers; nothing is rolled back | no converter without its BIN; the row says what was verified |
| Boot status (`ota_boot_status.c`, `status_listener.py`, `mqtt_observer.py`) | `last_status_counter`, the S seen by the observer | S sent once after a boot, stored, logged | replay, restarts, another certificate in the middle, two processes | the row shows what the device runs; a status is logged once |
| Start of the server (`run.sh`, `database.py`, `migrations/`, `migrate_legacy_sqlite.py`) | the schema and its revision, the old databases, process ids | upgrade, import, start, check, serve | a stop at every step, DDL that commits by itself, processes that end later | nothing is served from half a migration; every boot makes progress |
| CA set-up and device identity (`setup_certificates.py`, `tools/esp_ota/`, `manufacturing_api.py`) | root, OTA certificate, `device_credentials` and manifest in each project, `device_certificates` | set up, deploy, create, adopt, register, lock, validate in each build | programs that stop between two writes, two projects of one device, answers that are lost | one root; one identity, registered and whole, never written over |
| Activity and live events (`activity.py`, `live_server_mysql.py`) | `activity_log`, a cursor per stream, the page | append, clear, load, stream, reconnect | ids, seconds and commits in three orders | every row is shown that the stream has not passed; none returns |
| Supervision (`run.sh`) | process ids | start, watch the HTTP server | a listener that ends later | |
| Legacy enrolment (`server.py`, `device_enrollment.py`) | `devices` | challenge, enroll | | (not modelled) |

Interaction: the device sends H, R, T, F, S frames as a Zigbee cluster command; the converter turns
each into the device's MQTT state; `mqtt_listener`, `status_listener` and `mqtt_observer` each
subscribe to it, and act through the database. The listener's A and P (and the HTTP server's C) go
back through `<device>/set` and a Zigbee attribute write. The HTTP server and the publishers share
only the database and the firmware directory with the listeners.

The handshake: `H|counter|sig` (device), `A|random|sig` (server), `R|sig` (device), `P|ciphertext`
(server), `T|0|42` (device). Counter and random are then the context both sides derive the OTA
CHECK keys from. The server stores it when T|0|42 arrives; the device when P does. It is this pair of
stores, on two machines, that can come apart.

`PROJECT.json` lists the hazards, each with its line in the source and the properties aimed at it.
Five are properties of the code as it is and have none: the read loop of the download without a limit for
the whole (`ota_service.c:174`); a new OTA key pair in every set-up, so that identities locked before carry
the certificate of a pair that has gone (`setup_certificates.py:108`); a server certificate cut short that
is adopted because it need only be there (`adopt_existing_identity.py:103`); `last_status_counter` that
outlives the certificate (`device_registry.py:168`); a manufacturing service that ended for want of a
certificate and is not looked for again (`run.sh:24`).

## 2. Modules

| Module | Models | State and actions |
|---|---|---|
| `ProvisioningListener` | `mqtt_listener.py` with its rows | `sessions` is `pending_sessions`; `job` is the program counter of the MQTT thread with the session object it holds; `expired` is the local list of the timeout thread; `certKey`, `helloCounter`, `context`, `attempts` are columns |
| `ListenerSystem` | the listener among devices that may send anything | over-approximated frames, certificate replacement, the broker; the listener's properties and fairness |
| `EspProvisioning` | the device | one variable per global and per flash blob; `apply`, `hello`, `zb`, `acks` are the program counters of the tasks |
| `ProvisioningPromise` | what provisioning promises | `Offer` an attempt, `SwitchOff` while it is pending, `Install` it, `Confirm` it |
| `Provisioning` | device and listener with the transport between | the composition; refinement of `ProvisioningPromise`; agreement after a clean attempt |
| `ListenerTypes` | lemmas: what the listener does keeps its variables in their sets | shared by the next two |
| `ListenerProofs` | theorems about `ListenerSystem` | |
| `ProvisioningProofs` | theorems about `Provisioning`: types, the refinement of `ProvisioningPromise`, and how an undisturbed attempt ends | |
| `UpdateProofs` | theorems about `FirmwareUpdate` | |
| `ArtifactProofs`, `PublishProofs` | theorems about `ArtifactPublish` | |
| `ManufacturingProofs` | theorems about `Manufacturing` with `ServerStartup` and `DeviceIdentity` | |
| `ObservabilityProofs` | theorems about `MCObservability` with `BootStatus` and `ActivityFeed` | |
| `MCListener`, `MCUpdate` | instances for TLC | symmetry |
| `FirmwareStore` | one firmware file: BIN, metadata and row (`firmware_publish.py`, `scan_firmware_images`) | `bin`, `release`, `listed`; a publish is two replacements, a scan three steps |
| `DownloadGrants` | the server half of an update | `grants` is `download_grants`, `rows` is `device_firmware_status`; `sender`, `requests`, `observing`, `confirming` are the program counters of the dispatch, the HTTPS threads, the observer and the MQTT thread |
| `OtaService` | the device half of an update | `checkTasks`, `task`, `monitor` are the program counters of its tasks; the globals of `ota_service.c` and the blobs in flash by name |
| `GrantPromise` | what a download grant promises | `Issue`, `Transfer`, `Consume`, `Accept` an F, `Confirm` the row; `Lapse`, `Forget`, `Withdraw`, `Delete` are what may come between |
| `FirmwareUpdate` | the two halves with HTTPS and Zigbee between | the composition; refinement of `GrantPromise`; what F confirms, what is installed, that an undisturbed update ends well |
| `ArtifactPublish` | both publishing requests, their stores and the bridge of Zigbee2MQTT | `jobs` holds each thread's step, artifact and what its session has seen of the converters; `wire` what is on its way to Zigbee2MQTT |
| `ServerStartup` | `run.sh` with the upgrade and the import | `objects`, `version`, `imported` are MySQL; `boot` is where the script is; `up` the processes |
| `DeviceIdentity` | set-up of the root, `install.py`, the manufacturing service, the check before a build | `ca`, `share`, `files`, `manifest` are files; `setup`, `job` are the program counters |
| `Manufacturing` | start and identities together | the composition: the service loads the certificate deployed when it starts; the import brings an old row of the device |
| `BootStatus` | S from the device to the row and the log | `row` is `device_certificates`; `cached`, `saved` are Zigbee2MQTT; `seen` is `_seen_status` |
| `ActivityFeed` | the log, its stream and the page | `open` is a writer's uncommitted row; `stream.last` the cursor; `page` the browser's table |
| `MCObservability` | one run for both | they share only that the observer's entry for S is one of the feed's rows: `part` picks one, their product says nothing more |

A step of the listener is what one thread does between two points where the other can run: one
critical section, one database transaction, one publish. `on_message` therefore becomes a chain of
actions (`HelloVerified`, `HelloAccepted`, `RecordHello`, `OpenSession`, `SendChallenge`,
`RecordChallenge`); the paho thread takes the next frame only when the chain has ended (`ThreadFree`).

A step of the device ends where its task writes flash, sends a frame or waits. `set_status` writes
the byte, sends T and, for completion, takes the snapshot; it is three steps in the P handler
(`StatusComplete`, `PublishComplete`, `SnapshotContext`), where another task in between matters, and
one step elsewhere. The tasks of the device wait for the Zigbee lock inside it as well; that they
could interleave there with one another is left out.

`FirmwareUpdate` puts together a dispatch (scan, look-up, grant, C), the device's CHECK task, its
download task, its monitor, and the HTTPS threads. The grant is known by its number on both sides: C,
the token derived from it and F all name it. `Look`, `Check`, `Start` are `SecureOTAHandler.do_GET`,
`Look` (again), `Recheck`, `Open` the inherited one; `SendAll`, `Book`, `Consume` are `copyfile`. The
four looks at the rows and the one at the file are separate steps, since a publish and a scan may come
between any two. A build is its number, which is its content, its SHA256 and its version; that two
version strings compare as the builds are ordered is taken for granted. One publish and one dispatch go
on at a time; any number of pages may scan.

The delays in an update are taken to be in proportion, and anything else costs one fault (`Fault("time")`):
the monitor (250 ms) and Zigbee keep up while Wi-Fi connects or TLS shakes hands (`Prompt`); the
observer has noted a C before the device asks for the BIN; the HTTPS thread has booked the transfer
before F arrives (`Booked`), since between the two the device verifies and its monitor looks; a grant
lives for 300 s. The wait between SUCCESS and the restart (1200 ms) is long enough for the monitor and F
(`EspRestart`). Faults are a bounded number of failures of the kinds a run names: a process that ends or
a transaction that fails, a frame or connection that is lost, a flash write or a power loss on the
device, a C delivered again, a delay out of proportion, maintenance in the UI.

`set_status` is one step here, and so are the queueing of a request and the state PENDING that
follows it (`RequestDownload`): two steps of `ota_check_task` between which nothing waits.

Publishing (`ArtifactPublish`): a step of a request ends with the one store it writes. A payload is the
number of its request, which stands for the SHA256; there is one firmware and one converter name, and the
old names removed after a save are two. A request that is over may still be on its way to Zigbee2MQTT.
What a body must satisfy (signature, certificate, metadata, length) is taken as satisfied: such a request
is refused before it writes anything. The upsert of a publication row leaves `mjs_verified` and
`z2m_loaded` as they were, and so does `FirmwareRow`.

Start (`ServerStartup`): of the statements of a revision, and of the tables of an old database, the model
keeps whether none, some or all have run. Identities (`DeviceIdentity`): roots and key pairs are numbered as
they are generated, and certificate and key carry the number of the pair; a file holds a number, nothing, or
is torn (its write was cut short). The manifest is written in one step. Certificates are compared as the
code compares them, by issuer and subject name where it does that. One device, one installer at a time,
any number of projects made for the device.

Boot status and the log (`BootStatus`, `ActivityFeed`): a row is its id; `PageSize` stands for the limit of
100 that the page, the stream's query and the script share; clearing takes the whole log, as the button
does.

Data: a signature is the signer's key with the values it covers; a ciphertext the values its key is
derived from. `os.urandom(8)` is the next unused number: two draws are taken to differ. The order on
these numbers exists in the model only, where it says which challenge is the later one.
The boot status S draws its number from the same counter as H, so that the numbers of H may skip; only
their order matters. Identifiers of devices, text and binary encodings, logging, Wi-Fi settings are left out. A
certificate out of its validity or of another ecosystem counts as none. The session's age is not a
clock: any pending session may be old (in `ListenerSystem` at any moment, in `Provisioning` once
nothing is under way, or at the cost of a fault).

## 3. Runs

| Run | Question | Bounds | Result |
|---|---|---|---|
| `listener` | is every interleaving of the listener's threads sound whatever devices send? | 1 device, 2 keys, counters 1..2, 3 challenges, 2 certificates, 1 fault: a replay, a key change in the middle and an attempt after it all fit | holds, 1.3 M states |
| `listener_two` | do sessions end when two devices share the threads? | 2 devices, 1 key, 1 counter, 2 challenges, 1 fault | holds |
| `prov_faults` | does the handshake keep its promise, does the next clean attempt repair everything, and does it end, under faults? | 2 HELLO counters, 2 writes of Enable OTA, 2 faults, no OTA CHECK: one attempt to be spoiled, one to repair | holds, 0.9 M states |
| `prov_races` | the same without faults but with tasks racing | 3 writes of Enable OTA, 1 OTA CHECK | holds, 1.9 M states |
| `prov_reported` | README.md:270: is completion reported as T\|0\|42? | 1 OTA CHECK | violated |
| `update_two` | do the grants keep their promise, and the rows agree with them, with two dispatches to one device, two HTTPS threads and a failure of any kind? | 2 grants, 2 threads, 1 fault, verification only (a build that is not installed can be dispatched twice) | holds, 0.9 M states |
| `update_publish` | with a publish in the middle: is what is installed what was offered, and is F accepted for a verified download only? | 1 grant, 3 builds, 1 publish, 2 threads, 2 faults (a broken transfer and a repeated C fit together) | holds, 4.1 M states |
| `update_live` | with installation and restart: does an undisturbed update end, and confirmed? | 2 grants, 1 thread, 1 fault | holds, 0.4 M states |
| `update_newer` | README.md:330: does the device only load what is newer? | 1 publish, no faults | violated |
| `artifacts` | what may concurrent publishes, a silent or late Zigbee2MQTT and a failure do to files, rows and converters? | 2 publishers, 2 versions, 2 threads, 3 requests (a BIN, its converter and one that crosses them), 1 failure | holds, 0.4 M states |
| `manufacturing` | what may stops at any step leave of schema, root and identities? | revision 3 at the start, 1 fault of the server, 2 projects, 2 installs, 2 set-ups, 1 mishap | holds, 0.95 M states |
| `observability` | does the page show what runs and what happened, once and in order? | 3 signed S, 1 repetition, 1 fault; 2 writers, 4 rows, 2 seconds, pages of 2, 1 broken connection or clearing | holds, 0.7 M states |

Properties of the passing runs: `OneOutcome`, `ContextAdvances`, `CompletedIsSaved`,
`CountersUsedOnce`, `SessionEnds` (listener); `KeepsPromise` (refinement), `CleanAttemptAgrees`,
`CleanAttemptEnds` (handshake); `ConfirmedWasSent`, `ConfirmedWasVerified`, `InstalledWasOffered`,
`CleanUpdateConfirmed`, `CleanUpdateEnds`, `KeepsGrants` (refinement; update); `CleanPublishAgrees`, `ConverterHasBin`,
`LoadedWasHeld`, `MetadataOfBin`, `EveryRequestEnds` (publishing); `ServesWhole`, `ServerComesBack` (start);
`OneIdentityBuilt`, `LockedIsRegistered`, `OneRoot`, `FirstIdentityStands`, `IdentityKept` (identities);
`RunningIsShown`, `ShownWasSent`, `LoggedOnce` (boot status); `NoRowReturns`, `RowsShown` (log); and one
type invariant for each composition. Each has a mutant in `PROJECT.json`: a plausible
bug that the run finds.

`KeepsPromise` says what holds of every attempt, clean or not: the device installs a configuration only of the
attempt challenged last, the server saves only that one, and, as long as Enable OTA was not switched off while
the attempt was pending, only when the device has installed it. The history variable `kept` of `Provisioning`
carries the last condition. Without it the promise is false (section 5, item 11), which the first statement of
it missed: it takes four writes of Enable OTA, one more than the run has. The proof found that, and now covers
any number of them.

`CleanAttemptAgrees` says what the design relies on: faults may leave device and server with
different contexts (a lost T, a restart, a timeout that crosses a late P), and the remedy is to switch
Enable OTA on again. An attempt that begins with everything at rest and meets no new fault ends with
both sides on the context of that very attempt. "At rest" must include that Zigbee2MQTT holds no H the
server has not yet accepted: such a frame, published again with any later change of the device, opens
a session for the old counter, and the genuine H is then ignored (section 5).

`CleanUpdateConfirmed` is the counterpart for updates. Failures leave rows that say STARTED or
COMPLETED for good, grants that stay open, a configuration of another dispatch on the device. A dispatch
of a newer build, made when nothing is under way and met by no failure, must all the same end with the
row at DEVICE_CONFIRMED, its grant used up and the build installed (or reported verified in a dry run).
`KeepsGrants` says of the grants what the docstring of `confirm_completed_download_b64` says, for all threads
together: a grant is used up once, while it is neither overdue nor deleted and after its BIN was sent to the end;
F is accepted only of a grant that was used up; and the row it confirms is that of the image the grant was issued
for, whatever is listed under the code by then. That a transfer once begun ends although its grant is gone
(`Transfer`), and that a confirmed row may be taken back by another download of the image (`Withdraw`), are part
of the promise, as the code has them.
`ConfirmedWasVerified` holds for one dispatch with failures and a publish, and fails for two dispatches
without any (section 5).

`CleanPublishAgrees` is again about what nothing overlapped and nothing disturbed; `ConverterHasBin` and
`LoadedWasHeld` hold of everything, and are proved (section 4). `FirstIdentityStands` rests on the order
in `run.sh`: the service that registers starts after the import. `ServerComesBack` names the two states no
boot gets past: a revision cut short (MySQL commits each statement of it, and the next upgrade fails on the
first), and a certificate not deployed whole. `RowsShown` names the rows the stream leaves out: those that
commit after a larger id was read, those beyond a full page, those cleared.

Deadlock is not checked but in the `listener` runs: bounded commands, requests and faults let the system
stop.

### Fairness

`ListenerSystem`: the MQTT thread goes on with a frame it has taken (weak), the timeout thread writes
the rows it owes (weak), and a session that stays pending is popped by some pass (strong: another
session may be popped, and another pass be under way, in between; the loop runs every second and
looks at all sessions). Nobody owes the server a message, a certificate or a restart, and a dead
timeout thread is no thread: `SessionEnds` says so.

`Provisioning`: every task and thread runs (FreeRTOS and Python threads that are ready), both timers
run out, the frame in front arrives or, without a listener, is dropped. The user, OTA CHECK, faults and
restarts have no fairness. `FrameArrives` is strongly fair because the cached state can be published
again any number of times in between, each keeping the MQTT thread busy for a moment.

`FirmwareUpdate`: every process, thread and task goes on, and Zigbee delivers what it does not lose, all
weakly. The user, the pages, the publisher, Zigbee2MQTT's republication and all failures have no
fairness. A connection that dies silently is a failure: the download then does not end (the read loop of
`ota_service.c:171-179` has no limit for the whole), and `CleanUpdateEnds` says nothing of it.

`ArtifactPublish`: each thread goes on, Zigbee2MQTT takes what it was sent and publishes its list (weakly);
a wait has its deadline (`TimesOut`), which is what `EveryRequestEnds` rests on when an answer is lost.
`Manufacturing`: the Supervisor starts `run.sh` again, the script goes on, and ends when a step fails
(weakly); nobody owes a set-up or an install. `MCObservability`: the stream polls and sends, and the browser
reconnects (weakly); nobody owes a row, and a boot status has no liveness property.

Deadlock freedom of the listener is checked in `listener` and `listener_two`.

## 4. Proofs

Each theorem holds for every value of the constants its module's assumptions allow: any sets of devices, keys,
publishers and threads, any bounds, any number of faults. The assumptions are those the modules declare and TLC
evaluates on every run (bounds are naturals, one of each thing exists, null values are not data); there are no
others, but for `VerifiedIfAlone`, which says its own. Few of the properties are inductive; each invariant below
is what induction needs, and why.

**`ListenerProofs`**, of `ListenerSystem!Spec` (`DevicesAssumption`, `KeysAssumption`, `BoundsAssumption`,
`SystemBoundsAssumption`; the lemmas of `ListenerTypes` are shared with `ProvisioningProofs`):

- `TypeCorrect`: `[]TypeOK`;
- `OutcomeUnique`: `[]OneOutcome`;
- `ContextNeverBack`: `ContextAdvances`;
- `CompletedOnlySaved`: `CompletedIsSaved`;
- `CounterGoodOnce`: `CountersUsedOnce`.

`OneOutcome` is not inductive: that a popped session is not the one the MQTT thread is about to save depends on
how the challenge's random was drawn. The inductive invariant is

    Inv == TypeOK /\ SessionFresh /\ SavingAlone /\ ContextOld /\ ExpiredOld /\ OneOutcome

`SessionFresh`: every pending session's random is below the next one to be drawn and above the
context's. `SavingAlone`: while the MQTT thread saves, the session it popped is in no table, and its
random is above the context's. `ContextOld`, `ExpiredOld`: what is saved or has expired was drawn
before. With these, each action either leaves the random of a session where it was or moves it from
one table to exactly one other. `ContextNeverBack` follows because the only action that changes the
context takes a random from `SavingAlone`. `CompletedOnlySaved` needs where the thread is between context and
row (`SavedFirst`). `CounterGoodOnce` needs that, as long as no certificate is replaced, whatever stands for an
accepted HELLO (row, pending or expired session, session in the thread's hands) has a counter that the
certificate's row has reached (`UsedInv`): a HELLO is accepted only above it, and rows are written late.

**`ProvisioningProofs`**, of `Provisioning!Spec` (the listener's assumptions, `EspAssumption`,
`CompositionAssumption`):

- `HandshakeTypes`: `[]TypeOK`;
- `PromiseKept`: `KeepsPromise`, that is, the handshake of device, transport and listener implements
  `ProvisioningPromise`;
- `CleanAttemptSettles`: `[]CleanAttemptAgrees`.

Opening a session (`OpenSession`) is the promise's `Offer`, switching Enable OTA off `SwitchOff`, the device's
`StoreProvisioning` `Install`, the server's `SaveContext` `Confirm`; every other step leaves the promise's
variables alone. What has to be shown is that `Install` is only of the attempt offered last and `Confirm` only of
that and, unless it was switched off, after `Install`. Both are about counters and randoms that travel, so the
invariant speaks of all places where they may be:

    HandshakeInv == TypeOK /\ FrameInv /\ HeardInv /\ DeviceInv /\ CertInv /\ PendInv /\ JobInv
                    /\ CommandInv /\ LatestInv /\ AnswerInv /\ ReportInv /\ SaveInv

- `HeardInv`: no counter of an H that the server has heard or will hear is above that of the device's session.
  This, with `CommandInv` (commands of earlier attempts have lower counters) and `LatestInv` (all that belongs to
  the last attempt has one counter), makes the counter which the device compares enough to tell a P of the last
  attempt from all earlier ones, whatever is repeated or late. That is `Install`.
- `ReportInv`: while Enable OTA has not been switched off, a device that has signed the R of the pending attempt
  reports completion only after it has installed it, and no T|0|42 of an earlier attempt can come in behind that
  R, because frames keep their order. `SaveInv` carries this over to the step that saves. That is `Confirm`.
- The others say that a random is at most the last one drawn (`FrameInv`, `AnswerInv`), that what the server has
  pending or in hand is the last attempt (`PendInv`, `JobInv`), what the session in the device's flash is
  compared with its counter and its installed configuration (`DeviceInv`), and that nothing is challenged before
  there is a certificate (`CertInv`).

The second condition of `Confirm` was first stated without `kept`; `ReportInv` could not be proved then, and TLC
found why (section 5, item 11).

`CleanAttemptAgrees` speaks of an attempt begun at rest over whatever faults have left, and of the moment when
everything is at rest again. That an attempt has *ended well* by then can only be known from where device,
transport and server have been together since the write, so the invariant follows them through the attempt:

    CleanInv == clean => ServerUp /\ ~reporting /\ Phases
    Phases   == Switches \/ Greets \/ Calls \/ Heeds \/ Replies \/ Serves \/ Stores \/ Confirms

Each phase says what every queue, task and thread may hold, so that the only steps it leaves possible lead to itself
or to the next one. In `Switches`, `Greets` and `Calls` the device drains its apply task, draws its counter and
sends H, while the server is `Vacant`: it has no session, takes no older H for a new one, and frames before H
are T it ignores. In `Heeds` to `Serves` the server accepts this H, and device and server exchange A, R and P, one
of them on its way at a time, all with this counter and this random. In `Stores` the device installs,
and in `Confirms` its T|0|42 is on the way, or was taken and the server saves the context and completes the
row (`Saving`). `Confirms` with the MQTT thread through is the only phase in which everything can be at rest
(`QuietIsDone`), and it says what the property claims. `HandshakeInv` supplies two things: no counter the server
has heard is above the device's (`HeardInv`), without which the new H might be stale, and every H carries the
device's key (`FrameInv`), without which a repeated one would leave an error. The timeouts are harmless because
they only run out where nothing is under way (`Quiet`), and there only the hello task's, with nothing
left to expire.

**`UpdateProofs`**, of `FirmwareUpdate!Spec` (`UpdateAssumption`, `StoreAssumption`, `GrantsAssumption`,
`OtaServiceAssumption`):

- `UpdateTypes`: `[]TypeOK`;
- `OnlySentIsConfirmed`: `[]ConfirmedWasSent`;
- `OfferedIsInstalled`: `InstalledWasOffered`;
- `VerifiedIfAlone`: `[]ConfirmedWasVerified`, if `MaxGrants = 1`. With two dispatches it is false (section 5,
  item 5): F names no download;
- `CleanEndsConfirmed`: `[]CleanUpdateConfirmed`;
- `GrantPromiseKept`: `KeepsGrants`, that is, server, device and network implement `GrantPromise`.

For the first four the inductive invariant is

    UpdateInv == TypeOK /\ DispatchInv /\ UsedInv /\ RequestInv /\ DownloadInv /\ VerifyInv

`UsedInv`: a grant is used up, and an F accepted, only after its BIN was sent to the end. `RequestInv`: an HTTPS
thread between its second look at the files and the last byte sends the image its grant was made for, though the
row of the grant may have been closed by another thread meanwhile. `DownloadInv` follows that image through the
device: the connection it reads from carries the token it asked with, and the hash it compares is that of the
grant's image. `VerifyInv`, for one dispatch, has every stage of an F on its way, from the report on the device
to the row, preceded by a verification.

`CleanEndsConfirmed` (`[]CleanUpdateConfirmed`: an update that starts at rest and that no fault and no publish
disturbs has ended well whenever everything is at rest again) needs to know where every part of the system is,
at every point of the update. Its invariant, on top of `UpdateInv`, is

    BaseInv == overdue \subseteq 1..made /\ (running <=> task.pc # "idle")
    CleanInv == clean => StoreClean /\ Phases
    Phases == Dispatches \/ Publishes \/ Delivers \/ Asks \/ Fetches \/ Ends

`StoreClean`: BIN and metadata are of one build and every scan, the dispatch's and a page's, finds it. Each phase
says what server, device and network have come to: from the scan of the dispatch over the grant, the C, the CHECK
task, the request and the download to the report, the confirmation and the restart. In the longest, `Fetches`,
one HTTPS thread has the grant's token and is either `Answering` or has `Transferred` the BIN, while all others
are idle; in `Ends` the transfer is booked while the device installs and reports, and its F is on the way until
the row is confirmed or about to be (`Told`, `ConfirmedSoon`). `Ends` is the only phase in which everything can be at rest. `BaseInv` holds of all updates:
it is why a new grant is not overdue and a request finds `s_running` false. Every step of the system leads from a
phase to the same or the next one, every other one ends `clean`; pages that are opened, and an old F that
Zigbee2MQTT publishes again, leave the phase as it is.

`GrantPromiseKept` needs, on top of `UpdateInv`, that what is offered is a build, from the scan over the listed row
to the grant, and that only what was granted is sent (`OfferInv`). Then `SendGrants` is `Issue`, of the next number
(`DispatchInv`); `SendAll` is `Transfer`; `Consume` of a valid grant is the promise's, since the thread that consumes
has sent the BIN (`RequestInv`); an F of a completed grant is `Accept`, and `NoteConfirmed` is `Confirm` (the image
of an accepted grant has a row, by `UsedInv` and `OfferInv`). A row noted otherwise, by another download or the
observer, is `Withdraw` (`NoteWithdraws`), a restart `Forget`, maintenance `Withdraw` or `Delete`; every step of the
network and of the device leaves the promise's variables alone (`QuietPromises`).

**`ArtifactProofs`**, of `ArtifactPublish!Spec` (`PublishAssumption`):

- `TypeCorrect`: `[]TypeOK`;
- `NoConverterWithoutBin`: `[]ConverterHasBin`;
- `LoadedOnlyWhatWasHeld`: `[]LoadedWasHeld`.

The guard looks at the row, and the row may be overwritten or cleared before the converter reaches
Zigbee2MQTT, even after the request is over. The first invariant therefore follows the artifact, not the
row:

    BinInv == RowsHaveBin /\ JobsHaveBin /\ WireHasBin /\ ConverterHasBin

every row stands for an accepted BIN of the publisher it names; a request past the guard, and a message on
its way, carry an artifact with such a BIN. The second says that a session's list shows only what
Zigbee2MQTT has held, and that a request comes to write its row only with its own converter in that list:

    HeldInv == ViewsHeld /\ RecordsHeld /\ LoadedWasHeld

`FirmwareRow`, which keeps the old flags, preserves it because it keeps the old converter with them.

**`PublishProofs`**, of the same specification and from the same assumption:

- `CleanPublishSettles`: `[]CleanPublishAgrees`;
- `MetadataFollowsBin`: `[]MetadataOfBin`.

    PublishInv == TypeOK /\ MetadataInv /\ SessionInv /\ CleanInv /\ SettledInv

`MetadataInv` is about publishes of firmware that overlap: they share one temporary name, so one of them may
rename the metadata of another. Either no metadata is pending and what is there is of the BIN, or one request is
alone with its own, or there are more requests to rename it than there is metadata: then one of them finds
nothing, and answers with an error (`failed`). `CleanInv` says how far the stores have come with a publish that
nothing has disturbed, step by step, and that it is the only one; `SessionInv`, what its session with Zigbee2MQTT
knows and has under way; `SettledInv`, that the stores stay so until the next one starts.

**`ManufacturingProofs`**, of `Manufacturing!Spec` (`StartupAssumption`, `IdentityAssumption`):

- `ServesOnlyWhole`: `[]ServesWhole`;
- `ManufacturingTypes`: `[]TypeOK`;
- `RootIsOne`: `[]OneRoot`;
- `LockedWasRegistered`: `[]LockedIsRegistered`;
- `KeysStay`: `IdentityKept`;
- `IdentityIsOne`: `[]OneIdentityBuilt`;
- `FirstStays`: `[]FirstIdentityStands`.

Four invariants, each resting on the one before. `StartInv`: all revisions up to the stamped version are whole,
the one after it is as far as the boot under way has come with it, and a file is set aside only after its rows
are in; so whatever a stop leaves, the next boot either completes it or does not get past it. `RootInv`: the
root is whole before a certificate is signed with it, and a whole one is never replaced. `InstallInv`: files that
are complete and not locked are one registered identity, and so are those an installer has registered; this is
what makes adopting them sound. `FirstInv`: the service has answered for one pair only, that pair is in the registry,
and nothing was answered for a device that an old database knows; it needs `StartInv`, since the service runs
only after the import.

**`ObservabilityProofs`**, of `MCObservability!Spec` (`StatusAssumption`, `FeedAssumption`):

- `WatchTypes`: `[]TypeOK`;
- `OnlySentIsShown`: `[]ShownWasSent`;
- `LatestIsShown`: `[]RunningIsShown`;
- `EachIsLoggedOnce`: `[]LoggedOnce`;
- `GoneStaysGone`: `NoRowReturns`.

    WatchInv == StatusInv /\ (Undisturbed => ShownInv /\ LogInv) /\ FeedInv

`StatusInv`: everything on its way to a row or to the log was sent. Without faults, `ShownInv`: the row has at
least the counter of every S sent, unless that S is still coming; and `LogInv`: an S that was not seen is
still queued, with all earlier ones seen or before it in the queue, and what was seen is in the log in order. The
queue keeps the order only up to repetitions, which is why `QueueInv` speaks of every position and `SeenInv` of
all smaller counters. `FeedInv`: what the page has shown is not above what the stream has read or the browser
has got, so that a reconnection (`Last-Event-ID`) never goes back behind it.

What stays with TLC:

- `SessionEnds`, `CleanAttemptEnds`, `CleanUpdateEnds`, `EveryRequestEnds`, `ServerComesBack`, `RowsShown`: they
  rest on fairness, hence on ENABLED, which TLAPS does not handle.
- `ConfirmedWasVerified` for more than one dispatch, `CompletionReported` and `DownloadsAreNewer`: false of the
  code (section 5).

## 5. Where code and documents disagree

Two have a run that shows them:

1. Completion may not be reported (`prov_reported`): the status byte is shared.
   `zigbee_ota_control.c:81-92` against README.md:270.
2. An older build may be installed (`update_newer`): a scan between the two replacements of a publish
   lists the new BIN under the version of the one before. `server.py:790-792, 808` against README.md:330.

The others have no run of their own. Where a definition is named, TLC finds it violated when it is stated in
the .cfg of the run given:

3. An attempt's row does not keep its TIMEOUT: the MQTT thread writes outside the lock
   (`mqtt_listener.py:296`, `310`, `360` against README.md:423; `TimeoutStaysRecorded` in `Listener.cfg`).
   The context is not affected (`OneOutcome` holds); the table is.
4. A higher H is dropped while an attempt is pending (`mqtt_listener.py:321-325` against README.md:280;
   `HigherHelloIsTaken` in `ProvRaces.cfg`).
5. F confirms the grant that is stored when the monitor looks, which a second CHECK may have replaced;
   republished from Zigbee2MQTT's cache it is accepted before that download is verified
   (`zigbee_ota_cluster.c:113` against `ota_check_security.py:229-231`; `ConfirmedWasVerified` in
   `UpdateTwo.cfg`).
6. The row of a publication names the publisher of its last BIN, and the converter may be of the one before
   (`activity.py:38-43` against DATABASE.md:78; `RowBindsPublisher` in `Artifacts.cfg`).
7. The installer refuses an answer REPLACED so as not to replace an identity, but the service has replaced it
   by then (`device_registry.py:165` against `create_device_identity.py:206`; `RefusedIsNotReplaced` in
   `Manufacturing.cfg`).
8. DATABASE.md:47 expects revision 0003; the code's is 0005.
9. A power loss between the write of `state_v2` and the snapshot leaves the only copy of the context in
   `state_v2`, which the next new request overwrites although `ota_secure_session.c:223` logs that it is
   retained.
10. Enable OTA switched off and on again within a second starts nothing (`zigbee_ota_cluster.c:445`), since
    the previous hello task has not ended.
11. T|0|42 names no attempt, and `apply_enable_task` sends it as well, of the status that an earlier attempt
    left. A second HELLO, of a task that an earlier write started, goes out while the first attempt still
    reports, so the status remains "complete". The user switches Enable OTA on, A is accepted and R signed; then
    off, and the T|0|42 of switching off goes out behind R. The server, which has sent P, takes it as the
    completion of the second attempt and saves its context; the device, switched off, never installs it
    (`mqtt_listener.py:199` against README.md:276; `ConfirmsInstalled` in `ProvRaces.cfg` with
    `MaxCommands = 4`, `MaxCounter = MaxHello = 2`, `MaxChecks = 0`).

Those of the handshake leave device and server consistent after the next undisturbed attempt: that is what
`CleanAttemptAgrees` and `CleanAttemptEnds` say.

## 6. Plan

Done: the handshake, the update, publishing, start, set-up and identities, boot status and the log, each with
its runs; theorems for every safety property of the runs, and for both refinements.

Not modelled, and why:

- Legacy enrolment (`/api/device/challenge`, `/api/device/enroll`): the device component of this repository
  never calls it, so that the other side of the exchange would have to be invented.
- Of `server.py`: HTML, routing, several firmware files and alias codes, and the comparison of version
  strings, which are pure functions of text; the model has one file and numbered builds.
- `publish_firmware.py` and `prepare_z2m_bundle.py`, which prepare the requests that `ArtifactPublish`
  receives, and the check of a project for endpoint collisions: programs that run once over text.
- The validation of an image after its first boot: the rollback it prevents is the bootloader's, which is not
  in the repository, as are the other calls into ESP-IDF.
- Cryptography and X.509, of which the result is modelled; the diagnostic commands `run.sh` reads.
