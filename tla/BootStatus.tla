----------------------------- MODULE BootStatus -----------------------------
(***************************************************************************)
(* S|counter|version|signature, which a device sends once after each boot  *)
(* (ota_boot_status.c), from Zigbee2MQTT over MQTT to two processes:       *)
(* status_listener.py, which keeps the running version in the row of the   *)
(* device's certificate (device_registry.accept_status_counter), and       *)
(* mqtt_observer.py, which writes it into the activity log.                *)
(*                                                                         *)
(* One device.  Its identity may be replaced: certificate 2 is registered  *)
(* and flashed, with or without the flash's counter being erased.  A       *)
(* signature is the certificate whose key made it.  Zigbee2MQTT publishes  *)
(* the last frame again with any later change, and after a restart the one *)
(* it had saved.                                                           *)
(***************************************************************************)
EXTENDS Integers, Sequences

CONSTANTS
    MaxCounter,     \* bound: frames the device signs
    MaxRepeats,     \* bound: publications of an old frame
    MaxFaults       \* bound: what is lost, fails or restarts

ASSUME StatusAssumption ==
    MaxCounter \in Nat /\ MaxRepeats \in Nat /\ MaxFaults \in Nat

Certs == 1..2
Versions == 1..2
None == [counter |-> 0]
Status == [counter : 1..MaxCounter, version : Versions, cert : Certs]

VARIABLES
    device,       \* counter in flash, firmware, certificate, status_task waiting
    signed,       \* bound: frames signed so far
    cached,       \* Zigbee2MQTT: the last S, if no other frame came after it
    saved,        \* Zigbee2MQTT: the one it would start with
    inbox,        \* MQTT: S on its way to each of the two processes
    row,          \* device_certificates: certificate, last_status_counter, version
    verified,     \* status_listener: the S whose signature is right, or None
    seen,         \* mqtt_observer: _seen_status
    logging,      \* mqtt_observer: the S it is writing to the log, or None
    repeats,      \* bound: repeated publications so far
    statusFaults, \* bound: faults so far
    sent,         \* history: the S sent
    logged        \* history: the S in the activity log, in order

zigbee2mqtt == <<cached, saved, inbox>>
listener == <<row, verified>>
observer == <<seen, logging, logged>>
statusVars == <<device, signed, zigbee2mqtt, listener, observer, repeats, statusFaults, sent>>

StatusTypeOK ==
    /\ device \in [counter : 0..MaxCounter, version : Versions, cert : Certs, task : BOOLEAN]
    /\ {cached, saved, verified, logging} \subseteq Status \cup {None}
    /\ \A p \in {"listener", "observer"} : inbox[p] \in Seq(Status)
    /\ row \in [cert : Certs, counter : 0..MaxCounter, version : 0..2]
    /\ seen \subseteq 1..MaxCounter /\ sent \subseteq Status /\ logged \in Seq(Status)
    /\ signed \in 0..MaxCounter /\ repeats \in 0..MaxRepeats /\ statusFaults \in 0..MaxFaults

StatusInit ==
    /\ device = [counter |-> 0, version |-> 1, cert |-> 1, task |-> TRUE] /\ signed = 0
    /\ cached = None /\ saved = None
    /\ inbox = [listener |-> <<>>, observer |-> <<>>]
    /\ row = [cert |-> 1, counter |-> 0, version |-> 0] /\ verified = None
    /\ seen = {} /\ logging = None /\ logged = <<>>
    /\ repeats = 0 /\ statusFaults = 0 /\ sent = {}

Publish(m) == inbox' = [p \in DOMAIN inbox |-> Append(inbox[p], m)]

-----------------------------------------------------------------------------
(* The device *)

\* device_identity_next_enrollment_counter, which H uses too.
Signs ==
    /\ signed < MaxCounter /\ signed' = signed + 1

\* send_status; the task ends once the frame has been given to the stack.
SendStatus ==
    /\ device.task /\ Signs
    /\ LET m == [counter |-> device.counter + 1, version |-> device.version,
                 cert |-> device.cert] IN
       /\ cached' = m /\ Publish(m) /\ sent' = sent \cup {m}
    /\ device' = [device EXCEPT !.counter = @ + 1, !.task = FALSE]
    /\ UNCHANGED <<saved, listener, observer, repeats, statusFaults>>

\* It fails after the counter was stored, and is tried again 5 s later with the next
\* one; or the device says H.
UseCounter ==
    /\ Signs
    /\ device' = [device EXCEPT !.counter = @ + 1]
    /\ cached' \in IF device.task THEN {cached, None} ELSE {None}
    /\ UNCHANGED <<saved, inbox, listener, observer, repeats, statusFaults, sent>>

\* The device starts, perhaps with the other firmware, or joins the network again: a
\* new S.
DeviceBoots ==
    /\ ~device.task
    /\ \E v \in Versions : device' = [device EXCEPT !.version = v, !.task = TRUE]
    /\ UNCHANGED <<signed, zigbee2mqtt, listener, observer, repeats, statusFaults, sent>>

-----------------------------------------------------------------------------
(* Zigbee2MQTT *)

PublishAgain ==
    /\ cached # None /\ repeats < MaxRepeats
    /\ repeats' = repeats + 1 /\ Publish(cached)
    /\ UNCHANGED <<device, signed, cached, saved, listener, observer, statusFaults, sent>>

SaveState ==
    /\ saved # cached
    /\ saved' = cached
    /\ UNCHANGED <<device, signed, cached, inbox, listener, observer, repeats, statusFaults, sent>>

\* It starts with the state it has saved and publishes that.
Zigbee2mqttRestarts ==
    /\ saved # None /\ repeats < MaxRepeats
    /\ repeats' = repeats + 1 /\ cached' = saved /\ Publish(saved)
    /\ UNCHANGED <<device, signed, saved, listener, observer, statusFaults, sent>>

-----------------------------------------------------------------------------
(* status_listener.py *)

Received(p) == [inbox EXCEPT ![p] = Tail(@)]

\* The certificate is read and the signature checked.
VerifyStatus ==
    /\ verified = None /\ inbox["listener"] # <<>>
    /\ LET m == Head(inbox["listener"]) IN
       verified' = IF m.cert = row.cert THEN m ELSE None
    /\ inbox' = Received("listener")
    /\ UNCHANGED <<device, signed, cached, saved, row, observer, repeats, statusFaults, sent>>

\* Mutant: any S the device has signed is taken.
NewerAny(m) == TRUE

\* accept_status_counter: in a transaction of its own.
Newer(m) == row.counter < m.counter

\* Mutant: the next counter is stored.
StoredNext(m) == [row EXCEPT !.counter = m.counter + 1, !.version = m.version]

\* Mutant: the version is written when the row has none.
StoredFirst(m) ==
    [row EXCEPT !.counter = m.counter, !.version = IF @ = 0 THEN m.version ELSE @]

Stored(m) == [row EXCEPT !.counter = m.counter, !.version = m.version]

StoreStatus ==
    /\ verified # None
    /\ row' = IF Newer(verified) THEN Stored(verified) ELSE row
    /\ verified' = None
    /\ UNCHANGED <<device, signed, zigbee2mqtt, observer, repeats, statusFaults, sent>>

-----------------------------------------------------------------------------
(* mqtt_observer.py *)

\* Mutant: as any other frame, only within the three seconds.
AlreadySeenLately(m) == FALSE

\* _status_already_seen: by counter, whoever signed it; marked before it is written.
AlreadySeen(m) == m.counter \in seen

Observe ==
    /\ logging = None /\ inbox["observer"] # <<>> /\ ~AlreadySeen(Head(inbox["observer"]))
    /\ logging' = Head(inbox["observer"]) /\ seen' = seen \cup {Head(inbox["observer"]).counter}
    /\ inbox' = Received("observer")
    /\ UNCHANGED <<device, signed, cached, saved, listener, logged, repeats, statusFaults, sent>>

Overlook ==
    /\ logging = None /\ inbox["observer"] # <<>> /\ AlreadySeen(Head(inbox["observer"]))
    /\ inbox' = Received("observer")
    /\ UNCHANGED <<device, signed, cached, saved, listener, observer, repeats, statusFaults, sent>>

Log ==
    /\ logging # None
    /\ logged' = Append(logged, logging) /\ logging' = None
    /\ UNCHANGED <<device, signed, zigbee2mqtt, listener, seen, repeats, statusFaults, sent>>

-----------------------------------------------------------------------------
(* Faults *)

Fault == statusFaults < MaxFaults /\ statusFaults' = statusFaults + 1

\* The network is not there for all the attempts, or the task is not created.
StatusGivesUp ==
    /\ device.task /\ Fault
    /\ device' = [device EXCEPT !.task = FALSE]
    /\ UNCHANGED <<signed, zigbee2mqtt, listener, observer, repeats, sent>>

\* QoS 0: a process that is away misses it.
LoseStatus(p) ==
    /\ inbox[p] # <<>> /\ Fault
    /\ inbox' = Received(p)
    /\ UNCHANGED <<device, signed, cached, saved, listener, observer, repeats, sent>>

\* The database refuses; on_message catches it.
StoreFails ==
    /\ verified # None /\ Fault
    /\ verified' = None
    /\ UNCHANGED <<device, signed, zigbee2mqtt, row, observer, repeats, sent>>

LogFails ==
    /\ logging # None /\ Fault
    /\ logging' = None
    /\ UNCHANGED <<device, signed, zigbee2mqtt, listener, seen, logged, repeats, sent>>

\* The observer forgets what it has seen.
ObserverRestarts ==
    /\ logging = None /\ seen # {} /\ Fault
    /\ seen' = {}
    /\ UNCHANGED <<device, signed, zigbee2mqtt, listener, logging, logged, repeats, sent>>

\* Another certificate is registered; last_status_counter stays.
ReplaceCertificate ==
    /\ row.cert = 1 /\ Fault
    /\ row' = [row EXCEPT !.cert = 2]
    /\ UNCHANGED <<device, signed, zigbee2mqtt, verified, observer, repeats, sent>>

\* The device is flashed with it; erasing the flash starts the counter over.
FlashCertificate ==
    /\ row.cert = 2 /\ device.cert = 1
    /\ \E c \in {0, device.counter} :
           device' = [device EXCEPT !.cert = 2, !.counter = c, !.task = TRUE]
    /\ UNCHANGED <<signed, zigbee2mqtt, listener, observer, repeats, statusFaults, sent>>

-----------------------------------------------------------------------------

ListenerStep == VerifyStatus \/ StoreStatus
ObserverStep == Observe \/ Overlook \/ Log

StatusNext ==
    \/ SendStatus \/ UseCounter \/ DeviceBoots
    \/ PublishAgain \/ SaveState \/ Zigbee2mqttRestarts
    \/ ListenerStep \/ ObserverStep
    \/ \E p \in DOMAIN inbox : LoseStatus(p)
    \/ StatusGivesUp \/ StoreFails \/ LogFails \/ ObserverRestarts
    \/ ReplaceCertificate \/ FlashCertificate

-----------------------------------------------------------------------------
(* Properties *)

Undisturbed == statusFaults = 0
Delivered == inbox["listener"] = <<>> /\ verified = None /\ inbox["observer"] = <<>> /\ logging = None

\* When all is delivered and nothing was lost, the row shows the firmware the device runs,
\* whatever old S Zigbee2MQTT published again in between (device_registry.py:249).
RunningIsShown ==
    Undisturbed /\ Delivered /\ ~device.task => row.version = device.version

\* What the row shows was sent, under that counter, even if the certificate was replaced
\* between the check of the signature and the write (status_listener.py:88).
ShownWasSent ==
    row.counter # 0 => \E m \in sent : m.counter = row.counter /\ m.version = row.version

\* Each S is in the activity log once, in the order in which the device sent it
\* (mqtt_observer.py:84).
LoggedOnce ==
    Undisturbed =>
        /\ \A i, j \in DOMAIN logged : i < j => logged[i].counter < logged[j].counter
        /\ Delivered => \A m \in sent : \E i \in DOMAIN logged : logged[i] = m
=============================================================================
