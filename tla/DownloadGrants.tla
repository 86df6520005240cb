--------------------------- MODULE DownloadGrants ---------------------------
(***************************************************************************)
(* The server half of an update, for one device: a dispatch from the UI    *)
(* grants the download and sends the CHECK (C), the HTTPS threads serve the*)
(* BIN under the grant's token and book the transfer, the device's F       *)
(* confirms it, and the observer notes the CHECK.  (server_mysql.py        *)
(* SecureOTAHandler, server.py OTAHandler, ota_check_runtime.py,           *)
(* ota_check_security.py, mqtt_observer.py, mqtt_listener.py on F.)        *)
(*                                                                         *)
(* They are threads of three processes that meet in two tables: the grants,*)
(* and one row for the device and each image (device_firmware_status).     *)
(* A step is one database transaction, one publish, or opening or sending  *)
(* the file.  Every query names the device, so that the grants of several  *)
(* devices never meet.  A token is known by its grant.                     *)
(***************************************************************************)
EXTENDS FirmwareStore, Sequences

CONSTANTS
    MaxGrants,  \* bound: CHECKs sent
    Requests,   \* HTTPS threads
    FaultKinds, \* the kinds of failures that are looked at
    MaxFaults   \* bound: failures

\* Of the server's processes, Zigbee and Wi-Fi, the device; a CHECK delivered
\* again; something later than usual; maintenance in the UI.
AllFaultKinds == {"server", "network", "device", "repeat", "time",
                  "maintenance"}

ASSUME GrantsAssumption ==
    /\ MaxGrants \in Nat \ {0} /\ MaxFaults \in Nat
    /\ FaultKinds \subseteq AllFaultKinds

GrantIds == 1..MaxGrants

VARIABLES
    grants,      \* download_grants, by number of issue
    overdue,     \* grants whose expires_at has passed
    rows,        \* device_firmware_status.state, by image
    sender,      \* the dispatch under way: its step and what it offers
    made,        \* grants issued so far
    checks,      \* C frames on their way to the device, oldest first
    observed,    \* C frames the observer has yet to handle
    observing,   \* the image the observer is about to note, or 0
    requests,    \* the HTTPS threads
    confirming,  \* the grant the MQTT thread is about to confirm, or 0
    sent,        \* history: grants whose BIN was sent to the end
    faults       \* failures so far

tables == <<grants, overdue, rows, made, sent>>
grantVars == <<tables, sender, checks, observed, observing, requests,
               confirming>>

GrantStates == {"none", "open", "used", "deleted"}
RowStates == {"NONE", "CHECK_SENT", "DOWNLOAD_STARTED", "DOWNLOAD_COMPLETED",
              "DOWNLOAD_FAILED", "DEVICE_CONFIRMED"}

NoSend == [pc |-> "idle", offer |-> NoOffer]

RequestPcs == {"idle", "look", "check", "start", "again", "recheck", "open",
               "sending", "book", "fail", "consume"}
Answers == {"none", "refused", "ok", "all", "broken"}

\* grant: of the token presented; booked: activity_image; image: ota_sha256;
\* body: the content of the open file; answer: what the device sees of it.
Request == [pc : RequestPcs, grant : 0..MaxGrants, booked : 0..MaxBuild,
            image : 0..MaxBuild, body : 0..MaxBuild, answer : Answers]
NoRequest == [pc |-> "idle", grant |-> 0, booked |-> 0, image |-> 0,
              body |-> 0, answer |-> "none"]

Fault(kind) ==
    /\ kind \in FaultKinds /\ faults < MaxFaults
    /\ faults' = faults + 1

\* firmware_device_state: a blind upsert.
Note(image, state) ==
    rows' = IF image = 0 THEN rows ELSE [rows EXCEPT ![image] = state]

-----------------------------------------------------------------------------
(* Dispatch: POST /send *)

SendOnly ==
    UNCHANGED <<bin, release, listed, publishing, publishes, tables, checks,
                observed, observing, requests, confirming, faults>>

\* get_image, after its scan.
SendLooks ==
    /\ scanning["send"].pc = "listed" /\ sender.pc = "idle"
    /\ scanning' = [scanning EXCEPT !["send"] = NoScan]
    /\ sender' = IF listed = NoOffer THEN NoSend
                 ELSE [pc |-> "version", offer |-> listed]
    /\ SendOnly

\* _firmware_for_code: the version listed by now, if it is that image still.
SendFindsVersion ==
    /\ sender.pc = "version"
    /\ sender' = IF listed.image = sender.offer.image
                 THEN [pc |-> "grant", offer |-> listed] ELSE NoSend
    /\ UNCHANGED scanning /\ SendOnly

\* create_ota_check_grant.
SendGrants ==
    /\ sender.pc = "grant" /\ made < MaxGrants
    /\ made' = made + 1
    /\ grants' = [grants EXCEPT ![made + 1] =
           [state |-> "open", offer |-> sender.offer]]
    /\ sender' = [sender EXCEPT !.pc = "publish"]
    /\ UNCHANGED <<storeVars, overdue, rows, sent, checks, observed, observing,
                   requests, confirming, faults>>

\* make_check_payload and the MQTT publish, heard by Zigbee2MQTT and observer.
SendPublishes ==
    /\ sender.pc = "publish"
    /\ checks' = Append(checks, made)
    /\ observed' = Append(observed, made)
    /\ sender' = NoSend
    /\ UNCHANGED <<storeVars, tables, observing, requests, confirming, faults>>

\* Home Assistant or the database refuses; a grant already made stays open.
SendFails ==
    /\ sender.pc # "idle"
    /\ Fault("server")
    /\ sender' = NoSend
    /\ UNCHANGED <<storeVars, tables, checks, observed, observing, requests,
                   confirming>>

-----------------------------------------------------------------------------
(* The observer: CHECK_SENT, for the image listed under the code by now *)

ObserverLooks ==
    /\ observed # <<>> /\ observing = 0
    /\ observed' = Tail(observed)
    /\ observing' = listed.image
    /\ UNCHANGED <<storeVars, tables, sender, checks, requests, confirming,
                   faults>>

ObserverNotes ==
    /\ observing # 0
    /\ Note(observing, "CHECK_SENT")
    /\ observing' = 0
    /\ UNCHANGED <<storeVars, grants, overdue, made, sent, sender, checks,
                   observed, requests, confirming, faults>>

-----------------------------------------------------------------------------
(* GET: SecureOTAHandler, which books the transfer, around OTAHandler *)

Step(r, changed) == requests' = [requests EXCEPT ![r] = changed]
RequestOnly ==
    UNCHANGED <<storeVars, tables, sender, checks, observed, observing,
                confirming, faults>>

\* Mutant: the token is good for whatever is listed under its code.
ValidAnyImage(g, image) == grants[g].state = "open" /\ g \notin overdue

\* validate_download_token.
Valid(g, image) ==
    /\ grants[g].state = "open" /\ g \notin overdue
    /\ grants[g].offer.image = image

Get(r, g) ==
    /\ requests[r].pc = "idle"
    /\ Step(r, [NoRequest EXCEPT !.pc = "look", !.grant = g])
    /\ RequestOnly

\* resolve_image_code, once in each of the two handlers.
Look(r) ==
    /\ requests[r].pc \in {"look", "again"}
    /\ Step(r, [requests[r] EXCEPT
           !.image = listed.image,
           !.pc = IF @ = "look" THEN "check" ELSE "recheck"])
    /\ RequestOnly

\* The first validation decides whether the transfer is booked at all.
Check(r) ==
    /\ requests[r].pc = "check"
    /\ LET q == requests[r]
       IN IF Valid(q.grant, q.image)
          THEN Step(r, [q EXCEPT !.pc = "start", !.booked = q.image])
          ELSE Step(r, [q EXCEPT !.pc = "again"])
    /\ RequestOnly

Start(r) ==
    /\ requests[r].pc = "start"
    /\ Note(requests[r].booked, "DOWNLOAD_STARTED")
    /\ Step(r, [requests[r] EXCEPT !.pc = "again"])
    /\ UNCHANGED <<storeVars, grants, overdue, made, sent, sender, checks,
                   observed, observing, confirming, faults>>

\* The second decides whether it is served: 404 or 401 otherwise.
Recheck(r) ==
    /\ requests[r].pc = "recheck"
    /\ LET q == requests[r]
       IN IF Valid(q.grant, q.image)
          THEN Step(r, [q EXCEPT !.pc = "open"])
          ELSE Step(r, [q EXCEPT !.pc = "idle", !.answer = "refused"])
    /\ RequestOnly

\* The file as it is now; a later publish does not touch the open file.
Open(r) ==
    /\ requests[r].pc = "open"
    /\ Step(r, [requests[r] EXCEPT !.pc = "sending", !.body = bin,
                                   !.answer = "ok"])
    /\ RequestOnly

SendAll(r) ==
    /\ requests[r].pc = "sending"
    /\ Step(r, [requests[r] EXCEPT !.pc = "book", !.answer = "all"])
    /\ sent' = sent \cup {requests[r].grant}
    /\ UNCHANGED <<storeVars, grants, overdue, rows, made, sender, checks,
                   observed, observing, confirming, faults>>

\* The client goes away: noted if it is a broken pipe or a reset connection,
\* and not at all if it is any other error.
SendBreaks(r) ==
    /\ requests[r].pc = "sending"
    /\ \E pc \in {"fail", "idle"} :
          Step(r, [requests[r] EXCEPT !.pc = pc, !.answer = "broken"])
    /\ UNCHANGED <<storeVars, tables, sender, checks, observed, observing,
                   confirming>>

NoteFailed(r) ==
    /\ requests[r].pc = "fail"
    /\ Note(requests[r].booked, "DOWNLOAD_FAILED")
    /\ Step(r, [requests[r] EXCEPT !.pc = "idle"])
    /\ UNCHANGED <<storeVars, grants, overdue, made, sent, sender, checks,
                   observed, observing, confirming, faults>>

Book(r) ==
    /\ requests[r].pc = "book"
    /\ Note(requests[r].booked, "DOWNLOAD_COMPLETED")
    /\ Step(r, [requests[r] EXCEPT !.pc = "consume"])
    /\ UNCHANGED <<storeVars, grants, overdue, made, sent, sender, checks,
                   observed, observing, confirming, faults>>

\* Mutant: expires_at is not looked at again.
ConsumeLate(r) ==
    /\ requests[r].pc = "consume"
    /\ LET q == requests[r]
       IN grants' = IF grants[q.grant].state = "open"
                    THEN [grants EXCEPT ![q.grant].state = "used"] ELSE grants
    /\ Step(r, [requests[r] EXCEPT !.pc = "idle"])
    /\ UNCHANGED <<storeVars, overdue, rows, made, sent, sender, checks,
                   observed, observing, confirming, faults>>

\* consume_dispatch_token: too late after expires_at.
Consume(r) ==
    /\ requests[r].pc = "consume"
    /\ LET q == requests[r]
       IN grants' = IF Valid(q.grant, q.image)
                    THEN [grants EXCEPT ![q.grant].state = "used"] ELSE grants
    /\ Step(r, [requests[r] EXCEPT !.pc = "idle"])
    /\ UNCHANGED <<storeVars, overdue, rows, made, sent, sender, checks,
                   observed, observing, confirming, faults>>

\* A database error ends the thread, and the connection with it.
RequestDies(r) ==
    /\ requests[r].pc \notin {"idle", "sending", "open"}
    /\ Fault("server")
    /\ Step(r, [requests[r] EXCEPT !.pc = "idle",
                    !.answer = IF @ = "all" THEN @ ELSE "broken"])
    /\ UNCHANGED <<storeVars, tables, sender, checks, observed, observing,
                   confirming>>

-----------------------------------------------------------------------------
(* F|random of the grant, in the MQTT thread of mqtt_listener.py *)

\* Mutant: the row alone decides.
CompletedByRow(g) ==
    rows[grants[g].offer.image] = "DOWNLOAD_COMPLETED"

\* confirm_completed_download_b64.
Completed(g) ==
    /\ grants[g].state = "used"
    /\ rows[grants[g].offer.image] = "DOWNLOAD_COMPLETED"

OnCompletion(g) ==
    /\ confirming = 0
    /\ confirming' = IF Completed(g) THEN g ELSE 0
    /\ UNCHANGED <<storeVars, tables, sender, checks, observed, observing,
                   requests>>

NoteConfirmed ==
    /\ confirming # 0
    /\ Note(grants[confirming].offer.image, "DEVICE_CONFIRMED")
    /\ confirming' = 0
    /\ UNCHANGED <<storeVars, grants, overdue, made, sent, sender, checks,
                   observed, observing, requests, faults>>

-----------------------------------------------------------------------------
(* Time, maintenance and restart *)

\* DOWNLOAD_TTL_SECONDS (300) after it was made.
Expires(g) ==
    /\ grants[g].state = "open" /\ g \notin overdue
    /\ overdue' = overdue \cup {g}
    /\ UNCHANGED <<storeVars, grants, rows, made, sent, sender, checks,
                   observed, observing, requests, confirming>>

\* clear_maintenance_target("firmware"), ("esp") and ("images").
Clear(target) ==
    /\ rows' = [i \in Builds |-> "NONE"]
    /\ grants' = IF target = "firmware" THEN grants
                 ELSE [g \in GrantIds |-> IF grants[g].state = "none"
                           THEN grants[g]
                           ELSE [grants[g] EXCEPT !.state = "deleted"]]
    /\ listed' = IF target = "images" THEN NoOffer ELSE listed
    /\ UNCHANGED <<bin, release, publishing, scanning, publishes, overdue,
                   made, sent, sender, checks, observed, observing, requests,
                   confirming>>

\* The add-on ends, wherever its processes are, and starts again.
Restart ==
    /\ StoreStops
    /\ sender' = NoSend /\ observed' = <<>> /\ observing' = 0
    /\ confirming' = 0
    /\ requests' = [r \in Requests |->
           [requests[r] EXCEPT !.pc = "idle",
               !.answer = IF @ \in {"all", "refused"} THEN @ ELSE "broken"]]
    /\ UNCHANGED <<tables, checks>>

-----------------------------------------------------------------------------
GrantsTypeOK ==
    /\ StoreTypeOK
    /\ grants \in [GrantIds -> [state : GrantStates, offer : Offer]]
    /\ overdue \subseteq GrantIds /\ sent \subseteq GrantIds
    /\ rows \in [Builds -> RowStates]
    /\ sender \in [pc : {"idle", "version", "grant", "publish"}, offer : Offer]
    /\ made \in 0..MaxGrants
    /\ checks \in Seq(GrantIds) /\ observed \in Seq(GrantIds)
    /\ observing \in 0..MaxBuild /\ confirming \in 0..MaxGrants
    /\ requests \in [Requests -> Request]
    /\ faults \in 0..MaxFaults

GrantsInit ==
    /\ StoreInit
    /\ grants = [g \in GrantIds |-> [state |-> "none", offer |-> NoOffer]]
    /\ overdue = {} /\ sent = {} /\ made = 0
    /\ rows = [i \in Builds |-> "NONE"]
    /\ sender = NoSend /\ checks = <<>>
    /\ observed = <<>> /\ observing = 0 /\ confirming = 0
    /\ requests = [r \in Requests |-> NoRequest]
    /\ faults = 0

\* What an HTTPS thread does by itself.
RequestStep(r) ==
    \/ Look(r) \/ Check(r) \/ Start(r) \/ Recheck(r) \/ Open(r) \/ SendAll(r)
    \/ NoteFailed(r) \/ Book(r) \/ Consume(r)
=============================================================================
