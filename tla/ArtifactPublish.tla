-------------------------- MODULE ArtifactPublish --------------------------
(***************************************************************************)
(* Publishing: POST /api/firmware/publish (firmware_publish.py) and POST   *)
(* /api/zigbee2mqtt/publish (zigbee2mqtt_publish.py, publish_guard.py) in  *)
(* concurrent threads of the HTTPS server, over the firmware directory,    *)
(* the rows of artifact_publications and device_certificates, and the      *)
(* external converters of Zigbee2MQTT.                                     *)
(*                                                                         *)
(* A step of a request ends with the one store it writes: a transaction, a *)
(* file, a request to the bridge.  A request is already authentic: signed  *)
(* by the key of a certificate under the Root CA.  Its payload is its      *)
(* number `no', which stands for the SHA256 of the BIN or of the converter;*)
(* a version is published any number of times (git describe --dirty).  All *)
(* publish one file name, and one converter name.                          *)
(***************************************************************************)
EXTENDS Integers

CONSTANTS
    Publishers,    \* devices in whose name artifacts are signed
    Versions,      \* build identities
    Requests,      \* threads of the server
    MaxRequests,   \* bound: requests begun
    MaxFaults,     \* bound: failures and maintenance
    Nothing        \* no file, row, converter or answer

LegacyNames == {"project", "ota"}
Artifact == [device : Publishers, version : Versions, no : 1..MaxRequests]
Row == [device : Publishers, sha : 1..MaxRequests,
        mjs : Artifact \cup {Nothing}, loaded : BOOLEAN]

ASSUME PublishAssumption ==
    /\ MaxRequests \in Nat /\ MaxFaults \in Nat
    /\ Nothing \notin Artifact /\ Nothing \notin Row /\ Nothing # "ok"

Message == [what : {"save"} \cup LegacyNames, art : Artifact]
Job == [pc : {"register", "tmp", "bin", "release", "row",
              "guard", "save", "saving", "removing", "final", "record"},
        kind : {"firmware", "converter"}, art : Artifact, clean : BOOLEAN,
        view : [main : Artifact \cup {Nothing}, legacy : SUBSET LegacyNames],
        reply : {"ok", Nothing}, left : SUBSET LegacyNames]

VARIABLES
    bin,          \* content of <name>.bin
    release,      \* <name>.release.json
    releaseTmp,   \* <name>.release.json.tmp
    rows,         \* artifact_publications by version
    registered,   \* device_certificates: the devices that have a row
    converter,    \* Zigbee2MQTT: the code under <project>.mjs
    legacy,       \* Zigbee2MQTT: the converters of LegacyNames it has
    wire,         \* converter requests on their way to Zigbee2MQTT
    jobs,         \* the requests and where they are
    begun,        \* bound: requests so far
    faults,       \* bound: failures so far
    accepted,     \* history: BINs recorded as published
    held,         \* history: converters Zigbee2MQTT has held
    failed,       \* history: whether a publish of firmware has failed
    settled       \* history: the last request, if nothing disturbed it

stores == <<bin, release, releaseTmp, rows, registered>>
bridge == <<converter, legacy, wire>>
history == <<accepted, held, failed, settled>>
vars == <<stores, bridge, jobs, begun, faults, history>>

NoJob == [pc |-> "idle"]
Active == {r \in Requests : jobs[r].pc # "idle"}

\* What a session knows of Zigbee2MQTT before bridge/converters arrives.
NoView == [main |-> Nothing, legacy |-> {}]
View == [main |-> converter, legacy |-> legacy]

TypeOK ==
    /\ bin \in 0..MaxRequests
    /\ release \in Artifact \cup {Nothing} /\ releaseTmp \in Artifact \cup {Nothing}
    /\ rows \in [Versions -> Row \cup {Nothing}]
    /\ registered \subseteq Publishers
    /\ converter \in Artifact \cup {Nothing} /\ legacy \subseteq LegacyNames
    /\ wire \in [Requests -> Message \cup {Nothing}]
    /\ jobs \in [Requests -> Job \cup {NoJob}]
    /\ begun \in 0..MaxRequests /\ faults \in 0..MaxFaults
    /\ accepted \subseteq Artifact /\ held \subseteq Artifact

Init ==
    /\ bin = 0 /\ release = Nothing /\ releaseTmp = Nothing
    /\ rows = [v \in Versions |-> Nothing]
    /\ registered = {}
    /\ converter = Nothing /\ legacy = LegacyNames
    /\ wire = [r \in Requests |-> Nothing]
    /\ jobs = [r \in Requests |-> NoJob]
    /\ begun = 0 /\ faults = 0
    /\ accepted = {} /\ held = {} /\ failed = FALSE /\ settled = Nothing

-----------------------------------------------------------------------------
(* Requests *)

\* Two requests that overlap disturb each other.
Begins(r, kind, pc) ==
    /\ jobs[r].pc = "idle" /\ wire[r] = Nothing /\ begun < MaxRequests
    /\ begun' = begun + 1 /\ settled' = Nothing
    /\ \E d \in Publishers, v \in Versions :
           LET alone == Active = {} /\ \A q \in Requests : wire[q] = Nothing
               job == [pc |-> pc, kind |-> kind, clean |-> alone,
                       art |-> [device |-> d, version |-> v, no |-> begun + 1],
                       view |-> NoView, reply |-> Nothing, left |-> {}]
           IN jobs' = [q \in Requests |->
                  IF q = r THEN job
                  ELSE IF q \in Active THEN [jobs[q] EXCEPT !.clean = FALSE]
                  ELSE jobs[q]]
    /\ UNCHANGED <<stores, bridge, faults, accepted, held, failed>>

At(r, kind, pc) == jobs[r].pc = pc /\ jobs[r].kind = kind

Goto(r, pc) == jobs' = [jobs EXCEPT ![r].pc = pc]

Done(r) ==
    /\ jobs' = [jobs EXCEPT ![r] = NoJob]
    /\ settled' = IF jobs[r].clean
                  THEN [kind |-> jobs[r].kind, art |-> jobs[r].art]
                  ELSE Nothing

\* The body has arrived whole, its SHA256, certificate, signature and metadata
\* are right; the BIN lies under a temporary name of its own.
FirmwareArrives(r) == Begins(r, "firmware", "register")

\* register_device_certificate: the certificate becomes the registered one.
RegisterPublisher(r) ==
    /\ At(r, "firmware", "register")
    /\ registered' = registered \cup {jobs[r].art.device}
    /\ Goto(r, "tmp")
    /\ UNCHANGED <<bin, release, releaseTmp, rows, bridge, begun, faults, history>>

WriteRelease(r) ==
    /\ At(r, "firmware", "tmp")
    /\ releaseTmp' = jobs[r].art
    /\ Goto(r, "bin")
    /\ UNCHANGED <<bin, release, rows, registered, bridge, begun, faults, history>>

ReplaceBin(r) ==
    /\ At(r, "firmware", "bin")
    /\ bin' = jobs[r].art.no
    /\ Goto(r, "release")
    /\ UNCHANGED <<release, releaseTmp, rows, registered, bridge, begun, faults, history>>

\* Mutant: metadata that is not there is not missed.
ReplaceReleaseIfThere(r) ==
    /\ At(r, "firmware", "release")
    /\ IF releaseTmp # Nothing THEN release' = releaseTmp /\ releaseTmp' = Nothing
       ELSE UNCHANGED <<release, releaseTmp>>
    /\ Goto(r, "row")
    /\ UNCHANGED <<bin, rows, registered, bridge, begun, faults, history>>

\* The temporary name is the same for all: it may hold the metadata of another
\* request, or none, which is an error.
ReplaceRelease(r) ==
    /\ At(r, "firmware", "release")
    /\ \/ /\ releaseTmp # Nothing
          /\ release' = releaseTmp /\ releaseTmp' = Nothing
          /\ Goto(r, "row") /\ UNCHANGED failed
       \/ /\ releaseTmp = Nothing
          /\ jobs' = [jobs EXCEPT ![r] = NoJob] /\ failed' = TRUE
          /\ UNCHANGED <<release, releaseTmp>>
    /\ UNCHANGED <<bin, rows, registered, bridge, begun, faults, accepted, held, settled>>

NewRow(art) == [device |-> art.device, sha |-> art.no, mjs |-> Nothing, loaded |-> FALSE]

\* Mutant: the first upload of a version stays the recorded one.
FirmwareRowKept(old, art) == IF old = Nothing THEN NewRow(art) ELSE old

\* Mutant: two parameters of the statement change places.
FirmwareRowSwapped(old, art) == [NewRow(art) EXCEPT !.device = art.no, !.sha = art.device]

\* An upsert: what it does not set stays as it was.
FirmwareRow(old, art) ==
    IF old = Nothing THEN NewRow(art)
    ELSE [old EXCEPT !.device = art.device, !.sha = art.no]

RecordFirmware(r) ==
    /\ At(r, "firmware", "row")
    /\ LET art == jobs[r].art IN
       /\ rows' = [rows EXCEPT ![art.version] = FirmwareRow(@, art)]
       /\ accepted' = accepted \cup {art}
    /\ Done(r)
    /\ UNCHANGED <<bin, release, releaseTmp, registered, bridge, begun, faults, held, failed>>

-----------------------------------------------------------------------------
(* Converters *)

ConverterArrives(r) == Begins(r, "converter", "guard")

\* Mutant: a BIN of the version, whoever published it.
HasAnyBin(art) == rows[art.version] # Nothing

\* require_verified_firmware_publication
HasVerifiedBin(art) ==
    rows[art.version] # Nothing /\ rows[art.version].device = art.device

Guard(r) ==
    /\ At(r, "converter", "guard")
    /\ IF HasVerifiedBin(jobs[r].art) THEN Goto(r, "save")
       ELSE jobs' = [jobs EXCEPT ![r] = NoJob]
    /\ UNCHANGED <<stores, bridge, begun, faults, history>>

\* A request to the bridge under a transaction number of its own.
Request(r, what, pc, left) ==
    /\ wire' = [wire EXCEPT ![r] = [what |-> what, art |-> jobs[r].art]]
    /\ jobs' = [jobs EXCEPT ![r].pc = pc, ![r].reply = Nothing, ![r].left = left]

\* The session is connected; the list of converters may have come or not.
Save(r) ==
    /\ At(r, "converter", "save")
    /\ Request(r, "save", "saving", {})
    /\ UNCHANGED <<stores, converter, legacy, begun, faults, history>>

\* bridge/converters as it is now reaches a session.
ViewArrives(r) ==
    /\ r \in Active /\ jobs[r].kind = "converter" /\ jobs[r].pc # "guard"
    /\ jobs[r].view # View
    /\ jobs' = [jobs EXCEPT ![r].view = View]
    /\ UNCHANGED <<stores, bridge, begun, faults, history>>

\* Zigbee2MQTT takes a request, perhaps one whose session has given up.
BridgeActs(r) ==
    /\ wire[r] # Nothing
    /\ wire' = [wire EXCEPT ![r] = Nothing]
    /\ IF wire[r].what = "save"
       THEN /\ converter' = wire[r].art /\ held' = held \cup {wire[r].art}
            /\ UNCHANGED legacy
       ELSE /\ legacy' = legacy \ {wire[r].what}
            /\ UNCHANGED <<converter, held>>
    /\ jobs' = IF r \in Active THEN [jobs EXCEPT ![r].reply = "ok"] ELSE jobs
    /\ UNCHANGED <<stores, begun, faults, accepted, failed, settled>>

\* The answer is there, and then the list that shows the effect.  The next legacy
\* name the list still has is removed.
First(names) == IF "project" \in names THEN "project" ELSE "ota"

Proceed(r, names) ==
    LET left == names \cap jobs[r].view.legacy IN
    IF left = {}
    THEN Goto(r, "final") /\ UNCHANGED wire
    ELSE Request(r, First(left), "removing", left)

\* Mutant: sent is loaded.
SavedUnanswered(r) ==
    /\ At(r, "converter", "saving") /\ jobs[r].reply = Nothing
    /\ Goto(r, "record")
    /\ UNCHANGED <<stores, bridge, begun, faults, history>>

Saved(r) ==
    /\ At(r, "converter", "saving") /\ jobs[r].reply = "ok"
    /\ jobs[r].view.main = jobs[r].art
    /\ Proceed(r, LegacyNames)
    /\ UNCHANGED <<stores, converter, legacy, begun, faults, history>>

Removed(r) ==
    /\ At(r, "converter", "removing") /\ jobs[r].reply = "ok"
    /\ First(jobs[r].left) \notin jobs[r].view.legacy
    /\ Proceed(r, jobs[r].left \ {First(jobs[r].left)})
    /\ UNCHANGED <<stores, converter, legacy, begun, faults, history>>

Final(r) ==
    /\ At(r, "converter", "final")
    /\ jobs[r].view.main = jobs[r].art /\ jobs[r].view.legacy = {}
    /\ Goto(r, "record")
    /\ UNCHANGED <<stores, bridge, begun, faults, history>>

\* Nothing is written if the row has gone or belongs to another publisher now.
RecordConverter(r) ==
    /\ At(r, "converter", "record")
    /\ LET art == jobs[r].art IN
       rows' = IF HasVerifiedBin(art)
               THEN [rows EXCEPT ![art.version].mjs = art, ![art.version].loaded = TRUE]
               ELSE rows
    /\ Done(r)
    /\ UNCHANGED <<bin, release, releaseTmp, registered, bridge, begun, faults, accepted, held, failed>>

\* Mutant: the last wait has no deadline.
TimesOutUnlessFinal(r) ==
    /\ \E pc \in {"saving", "removing"} : At(r, "converter", pc)
    /\ jobs' = [jobs EXCEPT ![r] = NoJob]
    /\ UNCHANGED <<stores, bridge, begun, faults, history>>

\* No answer in 20 s, or no list that shows the effect: 400, and the request may
\* still be on its way.
TimesOut(r) ==
    /\ \E pc \in {"saving", "removing", "final"} : At(r, "converter", pc)
    /\ jobs' = [jobs EXCEPT ![r] = NoJob]
    /\ UNCHANGED <<stores, bridge, begun, faults, history>>

-----------------------------------------------------------------------------
(* Failures *)

\* A failure disturbs whatever is under way.
Disturbs ==
    /\ faults < MaxFaults /\ faults' = faults + 1
    /\ failed' = TRUE /\ settled' = Nothing
    /\ UNCHANGED <<begun, accepted>>

Spoilt(js) == [q \in Requests |->
    IF js[q].pc = "idle" THEN js[q] ELSE [js[q] EXCEPT !.clean = FALSE]]

\* A write fails, or Zigbee2MQTT refuses or never gets a request: 400.  What has
\* been done stays done.
RequestFails(r) ==
    /\ r \in Active
    /\ Disturbs
    /\ jobs' = Spoilt([jobs EXCEPT ![r] = NoJob])
    /\ wire' = [wire EXCEPT ![r] = Nothing]
    /\ UNCHANGED <<stores, converter, legacy, held>>

\* The server's process ends.
ServerStops ==
    /\ Active # {}
    /\ Disturbs
    /\ jobs' = [r \in Requests |-> NoJob]
    /\ UNCHANGED <<stores, bridge, held>>

\* clear_maintenance_target('artifacts')
ClearArtifacts ==
    /\ Disturbs
    /\ rows' = [v \in Versions |-> Nothing]
    /\ jobs' = Spoilt(jobs)
    /\ UNCHANGED <<bin, release, releaseTmp, registered, bridge, held>>

FirmwareStep(r) ==
    RegisterPublisher(r) \/ WriteRelease(r) \/ ReplaceBin(r) \/ ReplaceRelease(r)
        \/ RecordFirmware(r)
ConverterStep(r) ==
    Guard(r) \/ Save(r) \/ Saved(r) \/ Removed(r) \/ Final(r)
        \/ RecordConverter(r) \/ TimesOut(r)
BridgeStep(r) == ViewArrives(r) \/ BridgeActs(r)
Failure ==
    \/ ServerStops \/ ClearArtifacts
    \/ \E r \in Requests : RequestFails(r)

Next ==
    \/ \E r \in Requests : FirmwareArrives(r) \/ ConverterArrives(r)
    \/ \E r \in Requests : FirmwareStep(r) \/ ConverterStep(r) \/ BridgeStep(r)
    \/ Failure

Spec == Init /\ [][Next]_vars
FairSpec ==
    /\ Spec
    /\ \A r \in Requests : WF_vars(FirmwareStep(r)) /\ WF_vars(ConverterStep(r))
                           /\ WF_vars(BridgeActs(r)) /\ WF_vars(ViewArrives(r))

-----------------------------------------------------------------------------
(* Properties *)

\* A publish that nothing overlapped and nothing disturbed leaves every store saying
\* the same: the BIN, its metadata and its row, or the converter Zigbee2MQTT has,
\* the old names gone, and the row that calls it loaded (firmware_publish.py:160,
\* zigbee2mqtt_publish.py:187).
CleanPublishAgrees ==
    settled # Nothing =>
        LET art == settled.art
            row == rows[art.version]
        IN /\ row # Nothing /\ row.device = art.device
           /\ settled.kind = "firmware" => 
                  /\ bin = art.no /\ release = art /\ row.sha = art.no
                  /\ art.device \in registered
           /\ settled.kind = "converter" =>
                  converter = art /\ legacy = {} /\ row.mjs = art /\ row.loaded

\* Whatever overlaps, is lost, comes late or is cleared: Zigbee2MQTT never gets a
\* converter whose publisher had not published a BIN of that version before
\* (publish_guard.py:7).
ConverterHasBin ==
    \A m \in held : \E b \in accepted : b.version = m.version /\ b.device = m.device

\* A row calls loaded only a converter that Zigbee2MQTT has had
\* (zigbee2mqtt_publish.py:230).
LoadedWasHeld ==
    \A v \in Versions : rows[v] # Nothing /\ rows[v].loaded => rows[v].mjs \in held

\* Publishes of firmware may overlap and share the temporary name of the metadata:
\* as long as each was answered with 201, the metadata is of the BIN beside it
\* (firmware_publish.py:163).
MetadataOfBin ==
    ~failed /\ release # Nothing /\ (\A r \in Active : jobs[r].kind = "converter") =>
        release.no = bin

\* Every request ends, though another one has taken its converter's place, or an
\* answer is lost (zigbee2mqtt_publish.py:145).
EveryRequestEnds == \A r \in Requests : jobs[r].pc # "idle" ~> jobs[r].pc = "idle"

\* This one the code does not keep (README, section 5): the converter that a row calls
\* loaded is of the publisher the row names, as DATABASE.md:78 has it.
RowBindsPublisher ==
    \A v \in Versions : rows[v] # Nothing /\ rows[v].loaded =>
        rows[v].mjs.device = rows[v].device
=============================================================================
