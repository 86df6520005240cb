--------------------------- MODULE ArtifactProofs ---------------------------
(***************************************************************************)
(* Proofs about ArtifactPublish: type correctness, that Zigbee2MQTT only   *)
(* ever gets a converter whose publisher had published a BIN of that       *)
(* version, and that a row only calls loaded what Zigbee2MQTT has had, for *)
(* any publishers, versions, threads and bounds.                           *)
(***************************************************************************)
EXTENDS ArtifactPublish, TLAPS

Pcs == {"register", "tmp", "bin", "release", "row",
        "guard", "save", "saving", "removing", "final", "record"}

JobsTyped == jobs \in [Requests -> Job \cup {NoJob}]

-----------------------------------------------------------------------------
(* The helpers of the actions keep the jobs in their set. *)

\* A thread that is somewhere is at a step of a request (handle_publish, handle_zigbee2mqtt_publish).
LEMMA ActiveIsJob ==
    ASSUME JobsTyped, NEW r \in Requests, jobs[r].pc # "idle"
    PROVE  jobs[r] \in Job
BY DEF JobsTyped, NoJob

\* Nothing is no artifact, hence neither a message nor a row.
LEMMA NothingIsNoArtifact == Nothing \notin Artifact
BY PublishAssumption DEF Artifact

LEMMA GotoTyped ==
    ASSUME JobsTyped, NEW r \in Requests, jobs[r].pc # "idle", NEW pc \in Pcs,
           Goto(r, pc)
    PROVE  JobsTyped'
<1>1. [jobs[r] EXCEPT !.pc = pc] \in Job
  BY ActiveIsJob DEF Job, Pcs
<1> QED
  BY <1>1 DEF JobsTyped, Goto

LEMMA EndTyped ==
    ASSUME JobsTyped, NEW r \in Requests, jobs' = [jobs EXCEPT ![r] = NoJob]
    PROVE  JobsTyped'
BY DEF JobsTyped

LEMMA RequestTyped ==
    ASSUME JobsTyped, wire \in [Requests -> Message \cup {Nothing}],
           NEW r \in Requests, jobs[r].pc # "idle",
           NEW what \in {"save"} \cup LegacyNames, NEW pc \in Pcs,
           NEW left \in SUBSET LegacyNames, Request(r, what, pc, left)
    PROVE  JobsTyped' /\ wire' \in [Requests -> Message \cup {Nothing}]
<1>1. jobs[r] \in Job
  BY ActiveIsJob
<1>2. [what |-> what, art |-> jobs[r].art] \in Message
  BY <1>1 DEF Job, Message
<1>3. [jobs[r] EXCEPT !.pc = pc, !.reply = Nothing, !.left = left] \in Job
  BY <1>1 DEF Job, Pcs
<1>4. jobs' = [jobs EXCEPT ![r] = [jobs[r] EXCEPT !.pc = pc, !.reply = Nothing, !.left = left]]
  BY DEF Request
<1>5. JobsTyped'
  BY <1>3, <1>4 DEF JobsTyped
<1> QED
  BY <1>2, <1>5 DEF Request

LEMMA ProceedTyped ==
    ASSUME JobsTyped, wire \in [Requests -> Message \cup {Nothing}],
           NEW r \in Requests, jobs[r].pc # "idle",
           NEW names \in SUBSET LegacyNames, Proceed(r, names)
    PROVE  JobsTyped' /\ wire' \in [Requests -> Message \cup {Nothing}]
<1> DEFINE left == names \cap jobs[r].view.legacy
<1>1. CASE left = {}
  BY <1>1, GotoTyped DEF Proceed, Pcs
<1>2. CASE left # {}
  <2>1. First(left) \in {"save"} \cup LegacyNames /\ left \in SUBSET LegacyNames
    BY DEF First, LegacyNames
  <2>2. Request(r, First(left), "removing", left) /\ "removing" \in Pcs
    BY <1>2 DEF Proceed, Pcs
  <2> QED
    BY <2>1, <2>2, RequestTyped
<1> QED
  BY <1>1, <1>2

\* Marking the requests that a failure disturbs changes none of their steps.
LEMMA SpoiltTyped ==
    ASSUME NEW js \in [Requests -> Job \cup {NoJob}]
    PROVE  Spoilt(js) \in [Requests -> Job \cup {NoJob}]
<1>1. ASSUME NEW q \in Requests, js[q].pc # "idle"
      PROVE  [js[q] EXCEPT !.clean = FALSE] \in Job
  <2>1. js[q] \in Job
    BY <1>1 DEF NoJob
  <2> QED
    BY <2>1 DEF Job
<1> QED
  BY <1>1 DEF Spoilt

LEMMA DisturbsTyped ==
    ASSUME faults \in 0..MaxFaults, Disturbs
    PROVE  faults' \in 0..MaxFaults
BY PublishAssumption DEF Disturbs

-----------------------------------------------------------------------------
(* Type correctness *)

\* A request begins with a job of its own (handle_publish, handle_zigbee2mqtt_publish).
LEMMA BeginsTyped ==
    ASSUME TypeOK, NEW r \in Requests,
           NEW kind \in {"firmware", "converter"}, NEW pc \in Pcs, Begins(r, kind, pc)
    PROVE  TypeOK'
<1> USE DEF TypeOK
<1>1. begun' = begun + 1 /\ begun' \in 1..MaxRequests
  BY PublishAssumption DEF Begins
<1> DEFINE alone == Active = {} /\ \A q \in Requests : wire[q] = Nothing
           NewJob(d, v) == [pc |-> pc, kind |-> kind, clean |-> alone,
                            art |-> [device |-> d, version |-> v, no |-> begun + 1],
                            view |-> NoView, reply |-> Nothing, left |-> {}]
<1>2. PICK d \in Publishers, v \in Versions :
          jobs' = [q \in Requests |->
              IF q = r THEN NewJob(d, v)
              ELSE IF q \in Active THEN [jobs[q] EXCEPT !.clean = FALSE]
              ELSE jobs[q]]
  BY Zenon DEF Begins
<1>3. NewJob(d, v) \in Job
  <2>1. [device |-> d, version |-> v, no |-> begun + 1] \in Artifact
    BY <1>1 DEF Artifact
  <2>2. NoView \in [main : Artifact \cup {Nothing}, legacy : SUBSET LegacyNames]
    BY DEF NoView
  <2>3. ASSUME NEW clean \in BOOLEAN, NEW art \in Artifact
        PROVE  [pc |-> pc, kind |-> kind, clean |-> clean, art |-> art,
                view |-> NoView, reply |-> Nothing, left |-> {}] \in Job
    BY <2>2 DEF Job, Pcs
  <2>4. alone \in BOOLEAN
    OBVIOUS
  <2> QED
    BY <2>1, <2>3, <2>4, Zenon
<1>4. ASSUME NEW q \in Active PROVE [jobs[q] EXCEPT !.clean = FALSE] \in Job
  <2>1. jobs[q] \in Job
    BY <1>4, ActiveIsJob DEF Active, JobsTyped
  <2> QED
    BY <2>1 DEF Job
<1> HIDE DEF NewJob
<1>5. jobs' \in [Requests -> Job \cup {NoJob}]
  BY <1>2, <1>3, <1>4
<1>6. UNCHANGED <<stores, bridge, faults, accepted, held, failed>>
  BY Zenon DEF Begins
<1> HIDE DEF alone
<1> QED
  BY <1>1, <1>5, <1>6 DEF stores, bridge

\* So do the steps of a publish of firmware (handle_publish).
LEMMA FirmwareStepTyped ==
    ASSUME TypeOK, NEW r \in Requests, FirmwareStep(r)
    PROVE  TypeOK'
<1> USE DEF TypeOK
<1>0. JobsTyped
  BY DEF JobsTyped
<1>1. jobs[r] \in Job /\ jobs[r].pc # "idle"
  BY <1>0, ActiveIsJob DEF FirmwareStep, RegisterPublisher, WriteRelease, ReplaceBin,
        ReplaceRelease, RecordFirmware, At
<1>2. /\ jobs[r].art \in Artifact /\ jobs[r].art.device \in Publishers
      /\ jobs[r].art.version \in Versions /\ jobs[r].art.no \in 1..MaxRequests
  BY <1>1 DEF Job, Artifact
<1>3. CASE RegisterPublisher(r)
  BY <1>0, <1>1, <1>2, <1>3, GotoTyped DEF RegisterPublisher, JobsTyped, Pcs, bridge, history
<1>4. CASE WriteRelease(r)
  BY <1>0, <1>1, <1>2, <1>4, GotoTyped DEF WriteRelease, JobsTyped, Pcs, bridge, history
<1>5. CASE ReplaceBin(r)
  BY <1>0, <1>1, <1>2, <1>5, GotoTyped DEF ReplaceBin, JobsTyped, Pcs, bridge, history
<1>6. CASE ReplaceRelease(r)
  <2>1. JobsTyped'
    BY <1>0, <1>1, <1>6, GotoTyped, EndTyped DEF ReplaceRelease, Pcs
  <2> QED
    BY <1>6, <2>1 DEF ReplaceRelease, JobsTyped, bridge
<1>7. CASE RecordFirmware(r)
  <2>1. JobsTyped'
    BY <1>0, <1>7, EndTyped DEF RecordFirmware, Done
  <2>2. FirmwareRow(rows[jobs[r].art.version], jobs[r].art) \in Row
    BY <1>2 DEF FirmwareRow, NewRow, Row
  <2>3. rows' \in [Versions -> Row \cup {Nothing}]
    BY <1>2, <1>7, <2>2 DEF RecordFirmware
  <2>4. accepted' \subseteq Artifact
    BY <1>2, <1>7 DEF RecordFirmware
  <2> QED
    BY <1>7, <2>1, <2>3, <2>4 DEF RecordFirmware, JobsTyped, bridge
<1> QED
  BY <1>3, <1>4, <1>5, <1>6, <1>7 DEF FirmwareStep

\* So do the steps of a publish of a converter (handle_zigbee2mqtt_publish).
LEMMA ConverterStepTyped ==
    ASSUME TypeOK, NEW r \in Requests, ConverterStep(r)
    PROVE  TypeOK'
<1> USE DEF TypeOK
<1>0. JobsTyped
  BY DEF JobsTyped
<1>1. jobs[r] \in Job /\ jobs[r].pc # "idle"
  BY <1>0, ActiveIsJob DEF ConverterStep, Guard, Save, Saved, Removed, Final,
        RecordConverter, TimesOut, At
<1>2. jobs[r].art \in Artifact /\ jobs[r].art.version \in Versions /\ jobs[r].left \subseteq LegacyNames
  BY <1>1 DEF Job, Artifact
<1>3. CASE Guard(r)
  <2>1. JobsTyped'
    BY <1>0, <1>1, <1>3, GotoTyped, EndTyped DEF Guard, Pcs
  <2> QED
    BY <1>3, <2>1 DEF Guard, JobsTyped, stores, bridge, history
<1>4. CASE Save(r)
  <2>1. JobsTyped' /\ wire' \in [Requests -> Message \cup {Nothing}]
    BY <1>0, <1>1, <1>4, RequestTyped DEF Save, Pcs
  <2> QED
    BY <1>4, <2>1 DEF Save, JobsTyped, stores, history
<1>5. CASE Saved(r)
  <2>1. JobsTyped' /\ wire' \in [Requests -> Message \cup {Nothing}]
    BY <1>0, <1>1, <1>5, ProceedTyped DEF Saved
  <2> QED
    BY <1>5, <2>1 DEF Saved, JobsTyped, stores, history
<1>6. CASE Removed(r)
  <2>1. JobsTyped' /\ wire' \in [Requests -> Message \cup {Nothing}]
    BY <1>0, <1>1, <1>2, <1>6, ProceedTyped DEF Removed
  <2> QED
    BY <1>6, <2>1 DEF Removed, JobsTyped, stores, history
<1>7. CASE Final(r)
  <2>1. JobsTyped'
    BY <1>0, <1>1, <1>7, GotoTyped DEF Final, Pcs
  <2> QED
    BY <1>7, <2>1 DEF Final, JobsTyped, stores, bridge, history
<1>8. CASE RecordConverter(r)
  <2>1. JobsTyped'
    BY <1>0, <1>8, EndTyped DEF RecordConverter, Done
  <2> DEFINE v == jobs[r].art.version
  <2>2. CASE HasVerifiedBin(jobs[r].art)
    <3>1. rows[v] \in Row
      BY <1>2, <2>2 DEF HasVerifiedBin
    <3>2. [rows[v] EXCEPT !.mjs = jobs[r].art, !.loaded = TRUE] \in Row
      BY <1>2, <3>1 DEF Row
    <3>3. rows' = [rows EXCEPT ![v] = [rows[v] EXCEPT !.mjs = jobs[r].art, !.loaded = TRUE]]
      BY <1>8, <2>2 DEF RecordConverter
    <3> QED
      BY <1>8, <2>1, <3>2, <3>3 DEF RecordConverter, JobsTyped, bridge
  <2>3. CASE ~HasVerifiedBin(jobs[r].art)
    BY <1>8, <2>1, <2>3 DEF RecordConverter, JobsTyped, bridge
  <2> QED
    BY <2>2, <2>3
<1>9. CASE TimesOut(r)
  <2>1. JobsTyped'
    BY <1>0, <1>9, EndTyped DEF TimesOut
  <2> QED
    BY <1>9, <2>1 DEF TimesOut, JobsTyped, stores, bridge, history
<1> QED
  BY <1>3, <1>4, <1>5, <1>6, <1>7, <1>8, <1>9 DEF ConverterStep

\* So does Zigbee2MQTT (_Z2MBridgeSession._on_message).
LEMMA BridgeStepTyped ==
    ASSUME TypeOK, NEW r \in Requests, BridgeStep(r)
    PROVE  TypeOK'
<1> USE DEF TypeOK
<1>1. CASE ViewArrives(r)
  <2>1. jobs[r] \in Job
    BY <1>1, ActiveIsJob DEF ViewArrives, Active, JobsTyped
  <2>2. View \in [main : Artifact \cup {Nothing}, legacy : SUBSET LegacyNames]
    BY DEF View
  <2>3. [jobs[r] EXCEPT !.view = View] \in Job
    BY <2>1, <2>2 DEF Job
  <2>4. jobs' \in [Requests -> Job \cup {NoJob}]
    BY <1>1, <2>3 DEF ViewArrives
  <2> QED
    BY <1>1, <2>4 DEF ViewArrives, stores, bridge, history
<1>2. CASE BridgeActs(r)
  <2>1. ASSUME r \in Active PROVE [jobs[r] EXCEPT !.reply = "ok"] \in Job
    <3>1. jobs[r] \in Job
      BY <2>1, ActiveIsJob DEF Active, JobsTyped
    <3> QED
      BY <3>1 DEF Job
  <2>2. jobs' \in [Requests -> Job \cup {NoJob}]
    BY <1>2, <2>1 DEF BridgeActs
  <2>3. wire[r].art \in Artifact
    BY <1>2 DEF BridgeActs, Message
  <2>4. wire' \in [Requests -> Message \cup {Nothing}]
    BY <1>2 DEF BridgeActs
  <2>5. /\ converter' \in Artifact \cup {Nothing} /\ held' \subseteq Artifact
        /\ legacy' \subseteq LegacyNames
    BY <1>2, <2>3 DEF BridgeActs
  <2> QED
    BY <1>2, <2>2, <2>4, <2>5 DEF BridgeActs, stores
<1> QED
  BY <1>1, <1>2 DEF BridgeStep

\* And whatever fails (the except branches, an end of the process, maintenance).
LEMMA FailureTyped ==
    ASSUME TypeOK, Failure
    PROVE  TypeOK'
<1> USE DEF TypeOK
<1>1. Disturbs /\ faults' \in 0..MaxFaults
  BY DisturbsTyped DEF Failure, ServerStops, ClearArtifacts, RequestFails
<1>2. CASE ServerStops
  BY <1>1, <1>2 DEF ServerStops, Disturbs, stores, bridge
<1>3. CASE ClearArtifacts
  BY <1>1, <1>3, SpoiltTyped DEF ClearArtifacts, Disturbs, bridge
<1>4. ASSUME NEW r \in Requests, RequestFails(r) PROVE TypeOK'
  <2>1. [jobs EXCEPT ![r] = NoJob] \in [Requests -> Job \cup {NoJob}]
    OBVIOUS
  <2>2. jobs' \in [Requests -> Job \cup {NoJob}]
    BY <1>4, <2>1, SpoiltTyped DEF RequestFails
  <2> QED
    BY <1>1, <1>4, <2>2 DEF RequestFails, Disturbs, stores
<1> QED
  BY <1>2, <1>3, <1>4 DEF Failure

LEMMA InitTyped == Init => TypeOK
BY PublishAssumption DEF Init, TypeOK, LegacyNames

LEMMA NextTyped == TypeOK /\ [Next]_vars => TypeOK'
<1> SUFFICES ASSUME TypeOK, [Next]_vars PROVE TypeOK'
  OBVIOUS
<1>1. ASSUME NEW r \in Requests, FirmwareArrives(r) \/ ConverterArrives(r) PROVE TypeOK'
  BY <1>1, BeginsTyped DEF FirmwareArrives, ConverterArrives, Pcs
<1>2. CASE UNCHANGED vars
  BY <1>2 DEF TypeOK, vars, stores, bridge, history
<1> QED
  BY <1>1, <1>2, FirmwareStepTyped, ConverterStepTyped, BridgeStepTyped, FailureTyped
  DEF Next

\* Every variable of the publishing server stays in its set, whatever overlaps
\* or fails (firmware_publish.py, zigbee2mqtt_publish.py).
THEOREM TypeCorrect == Spec => []TypeOK
BY InitTyped, NextTyped, PTL DEF Spec

-----------------------------------------------------------------------------
(* A failure ends a request or leaves it where it is. *)

LEMMA FailureKeepsJobs ==
    ASSUME TypeOK, Failure, NEW q \in Requests, jobs'[q].pc # "idle"
    PROVE  /\ jobs'[q].pc = jobs[q].pc /\ jobs'[q].art = jobs[q].art
           /\ jobs'[q].view = jobs[q].view
<1> DEFINE Same == /\ jobs'[q].pc = jobs[q].pc /\ jobs'[q].art = jobs[q].art
                   /\ jobs'[q].view = jobs[q].view
<1>1. jobs[q].pc # "idle" => jobs[q] \in Job
  BY ActiveIsJob DEF TypeOK, JobsTyped
<1>2. CASE ServerStops
  BY <1>2 DEF ServerStops, NoJob
<1>3. CASE ClearArtifacts
  BY <1>1, <1>3 DEF ClearArtifacts, Spoilt, Job
<1>4. ASSUME NEW r \in Requests, RequestFails(r) PROVE Same
  <2> DEFINE js == [jobs EXCEPT ![r] = NoJob]
  <2>1. jobs'[q] = IF js[q].pc = "idle" THEN js[q] ELSE [js[q] EXCEPT !.clean = FALSE]
    BY <1>4 DEF RequestFails, Spoilt
  <2>2. q # r /\ js[q] = jobs[q]
    BY <2>1 DEF TypeOK, NoJob
  <2> QED
    BY <1>1, <2>1, <2>2 DEF Job
<1> QED
  BY <1>2, <1>3, <1>4 DEF Failure

-----------------------------------------------------------------------------
(* No converter without a BIN *)

HasBin(art) == \E b \in accepted : b.version = art.version /\ b.device = art.device

\* The steps after the guard.
Guarded == {"save", "saving", "removing", "final", "record"}

\* A row stands for a BIN of the publisher it names (record_firmware_publish).
RowsHaveBin ==
    \A v \in Versions : rows[v] # Nothing =>
        \E b \in accepted : b.version = v /\ b.device = rows[v].device

\* A request past the guard has passed it, though the row may have gone since.
JobsHaveBin == \A r \in Requests : jobs[r].pc \in Guarded => HasBin(jobs[r].art)

\* What is on its way was sent by such a request, though it may have ended since.
WireHasBin == \A r \in Requests : wire[r] # Nothing => HasBin(wire[r].art)

BinInv == RowsHaveBin /\ JobsHaveBin /\ WireHasBin /\ ConverterHasBin

\* A step of one thread that writes no row, keeps the artifact and passes no guard
\* leaves all of it as it was.
LEMMA MoveKeepsBin ==
    ASSUME BinInv, NEW r \in Requests,
           UNCHANGED <<rows, accepted, held, wire>>,
           \A q \in Requests : q # r => jobs'[q].pc = jobs[q].pc /\ jobs'[q].art = jobs[q].art,
           jobs'[r].pc \in Guarded => HasBin(jobs'[r].art)
    PROVE  BinInv'
BY DEF BinInv, RowsHaveBin, JobsHaveBin, WireHasBin, ConverterHasBin, HasBin

\* A request to the bridge carries the artifact of the job that sends it (_request).
LEMMA RequestKeepsBin ==
    ASSUME TypeOK, BinInv, NEW r \in Requests, jobs[r].pc \in Guarded,
           NEW what, NEW pc, NEW left,
           Request(r, what, pc, left), UNCHANGED <<rows, accepted, held>>
    PROVE  BinInv'
<1>1. HasBin(jobs[r].art)
  BY DEF BinInv, JobsHaveBin
<1>2. \A q \in Requests : q # r => jobs'[q] = jobs[q] /\ wire'[q] = wire[q]
  BY DEF TypeOK, Request
<1>3. jobs[r] \in Job
  BY ActiveIsJob DEF TypeOK, JobsTyped, Guarded
<1>4. jobs'[r].art = jobs[r].art /\ wire'[r].art = jobs[r].art
  BY <1>3 DEF TypeOK, Request, Job
<1> QED
  BY <1>1, <1>2, <1>4 DEF BinInv, RowsHaveBin, JobsHaveBin, WireHasBin, ConverterHasBin, HasBin

\* Going on keeps the artifact and does not pass the guard (_request, wait_until).
LEMMA GotoKeepsBin ==
    ASSUME TypeOK, BinInv, NEW r \in Requests, jobs[r].pc # "idle", NEW pc,
           pc \in Guarded => HasBin(jobs[r].art),
           Goto(r, pc), UNCHANGED <<rows, accepted, held, wire>>
    PROVE  BinInv'
<1>1. jobs[r] \in Job
  BY ActiveIsJob DEF TypeOK, JobsTyped
<1>2. jobs'[r].art = jobs[r].art /\ jobs'[r].pc = pc
  BY <1>1 DEF TypeOK, Goto, Job
<1>3. \A q \in Requests : q # r => jobs'[q] = jobs[q]
  BY DEF TypeOK, Goto
<1>4. jobs'[r].pc \in Guarded => HasBin(jobs'[r].art)
  BY <1>2
<1> QED
  BY <1>3, <1>4, MoveKeepsBin

\* So does ending (return, and the except branches).
LEMMA EndKeepsBin ==
    ASSUME TypeOK, BinInv, NEW r \in Requests, jobs' = [jobs EXCEPT ![r] = NoJob],
           UNCHANGED <<rows, accepted, held, wire>>
    PROVE  BinInv'
<1>1. /\ \A q \in Requests : q # r => jobs'[q] = jobs[q]
      /\ jobs'[r].pc \notin Guarded
  BY DEF TypeOK, NoJob, Guarded
<1> QED
  BY <1>1, MoveKeepsBin

LEMMA ProceedKeepsBin ==
    ASSUME TypeOK, BinInv, NEW r \in Requests, jobs[r].pc \in Guarded,
           NEW names, Proceed(r, names), UNCHANGED <<rows, accepted, held>>
    PROVE  BinInv'
<1> DEFINE left == names \cap jobs[r].view.legacy
<1>1. CASE left = {}
  <2>1. Goto(r, "final") /\ UNCHANGED wire
    BY <1>1 DEF Proceed
  <2>2. HasBin(jobs[r].art) /\ jobs[r].pc # "idle"
    BY DEF BinInv, JobsHaveBin, Guarded
  <2> QED
    BY <2>1, <2>2, GotoKeepsBin
<1>2. CASE left # {}
  <2>1. Request(r, First(left), "removing", left)
    BY <1>2 DEF Proceed
  <2> QED
    BY <2>1, RequestKeepsBin
<1> QED
  BY <1>1, <1>2

LEMMA BinPreserved ==
    ASSUME TypeOK, BinInv, [Next]_vars
    PROVE  BinInv'
<1>1. ASSUME NEW r \in Requests, FirmwareArrives(r) \/ ConverterArrives(r) PROVE BinInv'
  <2>1. ASSUME NEW q \in Requests, q # r
        PROVE  jobs'[q].pc = jobs[q].pc /\ jobs'[q].art = jobs[q].art
    <3>1. jobs'[q] = IF q \in Active THEN [jobs[q] EXCEPT !.clean = FALSE] ELSE jobs[q]
      BY <1>1, <2>1 DEF FirmwareArrives, ConverterArrives, Begins
    <3>2. q \in Active => jobs[q] \in Job
      BY ActiveIsJob DEF TypeOK, JobsTyped, Active
    <3> QED
      BY <3>1, <3>2 DEF Job
  <2>2. jobs'[r].pc \notin Guarded
    BY <1>1 DEF FirmwareArrives, ConverterArrives, Begins, Guarded
  <2>3. UNCHANGED <<rows, accepted, held, wire>>
    BY <1>1 DEF FirmwareArrives, ConverterArrives, Begins, stores, bridge
  <2> QED
    BY <2>1, <2>2, <2>3, MoveKeepsBin
<1>2. ASSUME NEW r \in Requests, FirmwareStep(r) PROVE BinInv'
  <2>1. CASE RegisterPublisher(r) \/ WriteRelease(r) \/ ReplaceBin(r)
    BY <2>1, GotoKeepsBin
    DEF RegisterPublisher, WriteRelease, ReplaceBin, At, Guarded, bridge, history
  <2>2. CASE ReplaceRelease(r)
    BY <2>2, GotoKeepsBin, EndKeepsBin DEF ReplaceRelease, At, Guarded, bridge
  <2>3. CASE RecordFirmware(r)
    <3> DEFINE art == jobs[r].art
    <3>1. jobs[r] \in Job
      BY <2>3, ActiveIsJob DEF RecordFirmware, At, TypeOK, JobsTyped
    <3>2. art.version \in Versions
      BY <3>1 DEF Job, Artifact
    <3>3. accepted' = accepted \cup {art} /\ UNCHANGED <<held, wire>>
      BY <2>3 DEF RecordFirmware, bridge
    <3>4. RowsHaveBin'
      <4>1. \A v \in Versions : v # art.version => rows'[v] = rows[v]
        BY <2>3 DEF RecordFirmware, TypeOK
      <4>2. rows'[art.version].device = art.device
        <5>1. rows'[art.version] = FirmwareRow(rows[art.version], art)
          BY <2>3, <3>2 DEF RecordFirmware, TypeOK
        <5>2. rows[art.version] # Nothing => rows[art.version] \in Row
          BY <3>2 DEF TypeOK
        <5> QED
          BY <5>1, <5>2 DEF FirmwareRow, NewRow, Row
      <4> QED
        BY <3>3, <4>1, <4>2 DEF BinInv, RowsHaveBin
    <3>5. jobs'[r].pc \notin Guarded /\ \A q \in Requests : q # r => jobs'[q] = jobs[q]
      BY <2>3 DEF RecordFirmware, Done, TypeOK, NoJob, Guarded
    <3> QED
      BY <3>3, <3>4, <3>5 DEF BinInv, JobsHaveBin, WireHasBin, ConverterHasBin, HasBin
  <2> QED
    BY <1>2, <2>1, <2>2, <2>3 DEF FirmwareStep
<1>3. ASSUME NEW r \in Requests, ConverterStep(r) PROVE BinInv'
  <2>1. CASE Guard(r)
    <3>1. CASE HasVerifiedBin(jobs[r].art)
      <4>1. jobs[r] \in Job /\ jobs[r].pc # "idle"
        BY <2>1, ActiveIsJob DEF Guard, At, TypeOK, JobsTyped
      <4>2. HasBin(jobs[r].art)
        BY <3>1, <4>1 DEF HasVerifiedBin, HasBin, BinInv, RowsHaveBin, Job, Artifact
      <4> QED
        BY <2>1, <3>1, <4>1, <4>2, GotoKeepsBin DEF Guard, stores, bridge, history
    <3>2. CASE ~HasVerifiedBin(jobs[r].art)
      BY <2>1, <3>2, EndKeepsBin DEF Guard, stores, bridge, history
    <3> QED
      BY <3>1, <3>2
  <2>2. CASE Save(r)
    BY <2>2, RequestKeepsBin DEF Save, At, Guarded, stores, history
  <2>3. CASE Saved(r)
    BY <2>3, ProceedKeepsBin DEF Saved, At, Guarded, stores, history
  <2>4. CASE Removed(r)
    BY <2>4, ProceedKeepsBin DEF Removed, At, Guarded, stores, history
  <2>5. CASE Final(r)
    <3>1. HasBin(jobs[r].art) /\ jobs[r].pc # "idle"
      BY <2>5 DEF Final, At, BinInv, JobsHaveBin, Guarded
    <3> QED
      BY <2>5, <3>1, GotoKeepsBin DEF Final, stores, bridge, history
  <2>6. CASE RecordConverter(r)
    <3> DEFINE art == jobs[r].art
    <3>1. ASSUME NEW v \in Versions, rows'[v] # Nothing
          PROVE  rows[v] # Nothing /\ rows'[v].device = rows[v].device
      <4>1. CASE HasVerifiedBin(art) /\ v = art.version
        <5>1. rows[v] # Nothing /\ rows[v] \in Row
          BY <4>1 DEF HasVerifiedBin, TypeOK
        <5>2. rows'[v] = [rows[v] EXCEPT !.mjs = art, !.loaded = TRUE]
          BY <2>6, <4>1 DEF RecordConverter, TypeOK
        <5> QED
          BY <5>1, <5>2 DEF Row
      <4>2. CASE ~(HasVerifiedBin(art) /\ v = art.version)
        BY <2>6, <3>1, <4>2 DEF RecordConverter, TypeOK
      <4> QED
        BY <4>1, <4>2
    <3>2. jobs'[r].pc \notin Guarded /\ \A q \in Requests : q # r => jobs'[q] = jobs[q]
      BY <2>6 DEF RecordConverter, Done, TypeOK, NoJob, Guarded
    <3>3. UNCHANGED <<accepted, held, wire>>
      BY <2>6 DEF RecordConverter, bridge
    <3> QED
      BY <3>1, <3>2, <3>3
      DEF BinInv, RowsHaveBin, JobsHaveBin, WireHasBin, ConverterHasBin, HasBin
  <2>7. CASE TimesOut(r)
    BY <2>7, EndKeepsBin DEF TimesOut, stores, bridge, history
  <2> QED
    BY <1>3, <2>1, <2>2, <2>3, <2>4, <2>5, <2>6, <2>7 DEF ConverterStep
<1>4. ASSUME NEW r \in Requests, BridgeStep(r) PROVE BinInv'
  <2>1. ASSUME NEW q \in Requests PROVE jobs'[q].pc = jobs[q].pc /\ jobs'[q].art = jobs[q].art
    <3>1. q \in Active => jobs[q] \in Job
      BY ActiveIsJob DEF TypeOK, JobsTyped, Active
    <3> QED
      BY <1>4, <3>1 DEF BridgeStep, ViewArrives, BridgeActs, TypeOK, Job
  <2>2. CASE ViewArrives(r)
    <3>1. UNCHANGED <<rows, accepted, held, wire>>
      BY <2>2 DEF ViewArrives, stores, bridge, history
    <3> QED
      BY <2>1, <3>1 DEF BinInv, RowsHaveBin, JobsHaveBin, WireHasBin, ConverterHasBin, HasBin
  <2>3. CASE BridgeActs(r)
    <3>1. UNCHANGED <<rows, accepted>> /\ \A q \in Requests : wire'[q] = wire[q] \/ wire'[q] = Nothing
      BY <2>3 DEF BridgeActs, stores, TypeOK
    <3>2. HasBin(wire[r].art) /\ held' \subseteq held \cup {wire[r].art}
      BY <2>3 DEF BridgeActs, BinInv, WireHasBin
    <3> QED
      BY <2>1, <3>1, <3>2 DEF BinInv, RowsHaveBin, JobsHaveBin, WireHasBin, ConverterHasBin, HasBin
  <2> QED
    BY <1>4, <2>2, <2>3 DEF BridgeStep
<1>5. CASE Failure
  <2>1. UNCHANGED <<accepted, held>>
    BY <1>5 DEF Failure, ServerStops, ClearArtifacts, RequestFails, Disturbs
  <2>2. \A v \in Versions : rows'[v] = rows[v] \/ rows'[v] = Nothing
    BY <1>5 DEF Failure, ServerStops, ClearArtifacts, RequestFails, stores
  <2>3. \A q \in Requests : wire'[q] = wire[q] \/ wire'[q] = Nothing
    BY <1>5 DEF Failure, ServerStops, ClearArtifacts, RequestFails, bridge, TypeOK
  <2>4. ASSUME NEW q \in Requests, jobs'[q].pc \in Guarded
        PROVE  jobs[q].pc \in Guarded /\ jobs'[q].art = jobs[q].art
    BY <1>5, <2>4, FailureKeepsJobs DEF Guarded
  <2> QED
    BY <2>1, <2>2, <2>3, <2>4
    DEF BinInv, RowsHaveBin, JobsHaveBin, WireHasBin, ConverterHasBin, HasBin
<1>6. CASE UNCHANGED vars
  BY <1>6 DEF vars, stores, bridge, history, BinInv, RowsHaveBin, JobsHaveBin, WireHasBin,
        ConverterHasBin, HasBin
<1> QED
  BY <1>1, <1>2, <1>3, <1>4, <1>5, <1>6 DEF Next

\* Zigbee2MQTT never gets a converter whose publisher had not published a BIN of
\* that version before, whatever overlaps, is late or is cleared
\* (require_verified_firmware_publication).
THEOREM NoConverterWithoutBin == Spec => []ConverterHasBin
<1>1. Init => BinInv
  BY DEF Init, BinInv, RowsHaveBin, JobsHaveBin, WireHasBin, ConverterHasBin, NoJob, Guarded
<1>2. TypeOK /\ BinInv /\ [Next]_vars => (TypeOK /\ BinInv)'
  BY BinPreserved, NextTyped
<1>3. BinInv => ConverterHasBin
  BY DEF BinInv
<1> QED
  BY <1>1, <1>2, <1>3, InitTyped, PTL DEF Spec

-----------------------------------------------------------------------------
(* Loaded means that Zigbee2MQTT has had it *)

\* What Zigbee2MQTT has, and what a session has seen it have, it has had.
ViewsHeld ==
    /\ converter # Nothing => converter \in held
    /\ \A r \in Requests : jobs[r].pc # "idle" /\ jobs[r].view.main # Nothing =>
           jobs[r].view.main \in held

\* A request comes to write its row only with its own converter in view.
RecordsHeld == \A r \in Requests : jobs[r].pc = "record" => jobs[r].art \in held

HeldInv == ViewsHeld /\ RecordsHeld /\ LoadedWasHeld

\* A step that keeps the views and does not come to the row leaves all as it was.
LEMMA MoveKeepsHeld ==
    ASSUME HeldInv, NEW r \in Requests, UNCHANGED <<rows, held, converter>>,
           \A q \in Requests : q # r => jobs'[q] = jobs[q],
           jobs'[r].pc # "idle" =>
               jobs[r].pc # "idle" /\ jobs'[r].view.main = jobs[r].view.main,
           jobs'[r].pc = "record" => jobs'[r].art \in held
    PROVE  HeldInv'
BY DEF HeldInv, ViewsHeld, RecordsHeld, LoadedWasHeld

LEMMA GotoKeepsHeld ==
    ASSUME TypeOK, HeldInv, NEW r \in Requests, jobs[r].pc # "idle", NEW pc,
           pc = "record" => jobs[r].art \in held,
           Goto(r, pc), UNCHANGED <<rows, held, converter>>
    PROVE  HeldInv'
<1>1. jobs[r] \in Job
  BY ActiveIsJob DEF TypeOK, JobsTyped
<1>2. jobs'[r].art = jobs[r].art /\ jobs'[r].pc = pc /\ jobs'[r].view = jobs[r].view
  BY <1>1 DEF TypeOK, Goto, Job
<1>3. \A q \in Requests : q # r => jobs'[q] = jobs[q]
  BY DEF TypeOK, Goto
<1>4. jobs'[r].pc = "record" => jobs'[r].art \in held
  BY <1>2
<1>5. jobs'[r].pc # "idle" =>
          jobs[r].pc # "idle" /\ jobs'[r].view.main = jobs[r].view.main
  BY <1>2
<1> QED
  BY <1>3, <1>4, <1>5, MoveKeepsHeld

LEMMA EndKeepsHeld ==
    ASSUME TypeOK, HeldInv, NEW r \in Requests, jobs' = [jobs EXCEPT ![r] = NoJob],
           UNCHANGED <<rows, held, converter>>
    PROVE  HeldInv'
<1>1. (\A q \in Requests : q # r => jobs'[q] = jobs[q]) /\ jobs'[r].pc = "idle"
  BY DEF TypeOK, NoJob
<1> QED
  BY <1>1, MoveKeepsHeld

LEMMA RequestKeepsHeld ==
    ASSUME TypeOK, HeldInv, NEW r \in Requests, jobs[r].pc # "idle",
           NEW what, NEW pc, pc # "record", NEW left,
           Request(r, what, pc, left), UNCHANGED <<rows, held, converter>>
    PROVE  HeldInv'
<1>1. jobs[r] \in Job
  BY ActiveIsJob DEF TypeOK, JobsTyped
<1>2. \A q \in Requests : q # r => jobs'[q] = jobs[q]
  BY DEF TypeOK, Request
<1>3. jobs'[r].pc = pc /\ jobs'[r].view = jobs[r].view
  BY <1>1 DEF TypeOK, Request, Job
<1> QED
  BY <1>2, <1>3, MoveKeepsHeld

LEMMA ProceedKeepsHeld ==
    ASSUME TypeOK, HeldInv, NEW r \in Requests, jobs[r].pc # "idle",
           NEW names, Proceed(r, names), UNCHANGED <<rows, held, converter>>
    PROVE  HeldInv'
<1> DEFINE left == names \cap jobs[r].view.legacy
<1>1. CASE left = {}
  <2>1. Goto(r, "final")
    BY <1>1 DEF Proceed
  <2> QED
    BY <2>1, GotoKeepsHeld
<1>2. CASE left # {}
  <2>1. Request(r, First(left), "removing", left)
    BY <1>2 DEF Proceed
  <2> QED
    BY <2>1, RequestKeepsHeld
<1> QED
  BY <1>1, <1>2

LEMMA HeldPreserved ==
    ASSUME TypeOK, HeldInv, [Next]_vars
    PROVE  HeldInv'
<1>1. ASSUME NEW r \in Requests, FirmwareArrives(r) \/ ConverterArrives(r) PROVE HeldInv'
  <2>1. ASSUME NEW q \in Requests, q # r
        PROVE  /\ jobs'[q].pc = jobs[q].pc /\ jobs'[q].art = jobs[q].art
               /\ jobs'[q].view = jobs[q].view
    <3>1. jobs'[q] = IF q \in Active THEN [jobs[q] EXCEPT !.clean = FALSE] ELSE jobs[q]
      BY <1>1, <2>1 DEF FirmwareArrives, ConverterArrives, Begins
    <3>2. q \in Active => jobs[q] \in Job
      BY ActiveIsJob DEF TypeOK, JobsTyped, Active
    <3> QED
      BY <3>1, <3>2 DEF Job
  <2>2. jobs'[r].pc # "record" /\ jobs'[r].view.main = Nothing
    BY <1>1 DEF FirmwareArrives, ConverterArrives, Begins, NoView
  <2>3. UNCHANGED <<rows, held, converter>>
    BY <1>1 DEF FirmwareArrives, ConverterArrives, Begins, stores, bridge
  <2> QED
    BY <2>1, <2>2, <2>3 DEF HeldInv, ViewsHeld, RecordsHeld, LoadedWasHeld
<1>2. ASSUME NEW r \in Requests, FirmwareStep(r) PROVE HeldInv'
  <2>1. CASE RegisterPublisher(r) \/ WriteRelease(r) \/ ReplaceBin(r)
    BY <2>1, GotoKeepsHeld
    DEF RegisterPublisher, WriteRelease, ReplaceBin, At, bridge, history
  <2>2. CASE ReplaceRelease(r)
    BY <2>2, GotoKeepsHeld, EndKeepsHeld DEF ReplaceRelease, At, bridge
  <2>3. CASE RecordFirmware(r)
    <3> DEFINE art == jobs[r].art
    <3>1. ASSUME NEW v \in Versions, rows'[v] # Nothing, rows'[v].loaded
          PROVE  rows[v] # Nothing /\ rows[v].loaded /\ rows'[v].mjs = rows[v].mjs
      <4>1. CASE v = art.version
        <5>1. rows'[v] = FirmwareRow(rows[v], art)
          BY <2>3, <4>1 DEF RecordFirmware, TypeOK
        <5>2. rows[v] # Nothing => rows[v] \in Row
          BY DEF TypeOK
        <5> QED
          BY <3>1, <5>1, <5>2 DEF FirmwareRow, NewRow, Row
      <4>2. CASE v # art.version
        BY <2>3, <3>1, <4>2 DEF RecordFirmware, TypeOK
      <4> QED
        BY <4>1, <4>2
    <3>2. jobs'[r].pc = "idle" /\ \A q \in Requests : q # r => jobs'[q] = jobs[q]
      BY <2>3 DEF RecordFirmware, Done, TypeOK, NoJob
    <3>3. UNCHANGED <<held, converter>>
      BY <2>3 DEF RecordFirmware, bridge
    <3> QED
      BY <3>1, <3>2, <3>3 DEF HeldInv, ViewsHeld, RecordsHeld, LoadedWasHeld
  <2> QED
    BY <1>2, <2>1, <2>2, <2>3 DEF FirmwareStep
<1>3. ASSUME NEW r \in Requests, ConverterStep(r) PROVE HeldInv'
  <2>1. CASE Guard(r)
    BY <2>1, GotoKeepsHeld, EndKeepsHeld DEF Guard, At, stores, bridge, history
  <2>2. CASE Save(r)
    BY <2>2, RequestKeepsHeld DEF Save, At, stores, history
  <2>3. CASE Saved(r)
    BY <2>3, ProceedKeepsHeld DEF Saved, At, stores, history
  <2>4. CASE Removed(r)
    BY <2>4, ProceedKeepsHeld DEF Removed, At, stores, history
  <2>5. CASE Final(r)
    <3>1. jobs[r] \in Job /\ jobs[r].pc # "idle"
      BY <2>5, ActiveIsJob DEF Final, At, TypeOK, JobsTyped
    <3>2. jobs[r].view.main = jobs[r].art /\ jobs[r].art # Nothing
      BY <2>5, <3>1, NothingIsNoArtifact DEF Final, Job
    <3>3. jobs[r].art \in held
      BY <3>1, <3>2 DEF HeldInv, ViewsHeld
    <3> QED
      BY <2>5, <3>1, <3>3, GotoKeepsHeld DEF Final, stores, bridge, history
  <2>6. CASE RecordConverter(r)
    <3> DEFINE art == jobs[r].art
    <3>1. ASSUME NEW v \in Versions, rows'[v] # Nothing, rows'[v].loaded
          PROVE  rows'[v].mjs \in held
      <4>1. CASE HasVerifiedBin(art) /\ v = art.version
        <5>1. rows[v] \in Row
          BY <4>1 DEF HasVerifiedBin, TypeOK
        <5>2. rows'[v] = [rows[v] EXCEPT !.mjs = art, !.loaded = TRUE]
          BY <2>6, <4>1 DEF RecordConverter, TypeOK
        <5>3. rows'[v].mjs = art
          BY <5>1, <5>2 DEF Row
        <5>4. art \in held
          BY <2>6 DEF RecordConverter, At, HeldInv, RecordsHeld
        <5> QED
          BY <5>3, <5>4
      <4>2. CASE ~(HasVerifiedBin(art) /\ v = art.version)
        <5>1. rows'[v] = rows[v]
          BY <2>6, <4>2 DEF RecordConverter, TypeOK
        <5> QED
          BY <3>1, <5>1 DEF HeldInv, LoadedWasHeld
      <4> QED
        BY <4>1, <4>2
    <3>2. jobs'[r].pc = "idle" /\ \A q \in Requests : q # r => jobs'[q] = jobs[q]
      BY <2>6 DEF RecordConverter, Done, TypeOK, NoJob
    <3>3. UNCHANGED <<held, converter>>
      BY <2>6 DEF RecordConverter, bridge
    <3> QED
      BY <3>1, <3>2, <3>3 DEF HeldInv, ViewsHeld, RecordsHeld, LoadedWasHeld
  <2>7. CASE TimesOut(r)
    BY <2>7, EndKeepsHeld DEF TimesOut, stores, bridge, history
  <2> QED
    BY <1>3, <2>1, <2>2, <2>3, <2>4, <2>5, <2>6, <2>7 DEF ConverterStep
<1>4. ASSUME NEW r \in Requests, ViewArrives(r) PROVE HeldInv'
  <2>1. jobs[r] \in Job /\ jobs[r].pc # "idle"
    BY <1>4, ActiveIsJob DEF ViewArrives, Active, TypeOK, JobsTyped
  <2>2. /\ jobs'[r].pc = jobs[r].pc /\ jobs'[r].art = jobs[r].art
        /\ jobs'[r].view.main = converter
    BY <1>4, <2>1 DEF ViewArrives, View, TypeOK, Job
  <2>3. \A q \in Requests : q # r => jobs'[q] = jobs[q]
    BY <1>4 DEF ViewArrives, TypeOK
  <2>4. UNCHANGED <<rows, held, converter>>
    BY <1>4 DEF ViewArrives, stores, bridge, history
  <2> QED
    BY <2>2, <2>3, <2>4 DEF HeldInv, ViewsHeld, RecordsHeld, LoadedWasHeld
<1>5. ASSUME NEW r \in Requests, BridgeActs(r) PROVE HeldInv'
  <2>1. ASSUME NEW q \in Requests
        PROVE  /\ jobs'[q].pc = jobs[q].pc /\ jobs'[q].art = jobs[q].art
               /\ jobs'[q].view = jobs[q].view
    <3>1. q \in Active => jobs[q] \in Job
      BY ActiveIsJob DEF TypeOK, JobsTyped, Active
    <3> QED
      BY <1>5, <3>1 DEF BridgeActs, TypeOK, Job
  <2>2. /\ held \subseteq held' /\ UNCHANGED rows
        /\ UNCHANGED converter \/ converter' \in held'
    BY <1>5 DEF BridgeActs, stores
  <2> QED
    BY <2>1, <2>2 DEF HeldInv, ViewsHeld, RecordsHeld, LoadedWasHeld
<1>6. CASE Failure
  <2>1. UNCHANGED <<held, converter>>
    BY <1>6 DEF Failure, ServerStops, ClearArtifacts, RequestFails, bridge
  <2>2. \A v \in Versions : rows'[v] = rows[v] \/ rows'[v] = Nothing
    BY <1>6 DEF Failure, ServerStops, ClearArtifacts, RequestFails, stores
  <2> QED
    BY <1>6, <2>1, <2>2, FailureKeepsJobs
    DEF HeldInv, ViewsHeld, RecordsHeld, LoadedWasHeld
<1>7. CASE UNCHANGED vars
  BY <1>7 DEF vars, stores, bridge, history, HeldInv, ViewsHeld, RecordsHeld, LoadedWasHeld
<1> QED
  BY <1>1, <1>2, <1>3, <1>4, <1>5, <1>6, <1>7 DEF Next, BridgeStep

\* A row calls loaded only a converter that Zigbee2MQTT has had, though answers come
\* late and other requests replace it (record_converter_publish).
THEOREM LoadedOnlyWhatWasHeld == Spec => []LoadedWasHeld
<1>1. Init => HeldInv
  BY DEF Init, HeldInv, ViewsHeld, RecordsHeld, LoadedWasHeld, NoJob
<1>2. TypeOK /\ HeldInv /\ [Next]_vars => (TypeOK /\ HeldInv)'
  BY HeldPreserved, NextTyped
<1>3. HeldInv => LoadedWasHeld
  BY DEF HeldInv
<1> QED
  BY <1>1, <1>2, <1>3, InitTyped, PTL DEF Spec

=============================================================================
