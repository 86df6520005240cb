--------------------------- MODULE PublishProofs ---------------------------
(***************************************************************************)
(* Proofs about ArtifactPublish: what a publish leaves in the stores.  One *)
(* that nothing overlapped or disturbed leaves them all saying the same;   *)
(* and publishes of firmware that overlap leave metadata that is of the    *)
(* BIN, unless one of them was refused.                                    *)
(***************************************************************************)
EXTENDS ArtifactProofs

-----------------------------------------------------------------------------
(* The inductive invariant *)

FirmwarePcs == {"register", "tmp", "bin", "release", "row"}

\* Requests that have written metadata under the temporary name and not renamed it yet.
Pending == {r \in Requests : jobs[r].pc \in {"bin", "release"}}

\* There are more requests to rename it than there is metadata: one will be refused.
Crowded ==
    \/ \E r, q \in Pending : r # q
    \/ Pending # {} /\ releaseTmp = Nothing

Between == Pending = {} /\ releaseTmp = Nothing /\ (release = Nothing \/ release.no = bin)

Alone(r) ==
    /\ Pending = {r} /\ releaseTmp = jobs[r].art
    /\ jobs[r].pc = "release" => bin = jobs[r].art.no

MetadataInv == failed \/ Crowded \/ Between \/ \E r \in Requests : Alone(r)

\* What is on its way for a request, and what its session knows of Zigbee2MQTT.
Session(r) ==
    /\ jobs[r].kind = IF jobs[r].pc \in FirmwarePcs THEN "firmware" ELSE "converter"
    /\ jobs[r].reply = "ok" \/ jobs[r].pc \notin {"saving", "removing"} => wire[r] = Nothing
    /\ wire[r] # Nothing =>
           IF jobs[r].pc = "saving" THEN wire[r] = [what |-> "save", art |-> jobs[r].art]
           ELSE wire[r].what # "save"
    /\ jobs[r].view.main # Nothing => legacy \subseteq jobs[r].view.legacy
    /\ jobs[r].pc = "record" => legacy = {}

SessionInv == \A r \in Active : Session(r)

\* How far a request that nothing has disturbed has come.
CleanFirmware(r) ==
    /\ jobs[r].pc # "register" => jobs[r].art.device \in registered
    /\ jobs[r].pc \in {"bin", "release"} => releaseTmp = jobs[r].art
    /\ jobs[r].pc \in {"release", "row"} => bin = jobs[r].art.no
    /\ jobs[r].pc = "row" => release = jobs[r].art

CleanConverter(r) ==
    /\ jobs[r].pc # "guard" => HasVerifiedBin(jobs[r].art)
    /\ jobs[r].pc = "saving" /\ jobs[r].reply = "ok" => converter = jobs[r].art
    /\ jobs[r].pc \in {"removing", "final", "record"} => converter = jobs[r].art

CleanJob(r) ==
    /\ jobs[r].kind = "firmware" => CleanFirmware(r)
    /\ jobs[r].kind = "converter" => CleanConverter(r)

\* It is the only one, and nothing of an earlier one is on its way.
CleanInv ==
    \A r \in Active : jobs[r].clean =>
        /\ Active = {r} /\ \A q \in Requests : q # r => wire[q] = Nothing
        /\ CleanJob(r)

SettledInv ==
    settled # Nothing =>
        Active = {} /\ (\A q \in Requests : wire[q] = Nothing) /\ CleanPublishAgrees

PublishInv == TypeOK /\ MetadataInv /\ SessionInv /\ CleanInv /\ SettledInv

LEMMA PublishInvInit == Init => PublishInv
<1> SUFFICES ASSUME Init PROVE PublishInv
  OBVIOUS
<1>1. Active = {} /\ Pending = {}
  BY DEF Init, Active, Pending, NoJob
<1> QED
  BY <1>1, InitTyped
  DEF Init, PublishInv, MetadataInv, Between, SessionInv, CleanInv, SettledInv

-----------------------------------------------------------------------------
(* What the helpers of the actions do to the job of a thread *)

Others(r) == \A q \in Requests : q # r => jobs'[q] = jobs[q]

Moves(r, pc) ==
    /\ Others(r)
    /\ jobs'[r].pc = pc /\ jobs'[r].art = jobs[r].art /\ jobs'[r].kind = jobs[r].kind
    /\ jobs'[r].clean = jobs[r].clean /\ jobs'[r].view = jobs[r].view

LEMMA ActiveIs ==
    ASSUME TypeOK, NEW r \in Requests, jobs[r].pc # "idle"
    PROVE  /\ r \in Active /\ jobs[r] \in Job
           /\ jobs[r].art \in Artifact /\ jobs[r].art # Nothing
           /\ jobs[r].art.version \in Versions
BY ActiveIsJob, NothingIsNoArtifact DEF TypeOK, JobsTyped, Active, Job, Artifact

LEMMA GotoIs ==
    ASSUME TypeOK, NEW r \in Requests, jobs[r].pc # "idle", NEW pc, Goto(r, pc)
    PROVE  Moves(r, pc) /\ jobs'[r].reply = jobs[r].reply
<1>1. jobs[r] \in Job /\ jobs' = [jobs EXCEPT ![r] = [jobs[r] EXCEPT !.pc = pc]]
  BY ActiveIs DEF Goto
<1>2. jobs'[r] = [jobs[r] EXCEPT !.pc = pc] /\ Others(r)
  BY <1>1 DEF TypeOK, Others
<1> QED
  BY <1>1, <1>2 DEF Moves, Job

LEMMA RequestIs ==
    ASSUME TypeOK, NEW r \in Requests, jobs[r].pc # "idle", NEW what, NEW pc, NEW left,
           Request(r, what, pc, left)
    PROVE  /\ Moves(r, pc) /\ jobs'[r].reply = Nothing
           /\ wire'[r] = [what |-> what, art |-> jobs[r].art]
           /\ \A q \in Requests : q # r => wire'[q] = wire[q]
<1>1. /\ jobs[r] \in Job
      /\ jobs' = [jobs EXCEPT ![r] = [jobs[r] EXCEPT !.pc = pc, !.reply = Nothing, !.left = left]]
  BY ActiveIs DEF Request
<1>2. jobs'[r] = [jobs[r] EXCEPT !.pc = pc, !.reply = Nothing, !.left = left] /\ Others(r)
  BY <1>1 DEF TypeOK, Others
<1>3. {"pc", "art", "kind", "clean", "view", "reply", "left"} \subseteq DOMAIN jobs[r]
  BY <1>1 DEF Job
<1>4. /\ jobs'[r].pc = pc /\ jobs'[r].art = jobs[r].art /\ jobs'[r].kind = jobs[r].kind
      /\ jobs'[r].view = jobs[r].view /\ jobs'[r].reply = Nothing
  BY <1>2, <1>3
<1>5. jobs'[r].clean = jobs[r].clean
  BY <1>2, <1>3
<1> QED
  BY <1>2, <1>4, <1>5 DEF Request, TypeOK, Moves

LEMMA EndIs ==
    ASSUME TypeOK, NEW r \in Requests, jobs' = [jobs EXCEPT ![r] = NoJob]
    PROVE  jobs'[r].pc = "idle" /\ Others(r)
BY DEF TypeOK, NoJob, Others

-----------------------------------------------------------------------------
(* The metadata of overlapping publishes *)

\* Only a request about to rename the metadata, and the three files, matter.
LEMMA MetadataStays ==
    ASSUME MetadataInv, UNCHANGED <<bin, release, releaseTmp, failed>>,
           \A q \in Requests :
               jobs[q].pc \in {"bin", "release"} \/ jobs'[q].pc \in {"bin", "release"} =>
                   jobs'[q].pc = jobs[q].pc /\ jobs'[q].art = jobs[q].art
    PROVE  MetadataInv'
<1>1. Pending' = Pending
  BY DEF Pending
<1>2. \A r \in Pending : jobs'[r].pc = jobs[r].pc /\ jobs'[r].art = jobs[r].art
  BY DEF Pending
<1>3. \A r \in Requests : Alone(r) => Alone(r)'
  BY <1>1, <1>2 DEF Alone
<1> QED
  BY <1>1, <1>3 DEF MetadataInv, Crowded, Between

LEMMA MetadataWrites ==
    ASSUME TypeOK, MetadataInv, NEW r \in Requests, WriteRelease(r)
    PROVE  MetadataInv'
<1>1. jobs[r].pc = "tmp" /\ Moves(r, "bin") /\ releaseTmp' = jobs[r].art
  BY GotoIs DEF WriteRelease, At
<1>2. UNCHANGED <<bin, release, failed>>
  BY DEF WriteRelease, history
<1>3. r \notin Pending /\ Pending' = Pending \cup {r}
  BY <1>1 DEF Pending, Moves, Others
<1>4. CASE Pending = {}
  <2>1. Alone(r)'
    BY <1>1, <1>3, <1>4 DEF Alone, Moves
  <2> QED
    BY <2>1 DEF MetadataInv
<1>5. CASE Pending # {}
  BY <1>3, <1>5 DEF MetadataInv, Crowded
<1> QED
  BY <1>4, <1>5

LEMMA MetadataReplacesBin ==
    ASSUME TypeOK, MetadataInv, NEW r \in Requests, ReplaceBin(r)
    PROVE  MetadataInv'
<1>1. jobs[r].pc = "bin" /\ Moves(r, "release") /\ bin' = jobs[r].art.no
  BY GotoIs DEF ReplaceBin, At
<1>2. UNCHANGED <<release, releaseTmp, failed>>
  BY DEF ReplaceBin, history
<1>3. r \in Pending /\ Pending' = Pending
  BY <1>1 DEF Pending, Moves, Others
<1>4. ASSUME NEW q \in Requests, Alone(q) PROVE Alone(q)'
  <2>1. q = r
    BY <1>3, <1>4 DEF Alone
  <2> QED
    BY <1>1, <1>2, <1>3, <1>4, <2>1 DEF Alone, Moves
<1> QED
  BY <1>2, <1>3, <1>4 DEF MetadataInv, Crowded, Between

LEMMA MetadataRenames ==
    ASSUME TypeOK, MetadataInv, NEW r \in Requests, ReplaceRelease(r)
    PROVE  MetadataInv'
<1>1. CASE releaseTmp = Nothing
  BY <1>1 DEF ReplaceRelease, MetadataInv
<1>2. CASE releaseTmp # Nothing
  <2>1. /\ jobs[r].pc = "release" /\ Moves(r, "row")
        /\ release' = releaseTmp /\ releaseTmp' = Nothing /\ UNCHANGED <<bin, failed>>
    BY <1>2, GotoIs DEF ReplaceRelease, At
  <2>2. r \in Pending /\ Pending' = Pending \ {r}
    BY <2>1 DEF Pending, Moves, Others
  <2>3. ASSUME Crowded PROVE Crowded'
    BY <1>2, <2>1, <2>2, <2>3 DEF Crowded
  <2>4. ASSUME NEW q \in Requests, Alone(q) PROVE Between'
    <3>1. q = r
      BY <2>2, <2>4 DEF Alone
    <3> QED
      BY <2>1, <2>2, <2>4, <3>1 DEF Alone, Between
  <2> QED
    BY <2>1, <2>2, <2>3, <2>4 DEF MetadataInv, Between
<1> QED
  BY <1>1, <1>2

-----------------------------------------------------------------------------
(* A step of one thread *)

\* It keeps what the others have, and what holds of itself is shown at the step.
LEMMA OwnStep ==
    ASSUME TypeOK, PublishInv, NEW r \in Active, Others(r), legacy' = legacy,
           settled' = settled, \A q \in Requests : q # r => wire'[q] = wire[q],
           jobs'[r].pc # "idle" =>
               Session(r)' /\ jobs'[r].clean = jobs[r].clean /\ (jobs[r].clean => CleanJob(r)')
    PROVE  SessionInv' /\ CleanInv' /\ SettledInv'
<1>1. Active' \subseteq Active /\ r \in Requests
  BY DEF Active, Others
<1>2. SessionInv'
  <2>1. ASSUME NEW q \in Active', q # r PROVE Session(q)'
    <3>1. jobs'[q] = jobs[q] /\ wire'[q] = wire[q] /\ q \in Active /\ Session(q)
      BY <1>1, <2>1 DEF Active, Others, PublishInv, SessionInv
    <3> QED
      BY <3>1 DEF Session
  <2> QED
    BY <2>1 DEF SessionInv, Active
<1>3. CleanInv'
  <2> SUFFICES ASSUME NEW q \in Active', jobs'[q].clean
               PROVE  /\ Active' = {q} /\ \A k \in Requests : k # q => wire'[k] = Nothing
                      /\ CleanJob(q)'
    BY DEF CleanInv
  <2>1. q = r
    <3>1. CASE q # r
      <4>1. jobs[q].clean /\ q \in Active
        BY <1>1, <3>1 DEF Active, Others
      <4> QED
        BY <3>1, <4>1 DEF PublishInv, CleanInv
    <3> QED
      BY <3>1
  <2>2. jobs'[r].pc # "idle" /\ jobs[r].clean
    BY <2>1 DEF Active
  <2>3. Active = {r} /\ \A k \in Requests : k # r => wire[k] = Nothing
    BY <2>2 DEF PublishInv, CleanInv
  <2> QED
    BY <1>1, <2>1, <2>2, <2>3
<1>4. settled = Nothing
  BY DEF PublishInv, SettledInv
<1> QED
  BY <1>2, <1>3, <1>4 DEF SettledInv

\* The thread ends: refused, timed out.
LEMMA EndStep ==
    ASSUME PublishInv, NEW r \in Active, jobs' = [jobs EXCEPT ![r] = NoJob],
           UNCHANGED <<legacy, settled, wire>>
    PROVE  SessionInv' /\ CleanInv' /\ SettledInv'
<1>1. TypeOK /\ r \in Requests
  BY DEF PublishInv, Active
<1>2. jobs'[r].pc = "idle" /\ Others(r)
  BY <1>1, EndIs
<1> QED
  BY <1>1, <1>2, OwnStep

\* The thread ends with its last write, after which the stores agree.
LEMMA DoneStep ==
    ASSUME PublishInv, NEW r \in Active, Done(r), UNCHANGED <<legacy, wire>>,
           wire[r] = Nothing, jobs[r].clean => (settled' # Nothing => CleanPublishAgrees')
    PROVE  SessionInv' /\ CleanInv' /\ SettledInv'
<1>1. TypeOK /\ r \in Requests
  BY DEF PublishInv, Active
<1>2. jobs'[r].pc = "idle" /\ Others(r)
  BY <1>1, EndIs DEF Done
<1>3. Active' \subseteq Active \ {r}
  BY <1>2 DEF Active, Others
<1>4. SessionInv'
  <2>1. ASSUME NEW q \in Active' PROVE Session(q)'
    <3>1. jobs'[q] = jobs[q] /\ q \in Active /\ Session(q)
      BY <1>2, <1>3, <2>1 DEF Active, Others, PublishInv, SessionInv
    <3> QED
      BY <3>1 DEF Session
  <2> QED
    BY <2>1 DEF SessionInv
<1>5. CleanInv'
  <2>1. ASSUME NEW q \in Active', jobs'[q].clean PROVE FALSE
    <3>1. jobs'[q] = jobs[q] /\ q \in Active /\ q # r
      BY <1>2, <1>3, <2>1 DEF Active, Others
    <3> QED
      BY <2>1, <3>1 DEF PublishInv, CleanInv
  <2> QED
    BY <2>1 DEF CleanInv
<1>6. SettledInv'
  <2>1. CASE jobs[r].clean
    <3>1. Active = {r} /\ \A q \in Requests : q # r => wire[q] = Nothing
      BY <2>1 DEF PublishInv, CleanInv
    <3> QED
      BY <1>3, <2>1, <3>1 DEF SettledInv
  <2>2. CASE ~jobs[r].clean
    BY <2>2 DEF Done, SettledInv
  <2> QED
    BY <2>1, <2>2
<1> QED
  BY <1>4, <1>5, <1>6

-----------------------------------------------------------------------------
(* The steps of a publish of firmware (firmware_publish.py) *)

LEMMA FirmwareMoves ==
    ASSUME PublishInv, NEW r \in Requests,
           RegisterPublisher(r) \/ WriteRelease(r) \/ ReplaceBin(r)
    PROVE  SessionInv' /\ CleanInv' /\ SettledInv'
<1>1. TypeOK /\ jobs[r].pc # "idle" /\ jobs[r].kind = "firmware"
  BY DEF PublishInv, RegisterPublisher, WriteRelease, ReplaceBin, At
<1>2. /\ r \in Active /\ jobs[r] \in Job /\ Session(r)
      /\ jobs[r].clean => CleanFirmware(r)
  BY <1>1, ActiveIs DEF PublishInv, SessionInv, CleanInv, CleanJob
<1>3. UNCHANGED <<legacy, settled, wire>>
  BY DEF RegisterPublisher, WriteRelease, ReplaceBin, bridge, history
<1>4. ASSUME NEW pc \in FirmwarePcs, Moves(r, pc), jobs'[r].reply = jobs[r].reply,
             jobs[r].clean => CleanFirmware(r)'
      PROVE  SessionInv' /\ CleanInv' /\ SettledInv'
  <2>1. jobs[r].pc \in FirmwarePcs
    BY <1>1, <1>2 DEF Session
  <2>2. Session(r)'
    BY <1>1, <1>2, <1>3, <1>4, <2>1 DEF Session, Moves, FirmwarePcs
  <2>3. jobs[r].clean => CleanJob(r)'
    BY <1>1, <1>4 DEF CleanJob, Moves
  <2> QED
    BY <1>1, <1>2, <1>3, <1>4, <2>2, <2>3, OwnStep DEF Moves
<1>5. CASE RegisterPublisher(r)
  <2>1. /\ Moves(r, "tmp") /\ jobs'[r].reply = jobs[r].reply
        /\ registered' = registered \cup {jobs[r].art.device}
    BY <1>1, <1>5, GotoIs DEF RegisterPublisher
  <2>2. CleanFirmware(r)'
    BY <2>1 DEF CleanFirmware, Moves
  <2> QED
    BY <1>4, <2>1, <2>2 DEF FirmwarePcs
<1>6. CASE WriteRelease(r)
  <2>1. /\ Moves(r, "bin") /\ jobs'[r].reply = jobs[r].reply /\ jobs[r].pc = "tmp"
        /\ releaseTmp' = jobs[r].art /\ registered' = registered
    BY <1>1, <1>6, GotoIs DEF WriteRelease, At
  <2>2. CleanFirmware(r) => CleanFirmware(r)'
    BY <2>1 DEF CleanFirmware, Moves
  <2> QED
    BY <1>2, <1>4, <2>1, <2>2 DEF FirmwarePcs
<1>7. CASE ReplaceBin(r)
  <2>1. /\ Moves(r, "release") /\ jobs'[r].reply = jobs[r].reply /\ jobs[r].pc = "bin"
        /\ bin' = jobs[r].art.no /\ UNCHANGED <<registered, releaseTmp>>
    BY <1>1, <1>7, GotoIs DEF ReplaceBin, At
  <2>2. CleanFirmware(r) => CleanFirmware(r)'
    BY <2>1 DEF CleanFirmware, Moves
  <2> QED
    BY <1>2, <1>4, <2>1, <2>2 DEF FirmwarePcs
<1> QED
  BY <1>5, <1>6, <1>7

LEMMA FirmwareRenames ==
    ASSUME PublishInv, NEW r \in Requests, ReplaceRelease(r)
    PROVE  SessionInv' /\ CleanInv' /\ SettledInv'
<1>1. /\ TypeOK /\ jobs[r].pc = "release" /\ jobs[r].kind = "firmware"
      /\ UNCHANGED <<bin, registered, legacy, settled, wire>>
  BY DEF PublishInv, ReplaceRelease, At, bridge
<1>2. /\ r \in Active /\ jobs[r] \in Job /\ Session(r)
      /\ jobs[r].clean => CleanFirmware(r)
  BY <1>1, ActiveIs DEF PublishInv, SessionInv, CleanInv, CleanJob
<1>3. CASE jobs' = [jobs EXCEPT ![r] = NoJob]
  BY <1>1, <1>2, <1>3, EndStep
<1>4. CASE Goto(r, "row") /\ release' = releaseTmp
  <2>1. Moves(r, "row") /\ jobs'[r].reply = jobs[r].reply
    BY <1>1, <1>4, GotoIs
  <2>2. Session(r)'
    BY <1>1, <1>2, <2>1 DEF Session, Moves, FirmwarePcs
  <2>3. jobs[r].clean => CleanJob(r)'
    BY <1>1, <1>2, <1>4, <2>1 DEF CleanJob, CleanFirmware, Moves
  <2> QED
    BY <1>1, <1>2, <2>1, <2>2, <2>3, OwnStep DEF Moves
<1> QED
  BY <1>3, <1>4 DEF ReplaceRelease

LEMMA FirmwareRecords ==
    ASSUME PublishInv, NEW r \in Requests, RecordFirmware(r)
    PROVE  SessionInv' /\ CleanInv' /\ SettledInv'
<1> DEFINE art == jobs[r].art
<1>1. /\ TypeOK /\ jobs[r].pc = "row" /\ jobs[r].kind = "firmware" /\ Done(r)
      /\ rows' = [rows EXCEPT ![art.version] = FirmwareRow(rows[art.version], art)]
      /\ UNCHANGED <<bin, release, registered, legacy, wire>>
  BY DEF PublishInv, RecordFirmware, At, bridge
<1>2. /\ r \in Active /\ art \in Artifact /\ art.version \in Versions /\ Session(r)
      /\ jobs[r].clean => CleanFirmware(r)
  BY <1>1, ActiveIs DEF PublishInv, SessionInv, CleanInv, CleanJob
<1>3. wire[r] = Nothing
  BY <1>1, <1>2 DEF Session
<1>4. ASSUME jobs[r].clean PROVE settled' # Nothing => CleanPublishAgrees'
  <2>1. settled' = [kind |-> "firmware", art |-> art]
    BY <1>1, <1>4 DEF Done
  <2>2. rows'[art.version] = FirmwareRow(rows[art.version], art)
    BY <1>1, <1>2 DEF TypeOK
  <2>3. /\ rows'[art.version] \in Row
        /\ rows'[art.version].device = art.device /\ rows'[art.version].sha = art.no
    <3>1. art.device \in Publishers /\ art.no \in 1..MaxRequests
      BY <1>2 DEF Artifact
    <3>2. NewRow(art) \in Row
      BY <3>1 DEF NewRow, Row
    <3>3. CASE rows[art.version] = Nothing
      BY <2>2, <3>2, <3>3 DEF FirmwareRow, NewRow
    <3>4. CASE rows[art.version] # Nothing
      <4>1. rows[art.version] \in Row
        BY <1>1, <1>2, <3>4 DEF TypeOK
      <4> QED
        BY <2>2, <3>1, <3>4, <4>1 DEF FirmwareRow, Row
    <3> QED
      BY <3>3, <3>4
  <2>4. rows'[art.version] # Nothing
    BY <2>3, PublishAssumption
  <2> QED
    BY <1>1, <1>2, <1>4, <2>1, <2>3, <2>4 DEF CleanPublishAgrees, CleanFirmware
<1> QED
  BY <1>1, <1>2, <1>3, <1>4, DoneStep

-----------------------------------------------------------------------------
(* The steps of a publish of a converter (zigbee2mqtt_publish.py) *)

\* What SessionInv and CleanInv say of a converter's thread that is about to go on.
LEMMA ConverterIs ==
    ASSUME PublishInv, NEW r \in Requests, jobs[r].pc # "idle", jobs[r].kind = "converter"
    PROVE  /\ TypeOK /\ r \in Active /\ Session(r) /\ jobs[r] \in Job
           /\ jobs[r].pc \notin FirmwarePcs
           /\ jobs[r].art \in Artifact /\ jobs[r].art # Nothing
           /\ jobs[r].art.version \in Versions
           /\ jobs[r].clean => CleanConverter(r)
BY ActiveIs DEF PublishInv, SessionInv, CleanInv, CleanJob, Session

\* A step of it that writes to no store: it goes on to pc, or sends a request.
LEMMA ConverterMoves ==
    ASSUME PublishInv, NEW r \in Requests, jobs[r].pc # "idle", jobs[r].kind = "converter",
           NEW pc \in Guarded, Moves(r, pc),
           UNCHANGED <<stores, converter, legacy, settled>>,
           \A q \in Requests : q # r => wire'[q] = wire[q],
           Session(r)', jobs[r].clean => CleanConverter(r)'
    PROVE  SessionInv' /\ CleanInv' /\ SettledInv'
<1>1. TypeOK /\ r \in Active
  BY ConverterIs
<1>2. jobs[r].clean => CleanJob(r)'
  BY DEF CleanJob, Moves
<1> QED
  BY <1>1, <1>2, OwnStep DEF Moves

LEMMA ConverterGuarded ==
    ASSUME PublishInv, NEW r \in Requests, Guard(r)
    PROVE  SessionInv' /\ CleanInv' /\ SettledInv'
<1>1. /\ jobs[r].pc = "guard" /\ jobs[r].kind = "converter"
      /\ UNCHANGED <<stores, bridge, history>>
  BY DEF Guard, At
<1>2. TypeOK /\ r \in Active /\ Session(r)
  BY <1>1, ConverterIs
<1>3. UNCHANGED <<rows, converter, legacy, wire, settled>>
  BY <1>1 DEF stores, bridge, history
<1>4. CASE HasVerifiedBin(jobs[r].art) /\ Goto(r, "save")
  <2>1. Moves(r, "save") /\ jobs'[r].reply = jobs[r].reply
    BY <1>1, <1>2, <1>4, GotoIs
  <2>2. Session(r)'
    BY <1>1, <1>2, <1>3, <2>1 DEF Session, Moves, FirmwarePcs
  <2>3. CleanConverter(r)'
    BY <1>3, <1>4, <2>1 DEF CleanConverter, HasVerifiedBin, Moves
  <2> QED
    BY <1>1, <1>3, <2>1, <2>2, <2>3, ConverterMoves DEF Guarded
<1>5. CASE jobs' = [jobs EXCEPT ![r] = NoJob]
  BY <1>2, <1>3, <1>5, EndStep
<1> QED
  BY <1>4, <1>5 DEF Guard

LEMMA ConverterSaves ==
    ASSUME PublishInv, NEW r \in Requests, Save(r)
    PROVE  SessionInv' /\ CleanInv' /\ SettledInv'
<1>1. /\ jobs[r].pc = "save" /\ jobs[r].kind = "converter"
      /\ Request(r, "save", "saving", {})
      /\ UNCHANGED <<stores, converter, legacy, history>>
  BY DEF Save, At
<1>2. TypeOK /\ Session(r) /\ (jobs[r].clean => CleanConverter(r))
  BY <1>1, ConverterIs
<1>3. UNCHANGED <<rows, settled>>
  BY <1>1 DEF stores, history
<1>4. /\ Moves(r, "saving") /\ jobs'[r].reply = Nothing
      /\ wire'[r] = [what |-> "save", art |-> jobs[r].art]
      /\ \A q \in Requests : q # r => wire'[q] = wire[q]
  BY <1>1, <1>2, RequestIs
<1>5. Session(r)'
  BY <1>1, <1>2, <1>4, PublishAssumption DEF Session, Moves, FirmwarePcs
<1>6. jobs[r].clean => CleanConverter(r)'
  BY <1>1, <1>2, <1>3, <1>4, PublishAssumption DEF CleanConverter, HasVerifiedBin, Moves
<1> QED
  BY <1>1, <1>3, <1>4, <1>5, <1>6, ConverterMoves DEF Guarded

\* The next old name, or none (zigbee2mqtt_publish.py:145).
LEMMA ConverterProceeds ==
    ASSUME PublishInv, NEW r \in Requests, jobs[r].pc \in {"saving", "removing"},
           jobs[r].kind = "converter", jobs[r].reply = "ok", NEW names, Proceed(r, names),
           UNCHANGED <<stores, converter, legacy, history>>
    PROVE  SessionInv' /\ CleanInv' /\ SettledInv'
<1>1. TypeOK /\ Session(r) /\ (jobs[r].clean => CleanConverter(r)) /\ jobs[r].pc # "idle"
  BY ConverterIs
<1>2. UNCHANGED <<rows, settled>>
  BY DEF stores, history
<1>3. jobs[r].clean => HasVerifiedBin(jobs[r].art) /\ converter = jobs[r].art
  BY <1>1 DEF CleanConverter
<1> DEFINE left == names \cap jobs[r].view.legacy
<1>4. CASE left = {}
  <2>1. Moves(r, "final") /\ jobs'[r].reply = jobs[r].reply /\ wire' = wire
    BY <1>1, <1>4, GotoIs DEF Proceed
  <2>2. Session(r)'
    BY <1>1, <2>1 DEF Session, Moves, FirmwarePcs
  <2>3. jobs[r].clean => CleanConverter(r)'
    BY <1>2, <1>3, <2>1 DEF CleanConverter, HasVerifiedBin, Moves
  <2> QED
    BY <1>1, <1>2, <2>1, <2>2, <2>3, ConverterMoves DEF Guarded
<1>5. CASE left # {}
  <2>1. Request(r, First(left), "removing", left)
    BY <1>5 DEF Proceed
  <2>2. /\ Moves(r, "removing") /\ jobs'[r].reply = Nothing
        /\ wire'[r].what # "save"
        /\ \A q \in Requests : q # r => wire'[q] = wire[q]
    <3>1. /\ Moves(r, "removing") /\ jobs'[r].reply = Nothing
          /\ wire'[r] = [what |-> First(left), art |-> jobs[r].art]
          /\ \A q \in Requests : q # r => wire'[q] = wire[q]
      BY <1>1, <2>1, RequestIs
    <3>2. wire'[r].what = First(left) /\ First(left) # "save"
      BY <3>1 DEF First
    <3> QED
      BY <3>1, <3>2
  <2>3. Session(r)'
    BY <1>1, <2>2, PublishAssumption DEF Session, Moves, FirmwarePcs
  <2>4. jobs[r].clean => CleanConverter(r)'
    BY <1>2, <1>3, <2>2 DEF CleanConverter, HasVerifiedBin, Moves
  <2> QED
    BY <1>1, <1>2, <2>2, <2>3, <2>4, ConverterMoves DEF Guarded
<1> QED
  BY <1>4, <1>5

LEMMA ConverterFinal ==
    ASSUME PublishInv, NEW r \in Requests, Final(r)
    PROVE  SessionInv' /\ CleanInv' /\ SettledInv'
<1>1. /\ jobs[r].pc = "final" /\ jobs[r].kind = "converter"
      /\ jobs[r].view.main = jobs[r].art /\ jobs[r].view.legacy = {}
      /\ UNCHANGED <<stores, bridge, history>>
  BY DEF Final, At
<1>2. /\ TypeOK /\ Session(r) /\ jobs[r].art # Nothing
      /\ jobs[r].clean => CleanConverter(r)
  BY <1>1, ConverterIs
<1>3. UNCHANGED <<rows, converter, legacy, wire, settled>>
  BY <1>1 DEF stores, bridge, history
<1>4. Moves(r, "record") /\ jobs'[r].reply = jobs[r].reply
  BY <1>1, <1>2, GotoIs DEF Final
<1>5. legacy = {}
  BY <1>1, <1>2 DEF Session
<1>6. Session(r)'
  BY <1>1, <1>2, <1>3, <1>4, <1>5 DEF Session, Moves, FirmwarePcs
<1>7. jobs[r].clean => CleanConverter(r)'
  BY <1>1, <1>2, <1>3, <1>4 DEF CleanConverter, HasVerifiedBin, Moves
<1> QED
  BY <1>1, <1>3, <1>4, <1>6, <1>7, ConverterMoves DEF Guarded

LEMMA ConverterRecords ==
    ASSUME PublishInv, NEW r \in Requests, RecordConverter(r)
    PROVE  SessionInv' /\ CleanInv' /\ SettledInv'
<1> DEFINE art == jobs[r].art
<1>1. /\ jobs[r].pc = "record" /\ jobs[r].kind = "converter" /\ Done(r)
      /\ UNCHANGED <<converter, legacy, wire>>
  BY DEF RecordConverter, At, bridge
<1>2. /\ TypeOK /\ r \in Active /\ Session(r)
      /\ art.version \in Versions /\ art \in Artifact
      /\ jobs[r].clean => CleanConverter(r)
  BY <1>1, ConverterIs
<1>3. wire[r] = Nothing /\ legacy = {}
  BY <1>1, <1>2 DEF Session
<1>4. ASSUME jobs[r].clean PROVE settled' # Nothing => CleanPublishAgrees'
  <2>1. settled' = [kind |-> "converter", art |-> art]
    BY <1>1, <1>4 DEF Done
  <2>2. HasVerifiedBin(art) /\ converter = art
    BY <1>1, <1>2, <1>4 DEF CleanConverter
  <2>3. rows[art.version] \in Row /\ rows[art.version].device = art.device
    BY <1>2, <2>2 DEF HasVerifiedBin, TypeOK
  <2>4. rows'[art.version] = [rows[art.version] EXCEPT !.mjs = art, !.loaded = TRUE]
    <3>1. rows' = [rows EXCEPT ![art.version] =
                       [rows[art.version] EXCEPT !.mjs = art, !.loaded = TRUE]]
      BY <2>2 DEF RecordConverter
    <3> QED
      BY <1>2, <3>1 DEF TypeOK
  <2>5. /\ rows'[art.version] \in Row
        /\ rows'[art.version].device = art.device /\ rows'[art.version].mjs = art
        /\ rows'[art.version].loaded = TRUE
    BY <1>2, <2>3, <2>4 DEF Row
  <2>6. rows'[art.version] # Nothing
    BY <2>5, PublishAssumption
  <2> QED
    BY <1>1, <1>3, <2>1, <2>2, <2>5, <2>6 DEF CleanPublishAgrees
<1> QED
  BY <1>1, <1>2, <1>3, <1>4, DoneStep

LEMMA ConverterStepKeeps ==
    ASSUME PublishInv, NEW r \in Requests, ConverterStep(r)
    PROVE  SessionInv' /\ CleanInv' /\ SettledInv'
<1>1. CASE Saved(r)
  BY <1>1, ConverterProceeds DEF Saved, At
<1>2. CASE Removed(r)
  BY <1>2, ConverterProceeds DEF Removed, At
<1>3. CASE TimesOut(r)
  <2>1. jobs[r].pc # "idle" /\ jobs[r].kind = "converter"
    BY <1>3 DEF TimesOut, At
  <2>2. r \in Active
    BY <2>1, ConverterIs
  <2> QED
    BY <1>3, <2>2, EndStep DEF TimesOut, bridge, history
<1> QED
  BY <1>1, <1>2, <1>3, ConverterGuarded, ConverterSaves, ConverterFinal, ConverterRecords
  DEF ConverterStep

-----------------------------------------------------------------------------
(* Zigbee2MQTT, arrivals and failures *)

LEMMA ViewStep ==
    ASSUME PublishInv, NEW r \in Requests, ViewArrives(r)
    PROVE  SessionInv' /\ CleanInv' /\ SettledInv'
<1>1. /\ jobs[r].pc # "idle" /\ jobs[r].kind = "converter"
      /\ jobs' = [jobs EXCEPT ![r] = [jobs[r] EXCEPT !.view = View]]
      /\ UNCHANGED <<rows, converter, legacy, wire, settled>>
  BY DEF ViewArrives, Active, stores, bridge, history
<1>2. /\ TypeOK /\ r \in Active /\ Session(r) /\ jobs[r] \in Job
      /\ jobs[r].clean => CleanConverter(r)
  BY <1>1, ConverterIs
<1>3. jobs'[r] = [jobs[r] EXCEPT !.view = View] /\ Others(r)
  BY <1>1, <1>2 DEF TypeOK, Others
<1>4. {"pc", "art", "kind", "clean", "view", "reply", "left"} \subseteq DOMAIN jobs[r]
  BY <1>2 DEF Job
<1>5. /\ jobs'[r].pc = jobs[r].pc /\ jobs'[r].art = jobs[r].art
      /\ jobs'[r].kind = jobs[r].kind /\ jobs'[r].reply = jobs[r].reply
      /\ jobs'[r].view = View
  BY <1>3, <1>4
<1>6. jobs'[r].clean = jobs[r].clean
  BY <1>3, <1>4
<1>7. Session(r)'
  BY <1>1, <1>2, <1>5 DEF Session, View, FirmwarePcs
<1>8. jobs[r].clean => CleanJob(r)'
  BY <1>1, <1>2, <1>5 DEF CleanJob, CleanConverter, HasVerifiedBin
<1> QED
  BY <1>1, <1>2, <1>3, <1>6, <1>7, <1>8, OwnStep

\* Zigbee2MQTT takes the request of a thread that waits for it.
LEMMA BridgeAnswers ==
    ASSUME PublishInv, NEW r \in Active, BridgeActs(r)
    PROVE  SessionInv' /\ CleanInv' /\ SettledInv'
<1>1. /\ TypeOK /\ r \in Requests /\ jobs[r].pc # "idle" /\ Session(r)
      /\ wire[r] # Nothing /\ wire' = [wire EXCEPT ![r] = Nothing]
      /\ jobs' = [jobs EXCEPT ![r] = [jobs[r] EXCEPT !.reply = "ok"]]
      /\ UNCHANGED <<rows, settled>>
  BY DEF PublishInv, SessionInv, BridgeActs, Active, stores
<1>2. jobs[r].pc \in {"saving", "removing"} /\ jobs[r].kind = "converter"
  BY <1>1 DEF Session, FirmwarePcs
<1>3. jobs[r] \in Job /\ (jobs[r].clean => CleanConverter(r))
  BY <1>1, <1>2, ConverterIs
<1>4. jobs'[r] = [jobs[r] EXCEPT !.reply = "ok"] /\ Others(r)
  BY <1>1 DEF TypeOK, Others
<1>5. {"pc", "art", "kind", "clean", "view", "reply", "left"} \subseteq DOMAIN jobs[r]
  BY <1>3 DEF Job
<1>6. /\ jobs'[r].pc = jobs[r].pc /\ jobs'[r].art = jobs[r].art
      /\ jobs'[r].kind = jobs[r].kind /\ jobs'[r].reply = "ok"
      /\ jobs'[r].view = jobs[r].view
  BY <1>4, <1>5
<1>7. jobs'[r].clean = jobs[r].clean
  BY <1>4, <1>5
<1>8. wire'[r] = Nothing /\ \A q \in Requests : q # r => wire'[q] = wire[q]
  BY <1>1 DEF TypeOK
<1>9. legacy' \subseteq legacy
  BY DEF BridgeActs
<1>10. SessionInv'
  <2>1. ASSUME NEW q \in Active' PROVE Session(q)'
    <3>1. CASE q = r
      BY <1>1, <1>2, <1>6, <1>8, <1>9, <3>1 DEF Session, FirmwarePcs
    <3>2. CASE q # r
      <4>1. jobs'[q] = jobs[q] /\ wire'[q] = wire[q] /\ q \in Active /\ Session(q)
        BY <1>4, <1>8, <2>1, <3>2 DEF Active, Others, PublishInv, SessionInv
      <4> QED
        BY <1>9, <4>1 DEF Session
    <3> QED
      BY <3>1, <3>2
  <2> QED
    BY <2>1 DEF SessionInv
<1>11. CleanInv'
  <2>1. Active' = Active
    BY <1>1, <1>4, <1>6 DEF Active, Others
  <2>2. ASSUME NEW q \in Active, jobs'[q].clean
        PROVE  q = r /\ jobs[r].clean /\ Active = {r} /\ \A k \in Requests : k # r => wire[k] = Nothing
    <3>1. jobs[q].clean
      BY <1>4, <1>7, <2>2 DEF Active, Others
    <3> QED
      BY <3>1 DEF PublishInv, CleanInv
  <2>3. jobs[r].clean => CleanJob(r)'
    <3>1. CASE wire[r].what = "save"
      <4>1. converter' = wire[r].art /\ jobs[r].pc = "saving" /\ wire[r].art = jobs[r].art
        BY <1>1, <3>1 DEF BridgeActs, Session
      <4> QED
        BY <1>1, <1>2, <1>3, <1>6, <4>1 DEF CleanJob, CleanConverter, HasVerifiedBin
    <3>2. CASE wire[r].what # "save"
      <4>1. converter' = converter /\ jobs[r].pc = "removing"
        BY <1>1, <1>2, <3>2 DEF BridgeActs, Session
      <4> QED
        BY <1>1, <1>2, <1>3, <1>6, <4>1 DEF CleanJob, CleanConverter, HasVerifiedBin
    <3> QED
      BY <3>1, <3>2
  <2> QED
    BY <1>8, <2>1, <2>2, <2>3 DEF CleanInv
<1>12. settled = Nothing
  BY DEF PublishInv, SettledInv
<1> QED
  BY <1>1, <1>10, <1>11, <1>12 DEF SettledInv

\* Zigbee2MQTT takes a request whose session has given up: no thread is alone then.
LEMMA BridgeActsLate ==
    ASSUME PublishInv, NEW r \in Requests, r \notin Active, BridgeActs(r)
    PROVE  SessionInv' /\ CleanInv' /\ SettledInv'
<1>1. /\ wire[r] # Nothing /\ wire' = [wire EXCEPT ![r] = Nothing]
      /\ UNCHANGED <<jobs, settled>> /\ legacy' \subseteq legacy /\ TypeOK
  BY DEF BridgeActs, PublishInv
<1>2. \A q \in Requests : q # r => wire'[q] = wire[q]
  BY <1>1 DEF TypeOK
<1>3. Active' = Active /\ \A q \in Active : ~jobs[q].clean
  BY <1>1 DEF Active, PublishInv, CleanInv
<1>4. settled = Nothing
  BY <1>1 DEF PublishInv, SettledInv
<1>5. \A q \in Active : Session(q)'
  BY <1>1, <1>2 DEF PublishInv, SessionInv, Session, Active
<1> QED
  BY <1>1, <1>3, <1>4, <1>5 DEF SessionInv, CleanInv, SettledInv

\* A request begins: alone, or every one that is under way is disturbed.
LEMMA BeginsKeeps ==
    ASSUME PublishInv, NEW r \in Requests, NEW kind, NEW pc \in {"register", "guard"},
           kind = (IF pc = "register" THEN "firmware" ELSE "converter"), Begins(r, kind, pc)
    PROVE  SessionInv' /\ CleanInv' /\ SettledInv'
<1>1. /\ TypeOK /\ jobs[r].pc = "idle" /\ wire[r] = Nothing /\ settled' = Nothing
      /\ UNCHANGED <<legacy, wire>>
  BY DEF Begins, bridge, PublishInv
<1> DEFINE alone == Active = {} /\ \A q \in Requests : wire[q] = Nothing
           NewJob(d, v) == [pc |-> pc, kind |-> kind, clean |-> alone,
                            art |-> [device |-> d, version |-> v, no |-> begun + 1],
                            view |-> NoView, reply |-> Nothing, left |-> {}]
<1>2. PICK d \in Publishers, v \in Versions :
          jobs' = [q \in Requests |->
              IF q = r THEN NewJob(d, v)
              ELSE IF q \in Active THEN [jobs[q] EXCEPT !.clean = FALSE]
              ELSE jobs[q]]
  BY Zenon DEF Begins
<1>3. jobs'[r] = NewJob(d, v)
  BY <1>2
<1>4. /\ jobs'[r].pc = pc /\ jobs'[r].kind = kind /\ jobs'[r].view = NoView
      /\ jobs'[r].reply = Nothing
  BY <1>3
<1>5. jobs'[r].clean = alone
  <2>1. \A a, art : [pc |-> pc, kind |-> kind, clean |-> a, art |-> art, view |-> NoView,
                    reply |-> Nothing, left |-> {}].clean = a
    BY Zenon
  <2> QED
    BY <1>3, <2>1, Zenon
<1> HIDE DEF NewJob
<1>6. ASSUME NEW q \in Active
      PROVE  /\ jobs'[q].pc = jobs[q].pc /\ jobs'[q].art = jobs[q].art
             /\ jobs'[q].kind = jobs[q].kind /\ jobs'[q].reply = jobs[q].reply
             /\ jobs'[q].view = jobs[q].view /\ ~jobs'[q].clean
  <2>1. q \in Requests /\ q # r /\ jobs[q] \in Job
    BY <1>1, <1>6, ActiveIs DEF Active
  <2>2. jobs'[q] = [jobs[q] EXCEPT !.clean = FALSE]
    BY <1>2, <2>1
  <2> QED
    BY <2>1, <2>2 DEF Job
<1>7. Active' = Active \cup {r}
  <2>1. \A q \in Requests : q \notin Active /\ q # r => jobs'[q] = jobs[q]
    BY <1>2
  <2> QED
    BY <1>4, <1>6, <2>1 DEF Active
<1>8. Session(r)'
  BY <1>1, <1>4, PublishAssumption DEF Session, FirmwarePcs, NoView
<1>9. \A q \in Active : Session(q)'
  BY <1>1, <1>6 DEF PublishInv, SessionInv, Session
<1>10. CleanJob(r)'
  BY <1>4 DEF CleanJob, CleanFirmware, CleanConverter
<1>11. CleanInv'
  <2>1. ASSUME jobs'[r].clean PROVE Active' = {r} /\ \A q \in Requests : q # r => wire'[q] = Nothing
    BY <1>1, <1>5, <1>7, <2>1
  <2> QED
    BY <1>6, <1>7, <1>10, <2>1 DEF CleanInv
<1> QED
  BY <1>1, <1>7, <1>8, <1>9, <1>11 DEF SessionInv, SettledInv

\* What a failure leaves under way is disturbed.
LEMMA FailureKeeps ==
    ASSUME PublishInv, Failure
    PROVE  MetadataInv' /\ SessionInv' /\ CleanInv' /\ SettledInv'
<1>1. TypeOK /\ Disturbs
  BY DEF PublishInv, Failure, ServerStops, ClearArtifacts, RequestFails
<1>2. failed' = TRUE /\ settled' = Nothing /\ legacy' = legacy
  BY <1>1 DEF Disturbs, Failure, ServerStops, ClearArtifacts, RequestFails, bridge
<1>3. ASSUME NEW q \in Active'
      PROVE  /\ q \in Active /\ wire'[q] = wire[q] /\ ~jobs'[q].clean
             /\ jobs'[q].pc = jobs[q].pc /\ jobs'[q].art = jobs[q].art
             /\ jobs'[q].kind = jobs[q].kind /\ jobs'[q].reply = jobs[q].reply
             /\ jobs'[q].view = jobs[q].view
  <2>1. q \in Requests /\ jobs'[q].pc # "idle"
    BY <1>3 DEF Active
  <2>2. CASE ServerStops
    BY <2>1, <2>2 DEF ServerStops, NoJob
  <2>3. CASE ClearArtifacts
    <3>1. wire' = wire /\ jobs' = Spoilt(jobs)
      BY <2>3 DEF ClearArtifacts, bridge
    <3>2. jobs[q].pc # "idle" /\ jobs'[q] = [jobs[q] EXCEPT !.clean = FALSE]
      BY <2>1, <3>1 DEF Spoilt
    <3>3. jobs[q] \in Job /\ q \in Active
      BY <1>1, <2>1, <3>2, ActiveIs
    <3> QED
      BY <3>1, <3>2, <3>3 DEF Job
  <2>4. ASSUME NEW r \in Requests, RequestFails(r)
        PROVE  /\ wire'[q] = wire[q] /\ jobs[q].pc # "idle"
               /\ jobs'[q] = [jobs[q] EXCEPT !.clean = FALSE]
    <3> DEFINE js == [jobs EXCEPT ![r] = NoJob]
    <3>1. jobs'[q] = IF js[q].pc = "idle" THEN js[q] ELSE [js[q] EXCEPT !.clean = FALSE]
      BY <2>1, <2>4 DEF RequestFails, Spoilt
    <3>2. q # r /\ js[q] = jobs[q]
      BY <1>1, <2>1, <3>1 DEF TypeOK, NoJob
    <3>3. wire' = [wire EXCEPT ![r] = Nothing]
      BY <2>4 DEF RequestFails
    <3> QED
      BY <1>1, <2>1, <3>1, <3>2, <3>3 DEF TypeOK
  <2>5. ASSUME NEW r \in Requests, RequestFails(r)
        PROVE  /\ q \in Active /\ wire'[q] = wire[q] /\ ~jobs'[q].clean
               /\ jobs'[q].pc = jobs[q].pc /\ jobs'[q].art = jobs[q].art
               /\ jobs'[q].kind = jobs[q].kind /\ jobs'[q].reply = jobs[q].reply
               /\ jobs'[q].view = jobs[q].view
    <3>1. jobs[q] \in Job /\ q \in Active
      BY <1>1, <2>1, <2>4, <2>5, ActiveIs
    <3> QED
      BY <2>4, <2>5, <3>1 DEF Job
  <2> QED
    BY <2>2, <2>3, <2>5 DEF Failure
<1>4. \A q \in Active' : Session(q)'
  BY <1>2, <1>3 DEF PublishInv, SessionInv, Session
<1> QED
  BY <1>2, <1>3, <1>4 DEF MetadataInv, SessionInv, CleanInv, SettledInv

-----------------------------------------------------------------------------
(* The theorems *)

\* Each step but a failure keeps MetadataInv.
LEMMA MetadataKept ==
    ASSUME PublishInv, NEW r \in Requests,
           \/ FirmwareArrives(r) \/ ConverterArrives(r)
           \/ FirmwareStep(r) \/ ConverterStep(r) \/ BridgeStep(r)
    PROVE  MetadataInv'
<1>0. TypeOK /\ MetadataInv
  BY DEF PublishInv
<1> DEFINE Kept == \A q \in Requests :
               jobs[q].pc \in {"bin", "release"} \/ jobs'[q].pc \in {"bin", "release"} =>
                   jobs'[q].pc = jobs[q].pc /\ jobs'[q].art = jobs[q].art
<1>1. CASE FirmwareArrives(r) \/ ConverterArrives(r)
  <2>1. UNCHANGED <<bin, release, releaseTmp, failed>>
    BY <1>1 DEF FirmwareArrives, ConverterArrives, Begins, stores
  <2>2. jobs[r].pc = "idle" /\ jobs'[r].pc \in {"register", "guard"}
    BY <1>1 DEF FirmwareArrives, ConverterArrives, Begins
  <2>3. ASSUME NEW q \in Requests, q # r
        PROVE  jobs'[q].pc = jobs[q].pc /\ jobs'[q].art = jobs[q].art
    <3>1. jobs'[q] = IF q \in Active THEN [jobs[q] EXCEPT !.clean = FALSE] ELSE jobs[q]
      BY <1>1, <2>3 DEF FirmwareArrives, ConverterArrives, Begins
    <3>2. q \in Active => jobs[q] \in Job
      BY <1>0, ActiveIs DEF Active
    <3> QED
      BY <3>1, <3>2 DEF Job
  <2>4. Kept
    BY <2>2, <2>3
  <2> QED
    BY <1>0, <2>1, <2>4, MetadataStays
<1>2. CASE WriteRelease(r)
  BY <1>0, <1>2, MetadataWrites
<1>3. CASE ReplaceBin(r)
  BY <1>0, <1>3, MetadataReplacesBin
<1>4. CASE ReplaceRelease(r)
  BY <1>0, <1>4, MetadataRenames
<1>5. CASE RegisterPublisher(r) \/ RecordFirmware(r) \/ ConverterStep(r)
  <2>1. UNCHANGED <<bin, release, releaseTmp, failed>> /\ jobs[r].pc \notin {"idle", "bin", "release"}
    <3>1. jobs[r].pc \notin {"idle", "bin", "release"}
      <4>1. CASE RegisterPublisher(r) \/ RecordFirmware(r)
        BY <4>1 DEF RegisterPublisher, RecordFirmware, At
      <4>2. CASE ConverterStep(r)
        <5>1. jobs[r].pc # "idle" /\ jobs[r].kind = "converter"
          BY <4>2 DEF ConverterStep, Guard, Save, Saved, Removed, Final, RecordConverter,
                TimesOut, At
        <5> QED
          BY <5>1, ConverterIs DEF FirmwarePcs
      <4> QED
        BY <1>5, <4>1, <4>2
    <3> QED
      BY <1>5, <3>1 DEF RegisterPublisher, RecordFirmware, ConverterStep, Guard, Save, Saved,
            Removed, Final, RecordConverter, TimesOut, stores, history
  <2>2. Others(r) /\ jobs'[r].pc \notin {"bin", "release"}
    <3>1. CASE jobs' = [jobs EXCEPT ![r] = NoJob]
      BY <1>0, <3>1, EndIs
    <3>2. ASSUME NEW pc \in {"tmp", "save", "saving", "removing", "final", "record"},
                 \/ Goto(r, pc)
                 \/ \E what, left : Request(r, what, pc, left)
          PROVE  Others(r) /\ jobs'[r].pc \notin {"bin", "release"}
      <4>1. CASE Goto(r, pc)
        BY <1>0, <2>1, <4>1, GotoIs DEF Moves
      <4>2. ASSUME NEW what, NEW left, Request(r, what, pc, left) PROVE Moves(r, pc)
        BY <1>0, <2>1, <4>2, RequestIs
      <4> QED
        BY <3>2, <4>1, <4>2 DEF Moves
    <3>3. \/ jobs' = [jobs EXCEPT ![r] = NoJob]
          \/ \E pc \in {"tmp", "save", "saving", "removing", "final", "record"} :
                 Goto(r, pc) \/ \E what, left : Request(r, what, pc, left)
      <4>1. CASE RegisterPublisher(r)
        BY <4>1, Zenon DEF RegisterPublisher
      <4>2. CASE RecordFirmware(r) \/ RecordConverter(r)
        BY <4>2, Zenon DEF RecordFirmware, RecordConverter, Done
      <4>3. CASE Guard(r)
        BY <4>3, Zenon DEF Guard
      <4>4. CASE Save(r)
        BY <4>4, Zenon DEF Save
      <4>5. CASE Saved(r) \/ Removed(r)
        <5>1. PICK names : Proceed(r, names)
          BY <4>5, Zenon DEF Saved, Removed
        <5> QED
          BY <5>1, Zenon DEF Proceed
      <4>6. CASE Final(r)
        BY <4>6, Zenon DEF Final
      <4>7. CASE TimesOut(r)
        BY <4>7, Zenon DEF TimesOut
      <4> QED
        BY <1>5, <4>1, <4>2, <4>3, <4>4, <4>5, <4>6, <4>7 DEF ConverterStep
    <3> QED
      BY <3>1, <3>2, <3>3
  <2>3. Kept
    BY <2>1, <2>2 DEF Others
  <2> QED
    BY <1>0, <2>1, <2>3, MetadataStays
<1>6. CASE BridgeStep(r)
  <2>1. UNCHANGED <<bin, release, releaseTmp, failed>>
    BY <1>6 DEF BridgeStep, ViewArrives, BridgeActs, stores, history
  <2>2. ASSUME NEW q \in Requests PROVE jobs'[q].pc = jobs[q].pc /\ jobs'[q].art = jobs[q].art
    <3>1. q \in Active => jobs[q] \in Job
      BY <1>0, ActiveIs DEF Active
    <3> QED
      BY <1>0, <1>6, <3>1 DEF BridgeStep, ViewArrives, BridgeActs, TypeOK, Job
  <2> QED
    BY <1>0, <2>1, <2>2, MetadataStays
<1> QED
  BY <1>1, <1>2, <1>3, <1>4, <1>5, <1>6 DEF FirmwareStep

LEMMA PublishInvNext ==
    ASSUME PublishInv, [Next]_vars
    PROVE  PublishInv'
<1>0. TypeOK'
  BY NextTyped DEF PublishInv
<1> DEFINE Kept == MetadataInv' /\ SessionInv' /\ CleanInv' /\ SettledInv'
<1>1. ASSUME NEW r \in Requests, FirmwareArrives(r) \/ ConverterArrives(r) PROVE Kept
  BY <1>1, BeginsKeeps, MetadataKept DEF FirmwareArrives, ConverterArrives
<1>2. ASSUME NEW r \in Requests, FirmwareStep(r) PROVE Kept
  BY <1>2, FirmwareMoves, FirmwareRenames, FirmwareRecords, MetadataKept DEF FirmwareStep
<1>3. ASSUME NEW r \in Requests, ConverterStep(r) PROVE Kept
  BY <1>3, ConverterStepKeeps, MetadataKept
<1>4. ASSUME NEW r \in Requests, BridgeStep(r) PROVE Kept
  BY <1>4, ViewStep, BridgeAnswers, BridgeActsLate, MetadataKept DEF BridgeStep
<1>5. CASE Failure
  BY <1>0, <1>5, FailureKeeps DEF PublishInv
<1>6. CASE UNCHANGED vars
  <2>1. UNCHANGED <<bin, release, releaseTmp, rows, registered, converter, legacy, wire,
                    jobs, failed, settled>>
    BY <1>6 DEF vars, stores, bridge, history
  <2>2. MetadataInv' /\ SessionInv'
    BY <2>1 DEF PublishInv, MetadataInv, Crowded, Between, Alone, Pending, SessionInv, Session,
          Active
  <2>3. CleanInv' /\ SettledInv'
    BY <2>1 DEF PublishInv, CleanInv, CleanJob, CleanFirmware, CleanConverter, HasVerifiedBin,
          SettledInv, CleanPublishAgrees, Active
  <2> QED
    BY <1>0, <2>2, <2>3 DEF PublishInv
<1> QED
  BY <1>0, <1>1, <1>2, <1>3, <1>4, <1>5, <1>6 DEF Next, PublishInv

\* A publish that nothing overlapped and nothing disturbed leaves the BIN, its metadata
\* and its row, or the converter, the old names and the row, saying the same
\* (firmware_publish.py:160, zigbee2mqtt_publish.py:187).
THEOREM CleanPublishSettles == Spec => []CleanPublishAgrees
<1>1. PublishInv => CleanPublishAgrees
  BY DEF PublishInv, SettledInv, CleanPublishAgrees
<1>2. PublishInv /\ [Next]_vars => PublishInv'
  BY PublishInvNext
<1> QED
  BY <1>1, <1>2, PublishInvInit, PTL DEF Spec

\* The metadata is of the BIN beside it once no publish of firmware is under way, if each
\* was answered with 201, however they overlapped (firmware_publish.py:163).
THEOREM MetadataFollowsBin == Spec => []MetadataOfBin
<1>1. ASSUME PublishInv, ~failed, release # Nothing,
             \A r \in Active : jobs[r].kind = "converter"
      PROVE  release.no = bin
  <2>1. Pending = {}
    <3>1. ASSUME NEW r \in Pending PROVE FALSE
      <4>1. r \in Active /\ jobs[r].pc \in FirmwarePcs
        BY <3>1 DEF Pending, Active, FirmwarePcs
      <4>2. jobs[r].kind = "firmware"
        BY <1>1, <4>1 DEF PublishInv, SessionInv, Session
      <4> QED
        BY <1>1, <4>1, <4>2
    <3> QED
      BY <3>1
  <2>2. ~Crowded /\ \A r \in Requests : ~Alone(r)
    BY <2>1 DEF Crowded, Alone
  <2> QED
    BY <1>1, <2>2 DEF PublishInv, MetadataInv, Between
<1>2. PublishInv => MetadataOfBin
  BY <1>1 DEF MetadataOfBin
<1>3. PublishInv /\ [Next]_vars => PublishInv'
  BY PublishInvNext
<1> QED
  BY <1>2, <1>3, PublishInvInit, PTL DEF Spec
=============================================================================
