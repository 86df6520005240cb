------------------------ MODULE ManufacturingProofs ------------------------
(***************************************************************************)
(* Proofs about Manufacturing: that the server serves a whole database     *)
(* only, whatever stop came when, and that a device gets one identity,     *)
(* under one root, for any number of projects, installs, set-ups, stops    *)
(* and mishaps.                                                            *)
(***************************************************************************)
EXTENDS Manufacturing, FiniteSetTheorems, TLAPS

-----------------------------------------------------------------------------
(* The start of the server *)

Serving == {"start", "check", "serve"}

\* What a stamped version stands for, and what the revision under way has done so far
\* (alembic upgrade head).
SchemaInv ==
    /\ \A r \in Revisions : r <= version => objects[r] = "all"
    /\ boot.at = "upgrade" /\ boot.done # "none" =>
           version < 5 /\ objects[version + 1] = boot.done
    /\ boot.at \in Serving \cup {"import"} => version = 5

\* A file is set aside only once its rows are in, and the start gets past the import only
\* once both are (migrate_legacy_sqlite.py).
ImportInv ==
    /\ \A d \in 1..2 : legacy[d] \/ imported[d] # "some"
    /\ boot.at = "import" =>
           /\ boot.step \in 1..2
           /\ boot.step = 2 => ~legacy[1]
           /\ boot.done = "all" => imported[boot.step] = "all"
    /\ boot.at \in Serving => ~legacy[1] /\ ~legacy[2]

StartInv ==
    /\ StartupTypeOK
    /\ SchemaInv
    /\ ImportInv
    /\ up # {} => boot.at \in {"check", "serve"}

-----------------------------------------------------------------------------
(* The start keeps StartInv. *)

LEMMA DatabasesAre == DOMAIN Databases = 1..2
BY DEF Databases

\* A step that leaves the database alone and the run of run.sh in a place it may be in.
LEMMA StartMoves ==
    ASSUME StartInv, StartupTypeOK',
           UNCHANGED <<schema, tables>>,
           \/ boot' = boot
           \/ boot' = Off
           \/ boot' = Stage("upgrade")
           \/ boot' = Stage("import") /\ version = 5
           \/ boot' \in {Stage("start"), Stage("check"), Stage("serve")} /\ boot.at \in Serving,
           up' # {} => boot'.at \in {"check", "serve"}
    PROVE  StartInv'
<1> USE DEF StartInv, StartupTypeOK, Serving, Stage, Off, schema, tables
<1>1. SchemaInv'
  BY DEF SchemaInv
<1>2. ImportInv'
  BY DEF ImportInv
<1> QED
  BY <1>1, <1>2

\* A statement of the revision after the current one, or its stamp (alembic upgrade head).
LEMMA StartUpgradeStep ==
    ASSUME StartInv, UpgradeStep
    PROVE  StartInv'
<1> USE DEF StartInv, StartupTypeOK
<1>1. /\ version \in 0..4 /\ boot.at = "upgrade"
      /\ UNCHANGED <<legacy, imported, up, faults>>
  BY DEF UpgradeStep, Upgraded, tables
<1>2. CASE Executes(version + 1) /\ boot' = [boot EXCEPT !.done = objects'[version + 1]]
  <2>1. /\ version' = version
        /\ objects' \in [Revisions -> Progress]
        /\ \A r \in Revisions : r # version + 1 => objects'[r] = objects[r]
        /\ objects'[version + 1] \in Progress
    BY <1>1, <1>2 DEF Executes, Revisions, Progress
  <2>2. boot'.at = "upgrade" /\ boot'.done = objects'[version + 1]
    BY <1>1, <1>2
  <2>3. StartupTypeOK'
    BY <1>1, <1>2, <2>1 DEF Progress
  <2>4. SchemaInv'
    BY <1>1, <2>1, <2>2 DEF SchemaInv, Serving, Revisions
  <2> QED
    BY <1>1, <2>2, <2>3, <2>4 DEF ImportInv, Serving
<1>3. CASE Stamps(version + 1) /\ boot' = [boot EXCEPT !.done = "none"]
  <2>1. version' = version + 1 /\ objects' = objects /\ boot.done = "all"
    BY <1>3 DEF Stamps
  <2>2. boot'.at = "upgrade" /\ boot'.done = "none"
    BY <1>1, <1>3
  <2>3. StartupTypeOK'
    BY <1>1, <1>3, <2>1 DEF Progress
  <2>4. SchemaInv'
    BY <1>1, <2>1, <2>2 DEF SchemaInv, Serving, Revisions
  <2> QED
    BY <1>1, <2>2, <2>3, <2>4 DEF ImportInv, Serving
<1> QED
  BY <1>2, <1>3 DEF UpgradeStep

\* The rows of a database, one transaction after the other (migrate_legacy_sqlite.py).
LEMMA StartImportTables ==
    ASSUME StartInv, NEW d \in 1..2, ImportTables(d)
    PROVE  StartInv'
<1> USE DEF StartInv, StartupTypeOK
<1>1. /\ boot.at = "import" /\ boot.step = d /\ legacy[d]
      /\ UNCHANGED <<objects, version, legacy, up, faults>>
  BY DEF ImportTables, schema
<1>2. PICK done \in {"some", "all"} :
          /\ boot' = [boot EXCEPT !.done = done]
          /\ imported' = [imported EXCEPT ![d] = AtLeast(@, done)]
  BY DEF ImportTables, Progress
<1>3. /\ boot'.at = "import" /\ boot'.step = d /\ boot'.done = done
      /\ boot' \in [at : {"off", "upgrade", "import", "start", "check", "serve"},
                    step : 0..5, done : Progress]
  BY <1>1, <1>2 DEF Progress
<1>4. /\ imported' \in [DOMAIN Databases -> Progress]
      /\ \A e \in 1..2 : e # d => imported'[e] = imported[e]
      /\ done = "all" => imported'[d] = "all"
  BY <1>2, DatabasesAre DEF AtLeast, Progress
<1>5. SchemaInv'
  BY <1>1, <1>3 DEF SchemaInv
<1>6. ImportInv'
  BY <1>1, <1>3, <1>4 DEF ImportInv, Serving
<1> QED
  BY <1>1, <1>3, <1>4, <1>5, <1>6

\* The file is set aside once the rows are in (migrate_legacy_sqlite.py).
LEMMA StartArchive ==
    ASSUME StartInv, NEW d \in 1..2, Archive(d)
    PROVE  StartInv'
<1> USE DEF StartInv, StartupTypeOK
<1>1. /\ boot.at = "import" /\ boot.step = d /\ (boot.done = "all" \/ ~legacy[d])
      /\ UNCHANGED <<objects, version, imported, up, faults>>
      /\ legacy' = [legacy EXCEPT ![d] = FALSE]
      /\ boot' = IF d = 2 THEN Stage("start") ELSE [Stage("import") EXCEPT !.step = d + 1]
  BY DEF Archive, schema
<1>2. /\ legacy' \in [DOMAIN Databases -> BOOLEAN] /\ ~legacy'[d]
      /\ \A e \in 1..2 : legacy'[e] => legacy[e]
  BY <1>1, DatabasesAre
<1>3. /\ boot'.done = "none"
      /\ d = 1 => boot'.at = "import" /\ boot'.step = 2
      /\ d = 2 => boot'.at = "start" /\ boot'.step = 1
      /\ boot' \in [at : {"off", "upgrade", "import", "start", "check", "serve"},
                    step : 0..5, done : Progress]
  BY <1>1 DEF Stage, Progress
<1>4. SchemaInv'
  BY <1>1, <1>3 DEF SchemaInv, Serving
<1>5. ImportInv'
  <2>1. \A e \in 1..2 : legacy'[e] \/ imported'[e] # "some"
    <3>1. imported[d] # "some"
      BY <1>1 DEF ImportInv
    <3>2. \A e \in 1..2 : e # d => legacy'[e] = legacy[e]
      BY <1>1, DatabasesAre
    <3> QED
      BY <1>1, <3>1, <3>2 DEF ImportInv
  <2> QED
    BY <1>1, <1>2, <1>3, <2>1 DEF ImportInv, Serving
<1> QED
  BY <1>1, <1>2, <1>3, <1>4, <1>5

LEMMA StartNext ==
    ASSUME StartInv, NEW ready, StartupNext(ready)
    PROVE  StartInv'
<1> USE DEF schema, tables
<1>1. CASE UpgradeStep
  BY <1>1, StartUpgradeStep
<1>2. CASE \E d \in DOMAIN Databases : ImportTables(d) \/ Archive(d)
  BY <1>2, DatabasesAre, StartImportTables, StartArchive
<1>3. CASE Boot \/ UpgradeEnds
  <2>1. StartupTypeOK'
    BY <1>3 DEF StartInv, StartupTypeOK, Boot, UpgradeEnds, Stage, Progress
  <2> QED
    BY <1>3, <2>1, StartMoves DEF Boot, UpgradeEnds, StartInv, Upgraded, Stage
<1>4. CASE StartListeners(ready) \/ CheckAndServe(ready)
  <2>1. StartupTypeOK'
    BY <1>4 DEF StartInv, StartupTypeOK, StartListeners, CheckAndServe, Stage, Progress
  <2> QED
    BY <1>4, <2>1, StartMoves DEF StartListeners, CheckAndServe, Serving, Stage
<1>5. CASE BootFails \/ HostStops
  <2>1. StartupTypeOK'
    BY <1>5, StartupAssumption
    DEF StartInv, StartupTypeOK, BootFails, UpgradeFails, CheckFails, ServerEnded,
        HostStops, Exits, Off, Progress
  <2> QED
    BY <1>5, <2>1, StartMoves
    DEF BootFails, UpgradeFails, CheckFails, ServerEnded, HostStops, Exits
<1>6. ASSUME NEW p, ProcessEnds(p) PROVE StartInv'
  <2>1. StartupTypeOK'
    BY <1>6, StartupAssumption DEF StartInv, StartupTypeOK, ProcessEnds
  <2> QED
    BY <1>6, <2>1, StartMoves DEF ProcessEnds, StartInv
<1> QED
  BY <1>1, <1>2, <1>3, <1>4, <1>5, <1>6 DEF StartupNext, BootStep

LEMMA StartInit == StartupInit => StartInv
<1> SUFFICES ASSUME StartupInit PROVE StartInv
  OBVIOUS
<1>1. StartupTypeOK
  BY StartupAssumption DEF StartupInit, StartupTypeOK, Off, Progress
<1>2. SchemaInv
  BY StartupAssumption DEF StartupInit, SchemaInv, Off, Serving, Revisions
<1>3. ImportInv
  BY DatabasesAre DEF StartupInit, ImportInv, Off, Serving
<1> QED
  BY <1>1, <1>2, <1>3 DEF StartInv, StartupInit

LEMMA ServesWholeInv == StartInv => ServesWhole
BY DatabasesAre
DEF StartInv, SchemaInv, ImportInv, Serving, ServesWhole, Revisions, StartupTypeOK

\* The server's step, the manufacturing service looked after in it, or one that has
\* nothing to do with the start.
LEMMA StartAlways == StartInv /\ [Next]_vars => StartInv'
<1> SUFFICES ASSUME StartInv, [Next]_vars PROVE StartInv'
  OBVIOUS
<1>1. CASE ServerStep
  BY <1>1, StartNext DEF ServerStep, Server
<1>2. CASE OfflineStep \/ UNCHANGED vars
  <2>1. UNCHANGED <<objects, version, legacy, imported, boot, up, faults>>
    BY <1>2 DEF OfflineStep, vars, startupVars, schema, tables
  <2> QED
    BY <2>1 DEF StartInv, StartupTypeOK, SchemaInv, ImportInv
<1> QED
  BY <1>1, <1>2 DEF Next

\* Whatever stop came at whatever moment of a boot, a process of the server runs only on
\* a schema with every object and on old databases imported whole and set aside
\* (run.sh:18, migrate_legacy_sqlite.py:78).
THEOREM ServesOnlyWhole == Spec => []ServesWhole
<1>1. Init => StartInv
  BY StartInit DEF Init
<1> QED
  BY <1>1, StartAlways, ServesWholeInv, PTL DEF Spec

-----------------------------------------------------------------------------
(* The identity *)

Pairs == 1..Len(issuedDevice)

SetupRecords ==
    [pc : {"idle", "caKey", "issue"}]
    \cup [pc : {"root", "cert", "key"}, root : 1..MaxSetups, ota : 1..MaxSetups]

JobRecords ==
    [pc : {"idle"}]
    \cup [pc : {"identity", "create", "adopt", "own", "register", "ota", "manifest", "json"},
          project : Projects, pair : 0..MaxInstalls]

Value == -1..(MaxInstalls + MaxSetups)
Files == [dir : BOOLEAN, key : Value, cert : Value, root : Value, ota : Value]
Source == [submodule : BOOLEAN, patches : 0..1, split : BOOLEAN, json : BOOLEAN]

\* The types, with the records of the set-up and the installer in full.
IdentityType ==
    /\ ca \in [cert : 0..MaxSetups, key : 0..MaxSetups]
    /\ setup \in SetupRecords /\ setups \in 0..MaxSetups
    /\ issuedOta \in Seq(1..MaxSetups) /\ Len(issuedOta) <= setups
    /\ setup.pc \in {"caKey", "issue"} => Len(issuedOta) < setups
    /\ share \in [root : 0..MaxSetups, cert : 0..MaxSetups, key : 0..MaxSetups]
    /\ tls \in 0..MaxSetups
    /\ issuedDevice \in Seq(1..MaxSetups) /\ Len(issuedDevice) <= installs
    /\ registry \in -1..Len(issuedDevice)
    /\ sources \in [Projects -> Source]
    /\ files \in [Projects -> Files]
    /\ manifest \in [Projects -> [Credentials -> Value] \cup {Nothing}]
    /\ job \in JobRecords
    /\ job.pc \in {"identity", "create", "adopt"} => Len(issuedDevice) < installs
    /\ job.pc \in {"own", "register", "ota", "manifest"} => job.pair \in Pairs
    /\ installs \in 0..MaxInstalls /\ mishaps \in 0..MaxMishaps
    /\ answered \subseteq Pairs

\* The root is whole before a certificate is signed, and a whole one is never replaced
\* (setup_certificates.py:84).
RootInv ==
    /\ ca.cert <= setups
    /\ ca.key # Missing => ca.cert = ca.key
    /\ setup.pc = "caKey" => ca.cert # Missing
    /\ setup.pc = "issue" => ca.key # Missing
    /\ OneRoot

\* Where a project's files are complete but not locked, and where the installer is in
\* them, they are one registered identity.
Whole(p) ==
    /\ files[p].cert \in answered /\ files[p].key = files[p].cert
    /\ files[p].root = issuedDevice[files[p].cert]

FilesInv ==
    \A p \in Projects :
        /\ ~files[p].dir => /\ manifest[p] = Nothing
                            /\ \A f \in Credentials : files[p][f] = Missing
        /\ manifest[p] = Nothing /\ files[p].ota # Missing => Whole(p)

JobInv ==
    /\ job.pc \in {"create", "own", "register", "ota", "manifest"} =>
           manifest[job.project] = Nothing
    /\ job.pc = "create" => ~files[job.project].dir
    /\ job.pc = "own" => \A f \in Credentials : files[job.project][f] = Missing
    /\ job.pc \in {"own", "register", "ota", "manifest"} => files[job.project].dir
    /\ job.pc \in {"register", "ota", "manifest"} =>
           /\ files[job.project].cert = job.pair /\ files[job.project].key = job.pair
           /\ files[job.project].root = issuedDevice[job.pair]
    /\ job.pc = "register" => files[job.project].ota = Missing
    /\ job.pc \in {"ota", "manifest"} => job.pair \in answered

InstallInv == FilesInv /\ JobInv /\ LockedIsRegistered

\* The service takes one identity as the first of the device, and none after an import.
FirstInv ==
    /\ answered # {} => registry # Missing
    /\ \A m, n \in answered : m = n
    /\ job.pc \in {"own", "register"} => registry # job.pair
    /\ tls # Missing => "manufacturing" \in up
    /\ inherited => answered = {} /\ (legacy[2] \/ imported[2] = "all")
    /\ inherited /\ imported[2] = "all" => registry # Missing
    /\ inherited \in BOOLEAN /\ DOMAIN built = Projects
    /\ \A p \in Projects : \A b \in built[p] : b.cert \in answered /\ b.key = b.cert
-----------------------------------------------------------------------------
(* The types *)

LEMMA ElementType ==
    ASSUME NEW S, NEW s \in Seq(S), NEW i \in 1..Len(s)
    PROVE  s[i] \in S
OBVIOUS

\* What WriteOwn and a stop in it leave of the three files (create_device_identity.py).
LEMMA WrittenIs ==
    ASSUME IdentityType, job.pc = "own", NEW n \in 0..3, NEW next \in {Missing, Torn}
    PROVE  LET w == Written(job.project, n, next) p == job.project IN
           /\ w \in [Projects -> Files]
           /\ \A q \in Projects : q # p => w[q] = files[q]
           /\ w[p].dir = files[p].dir /\ w[p].ota = files[p].ota
           /\ n = 3 => /\ w[p].cert = job.pair /\ w[p].key = job.pair
                       /\ w[p].root = issuedDevice[job.pair]
<1> DEFINE w == Written(job.project, n, next)
           p == job.project
           F == [f \in DOMAIN files[p] |->
                    CASE \E k \in 1..n : Own[k] = f ->
                            IF f = "root" THEN issuedDevice[job.pair] ELSE job.pair
                      [] n < 3 /\ f = Own[n + 1] -> next
                      [] OTHER -> files[p][f]]
<1>1. /\ p \in Projects /\ job.pair \in Value /\ issuedDevice[job.pair] \in Value
      /\ files \in [Projects -> Files] /\ next \in Value
  <2>1. /\ job \in JobRecords /\ job.pair \in 1..Len(issuedDevice)
        /\ Len(issuedDevice) <= installs /\ installs \in 0..MaxInstalls
        /\ issuedDevice \in Seq(1..MaxSetups) /\ files \in [Projects -> Files]
    BY DEF IdentityType, Pairs
  <2>2. p \in Projects
    BY <2>1 DEF JobRecords
  <2>3. issuedDevice[job.pair] \in 1..MaxSetups
    BY <2>1, ElementType
  <2> QED
    BY <2>1, <2>2, <2>3, IdentityAssumption DEF Value, Missing, Torn
<1>2. w = [files EXCEPT ![p] = F]
  BY DEF Written
<1>3. DOMAIN files[p] = {"dir", "key", "cert", "root", "ota"}
  BY <1>1 DEF Files
<1>4. F.dir = files[p].dir /\ F.ota = files[p].ota
  BY <1>3 DEF Own
<1>5. F.key \in Value /\ F.cert \in Value /\ F.root \in Value
  BY <1>1, <1>3 DEF Own, Files
<1>6. F \in Files
  BY <1>1, <1>3, <1>4, <1>5 DEF Files
<1>7. n = 3 => F.cert = job.pair /\ F.key = job.pair /\ F.root = issuedDevice[job.pair]
  <2>1. Own[1] = "cert" /\ Own[2] = "key" /\ Own[3] = "root"
    BY DEF Own
  <2> QED
    BY <1>3, <2>1
<1> HIDE DEF F, w
<1>8. w[p] = F /\ \A q \in Projects : q # p => w[q] = files[q]
  BY <1>1, <1>2
<1>9. w \in [Projects -> Files]
  BY <1>1, <1>2, <1>6
<1> QED
  BY <1>4, <1>7, <1>8, <1>9 DEF w

\* The part of IdentityType that is about the set-up.
SetupType ==
    /\ ca \in [cert : 0..MaxSetups, key : 0..MaxSetups]
    /\ setup \in SetupRecords /\ setups \in 0..MaxSetups
    /\ issuedOta \in Seq(1..MaxSetups) /\ Len(issuedOta) <= setups
    /\ setup.pc \in {"caKey", "issue"} => Len(issuedOta) < setups
    /\ share \in [root : 0..MaxSetups, cert : 0..MaxSetups, key : 0..MaxSetups]

\* The set-up keeps its types, an OTA pair being issued by a root that is there.
LEMMA TypeSetup ==
    ASSUME IdentityType, RootInv, SetupStep
    PROVE  IdentityType'
<1> USE IdentityAssumption DEF SetupType
<1>0. UNCHANGED <<service, project, install, answered>>
  BY DEF SetupStep, SetupCa, SetupCaKey, IssueOta, Deploy, SetupStops
<1>1. SetupType /\ MaxSetups \in Nat
  BY DEF IdentityType
<1>2. ASSUME SetupCa PROVE SetupType'
  <2>1. /\ UNCHANGED <<issuedOta, share>> /\ setups' = setups + 1 /\ setups < MaxSetups
        /\ ca' = ca \/ ca' = [ca EXCEPT !.cert = setups + 1]
        /\ setup' \in {[pc |-> "caKey"], [pc |-> "issue"]}
    BY <1>2 DEF SetupCa
  <2>2. setup' \in SetupRecords /\ setups' \in 0..MaxSetups
    BY <1>1, <2>1 DEF SetupRecords
  <2>3. ca' \in [cert : 0..MaxSetups, key : 0..MaxSetups]
    BY <1>1, <2>1
  <2>4. setup'.pc \in {"caKey", "issue"} /\ Len(issuedOta') < setups'
    BY <1>1, <2>1
  <2> QED
    BY <1>1, <2>1, <2>2, <2>3, <2>4
<1>3. ASSUME SetupCaKey PROVE SetupType'
  <2>1. /\ UNCHANGED <<setups, issuedOta, share>> /\ setup.pc = "caKey"
        /\ ca' = [ca EXCEPT !.key = ca.cert] /\ setup' = [pc |-> "issue"]
    BY <1>3 DEF SetupCaKey
  <2>2. setup' \in SetupRecords
    BY <2>1 DEF SetupRecords
  <2>3. ca' \in [cert : 0..MaxSetups, key : 0..MaxSetups]
    BY <1>1, <2>1
  <2> QED
    BY <1>1, <2>1, <2>2, <2>3
<1>4. ASSUME IssueOta PROVE SetupType'
  <2>1. /\ UNCHANGED <<ca, setups, share>> /\ setup.pc = "issue"
        /\ issuedOta' = Append(issuedOta, ca.cert)
        /\ setup' = [pc |-> "root", root |-> ca.cert, ota |-> Len(issuedOta) + 1]
    BY <1>4 DEF IssueOta
  <2>2. ca.cert \in 1..MaxSetups
    BY <1>1, <2>1 DEF RootInv, Missing
  <2>3. /\ issuedOta' \in Seq(1..MaxSetups) /\ Len(issuedOta') = Len(issuedOta) + 1
        /\ Len(issuedOta) < setups
    BY <1>1, <2>1, <2>2
  <2>4. setup' \in SetupRecords /\ setup'.pc = "root"
    BY <1>1, <2>1, <2>2, <2>3 DEF SetupRecords
  <2> QED
    BY <1>1, <2>1, <2>3, <2>4
<1>5. ASSUME Deploy PROVE SetupType'
  <2>1. /\ UNCHANGED <<ca, setups, issuedOta>> /\ setup.pc \in {"root", "cert", "key"}
        /\ share' = [share EXCEPT ![setup.pc] = IF setup.pc = "root" THEN setup.root
                                                                    ELSE setup.ota]
        /\ setup' \in {[pc |-> "idle"], [setup EXCEPT !.pc = "cert"],
                       [setup EXCEPT !.pc = "key"]}
    BY <1>5 DEF Deploy, AfterCopy
  <2>2. setup \in [pc : {"root", "cert", "key"}, root : 1..MaxSetups, ota : 1..MaxSetups]
    BY <1>1, <2>1 DEF SetupRecords
  <2>3. share' \in [root : 0..MaxSetups, cert : 0..MaxSetups, key : 0..MaxSetups]
    BY <1>1, <2>1, <2>2
  <2>4. setup' \in SetupRecords /\ setup'.pc \in {"idle", "cert", "key"}
    BY <2>1, <2>2 DEF SetupRecords
  <2> QED
    BY <1>1, <2>1, <2>3, <2>4
<1>6. ASSUME SetupStops PROVE SetupType'
  BY <1>1, <1>6 DEF SetupStops, SetupRecords
<1>7. SetupType'
  BY <1>2, <1>3, <1>4, <1>5, <1>6 DEF SetupStep
<1>8. mishaps' \in 0..MaxMishaps
  BY <1>0 DEF IdentityType, SetupStep, SetupCa, SetupCaKey, IssueOta, Deploy, SetupStops, Mishap
<1> QED
  BY <1>0, <1>7, <1>8 DEF IdentityType, Pairs, service, project, install

\* The installer goes on with the project and the pair it has.
LEMMA GotoIs ==
    ASSUME job \in JobRecords, job.pc # "idle",
           NEW pc \in {"identity", "create", "adopt", "own", "register", "ota", "manifest",
                       "json"}, Goto(pc)
    PROVE  /\ job' \in JobRecords
           /\ job'.pc = pc /\ job'.project = job.project /\ job'.pair = job.pair
BY DEF Goto, JobRecords

LEMMA EndsIs == Ends => job' \in JobRecords /\ job'.pc = "idle"
BY DEF Ends, NoJob, JobRecords

LEMMA JobIs ==
    ASSUME job \in JobRecords, job.pc # "idle"
    PROVE  job.project \in Projects /\ job.pair \in 0..MaxInstalls
BY DEF JobRecords

\* What is written to the manifest is what the files hold.
LEMMA IdentityIs ==
    ASSUME IdentityType, NEW p \in Projects
    PROVE  /\ Identity(p) \in [Credentials -> Value]
           /\ \A f \in Credentials : Identity(p)[f] = files[p][f]
BY DEF IdentityType, Identity, Credentials, Files

\* The patches of the project's sources (install.py).
LEMMA PatchType ==
    ASSUME NEW s \in Source
    PROVE  Patch(s) \in Source
<1>1. ASSUME NEW u \in Source PROVE [u EXCEPT !.submodule = TRUE] \in Source
  BY DEF Source
<1>2. ASSUME NEW u \in Source PROVE [u EXCEPT !.patches = 1] \in Source
  BY DEF Source
<1>3. ASSUME NEW u \in Source PROVE [u EXCEPT !.split = TRUE] \in Source
  BY DEF Source
<1>4. Patch(s) = [[[s EXCEPT !.submodule = TRUE] EXCEPT !.patches = 1] EXCEPT !.split = TRUE]
  BY DEF Patch, Source
<1> QED
  BY <1>1, <1>2, <1>3, <1>4

\* The part of IdentityType that is about the installer.
InstallType ==
    /\ issuedDevice \in Seq(1..MaxSetups) /\ Len(issuedDevice) <= installs
    /\ registry \in -1..Len(issuedDevice)
    /\ sources \in [Projects -> Source]
    /\ files \in [Projects -> Files]
    /\ manifest \in [Projects -> [Credentials -> Value] \cup {Nothing}]
    /\ job \in JobRecords
    /\ job.pc \in {"identity", "create", "adopt"} => Len(issuedDevice) < installs
    /\ job.pc \in {"own", "register", "ota", "manifest"} => job.pair \in Pairs
    /\ installs \in 0..MaxInstalls
    /\ answered \subseteq Pairs

\* A device pair is only issued by an install that has begun, and by a root that is there
\* (install.py, create_device_identity.py).
LEMMA TypeInstall ==
    ASSUME IdentityType, InstallStep
    PROVE  IdentityType'
<1> USE IdentityAssumption
<1>0. UNCHANGED <<pki, tls>>
  BY DEF InstallStep, StartInstall, EnsureIdentity, Adopt, CreatePair, WriteOwn, FetchOta,
         Register, LockIdentity, WriteProjectJson, InstallStops, service
<1>1. InstallType
  BY DEF IdentityType, InstallType
<1>2. ASSUME NEW p \in Projects, StartInstall(p) PROVE InstallType'
  <2>1. /\ UNCHANGED <<registry, files, manifest, issuedDevice, answered>>
        /\ installs' = installs + 1 /\ installs < MaxInstalls
        /\ job' = [pc |-> "identity", project |-> p, pair |-> Missing]
        /\ sources' = [sources EXCEPT ![p] = Patch(@)]
    BY <1>2 DEF StartInstall, service
  <2>2. sources' \in [Projects -> Source]
    <3>1. sources[p] \in Source
      BY <1>1 DEF InstallType
    <3>2. Patch(sources[p]) \in Source
      BY <3>1, PatchType
    <3>3. sources' = [sources EXCEPT ![p] = Patch(sources[p])]
      BY <2>1
    <3> QED
      BY <1>1, <3>2, <3>3 DEF InstallType
  <2>3. job' \in JobRecords /\ job'.pc = "identity"
    BY <2>1 DEF JobRecords, Missing
  <2> QED
    BY <1>1, <2>1, <2>2, <2>3 DEF InstallType, Pairs
<1>3. ASSUME EnsureIdentity PROVE InstallType'
  <2>1. UNCHANGED <<registry, files, manifest, issuedDevice, answered, sources, installs>>
    BY <1>3 DEF EnsureIdentity, service, project
  <2>2. job.pc = "identity" /\ (Ends \/ \E pc \in {"json", "create", "adopt"} : Goto(pc))
    BY <1>3 DEF EnsureIdentity, At
  <2> QED
    BY <1>1, <2>1, <2>2, EndsIs, GotoIs DEF InstallType, Pairs
<1>4. ASSUME Adopt PROVE InstallType'
  <2>1. UNCHANGED <<registry, files, issuedDevice, answered, sources, installs>>
    BY <1>4 DEF Adopt, service
  <2>2. job.pc = "adopt" /\ (Ends \/ Goto("json"))
    BY <1>4 DEF Adopt, At
  <2>3. \/ manifest' = manifest
        \/ manifest' = [manifest EXCEPT ![job.project] = Identity(job.project)]
    BY <1>4 DEF Adopt
  <2>4. manifest' \in [Projects -> [Credentials -> Value] \cup {Nothing}]
    BY <1>1, <2>2, <2>3, JobIs, IdentityIs DEF InstallType
  <2> QED
    BY <1>1, <2>1, <2>2, <2>4, EndsIs, GotoIs DEF InstallType, Pairs
<1>5. ASSUME CreatePair PROVE InstallType'
  <2>1. UNCHANGED <<registry, manifest, answered, sources, installs>> /\ job.pc = "create"
    BY <1>5 DEF CreatePair, service, At
  <2>2. CASE CaWhole
    <3>1. /\ issuedDevice' = Append(issuedDevice, ca.cert)
          /\ files' = [files EXCEPT ![job.project].dir = TRUE]
          /\ job' = [job EXCEPT !.pc = "own", !.pair = Len(issuedDevice) + 1]
      BY <1>5, <2>2 DEF CreatePair
    <3>2. ca.cert \in 1..MaxSetups
      BY <2>2 DEF IdentityType, CaWhole, Missing
    <3>3. /\ issuedDevice' \in Seq(1..MaxSetups) /\ Len(issuedDevice') = Len(issuedDevice) + 1
          /\ Len(issuedDevice') <= installs /\ Len(issuedDevice') \in 1..MaxInstalls
      BY <1>1, <2>1, <3>1, <3>2 DEF InstallType
    <3>4. /\ job' \in JobRecords /\ job'.pc = "own" /\ job'.pair = Len(issuedDevice')
      <4>1. job \in [pc : {"identity", "create", "adopt", "own", "register", "ota", "manifest",
                            "json"},
                      project : Projects, pair : 0..MaxInstalls]
        BY <1>1, <2>1 DEF InstallType, JobRecords
      <4>2. Len(issuedDevice') \in 0..MaxInstalls /\ Len(issuedDevice') = Len(issuedDevice) + 1
        BY <3>3
      <4> QED
        BY <3>1, <4>1, <4>2 DEF JobRecords
    <3>5. files' \in [Projects -> Files]
      BY <1>1, <2>1, <3>1, JobIs DEF InstallType, Files
    <3> QED
      BY <1>1, <2>1, <3>3, <3>4, <3>5 DEF InstallType, Pairs
  <2>3. CASE ~CaWhole
    BY <1>1, <1>5, <2>1, <2>3, EndsIs DEF CreatePair, InstallType, Pairs
  <2> QED
    BY <2>2, <2>3
<1>6. ASSUME WriteOwn PROVE InstallType'
  <2>1. /\ UNCHANGED <<registry, manifest, answered, sources, installs, issuedDevice>>
        /\ job.pc = "own" /\ Goto("register") /\ files' = Written(job.project, 3, Missing)
    BY <1>6 DEF WriteOwn, service, At
  <2>2. files' \in [Projects -> Files]
    BY <2>1, WrittenIs
  <2> QED
    BY <1>1, <2>1, <2>2, GotoIs DEF InstallType, Pairs
<1>7. ASSUME FetchOta PROVE InstallType'
  <2>1. /\ UNCHANGED <<registry, manifest, answered, sources, installs, issuedDevice>>
        /\ job.pc = "ota" /\ Goto("manifest")
        /\ files' = [files EXCEPT ![job.project].ota = share.cert]
    BY <1>7 DEF FetchOta, service, At
  <2>2. share.cert \in Value
    BY DEF IdentityType, Value
  <2>3. files' \in [Projects -> Files]
    BY <1>1, <2>1, <2>2, JobIs DEF InstallType, Files
  <2> QED
    BY <1>1, <2>1, <2>3, GotoIs DEF InstallType, Pairs
<1>8. ASSUME Register PROVE InstallType'
  <2>1. /\ UNCHANGED <<sources, files, manifest, installs, issuedDevice>>
        /\ job.pc = "register" /\ registry' = job.pair
        /\ Goto("ota") \/ Ends
        /\ answered' \subseteq answered \cup {job.pair}
    BY <1>8 DEF Register, project, At
  <2>2. job.pair \in Pairs
    BY <1>1, <2>1 DEF InstallType
  <2> QED
    BY <1>1, <2>1, <2>2, GotoIs, EndsIs DEF InstallType, Pairs
<1>9. ASSUME LockIdentity PROVE InstallType'
  <2>1. /\ UNCHANGED <<registry, files, answered, sources, installs, issuedDevice>>
        /\ job.pc = "manifest" /\ Goto("json")
        /\ manifest' = [manifest EXCEPT ![job.project] = Identity(job.project)]
    BY <1>9 DEF LockIdentity, service, At
  <2>2. manifest' \in [Projects -> [Credentials -> Value] \cup {Nothing}]
    BY <1>1, <2>1, JobIs, IdentityIs DEF InstallType
  <2> QED
    BY <1>1, <2>1, <2>2, GotoIs DEF InstallType, Pairs
<1>10. ASSUME WriteProjectJson PROVE InstallType'
  <2>1. /\ UNCHANGED <<registry, files, manifest, answered, installs, issuedDevice>>
        /\ job.pc = "json" /\ Ends
        /\ sources' = [sources EXCEPT ![job.project].json = TRUE]
    BY <1>10 DEF WriteProjectJson, service, At
  <2>2. sources' \in [Projects -> Source]
    BY <1>1, <2>1, JobIs DEF InstallType, Source
  <2> QED
    BY <1>1, <2>1, <2>2, EndsIs DEF InstallType, Pairs
<1>11. ASSUME InstallStops PROVE InstallType'
  <2>1. /\ UNCHANGED <<manifest, answered, sources, installs, issuedDevice>>
        /\ job.pc # "idle" /\ Ends
    BY <1>11 DEF InstallStops
  <2>2. files' \in [Projects -> Files]
    <3>1. CASE At("own")
      <4>1. PICK n \in 0..2, next \in {Missing, Torn} :
                files' = Written(job.project, n, next)
        BY <1>11, <3>1 DEF InstallStops, At
      <4> QED
        BY <3>1, <4>1, WrittenIs DEF At
    <3>2. CASE At("ota")
      <4>1. files' \in {files, [files EXCEPT ![job.project].ota = Torn]}
        BY <1>11, <3>2 DEF InstallStops, At
      <4>2. Torn \in Value
        BY DEF Torn, Value
      <4> QED
        BY <1>1, <2>1, <4>1, <4>2, JobIs DEF InstallType, Files
    <3>3. CASE ~At("own") /\ ~At("ota")
      BY <1>1, <1>11, <3>3 DEF InstallStops, InstallType
    <3> QED
      BY <3>1, <3>2, <3>3
  <2>3. registry' = registry \/ (job.pc = "register" /\ registry' = job.pair)
    BY <1>11 DEF InstallStops, At
  <2> QED
    BY <1>1, <2>1, <2>2, <2>3, EndsIs DEF InstallType, Pairs
<1>12. InstallType'
  BY <1>2, <1>3, <1>4, <1>5, <1>6, <1>7, <1>8, <1>9, <1>10, <1>11 DEF InstallStep
<1>13. mishaps' \in 0..MaxMishaps
  BY DEF IdentityType, InstallStep, StartInstall, EnsureIdentity, Adopt, CreatePair, WriteOwn,
         FetchOta, Register, LockIdentity, WriteProjectJson, InstallStops, Mishap
<1> QED
  BY <1>0, <1>12, <1>13 DEF IdentityType, InstallType, pki

\* A file of an installed project is damaged, or a build goes out (prebuild_validate.py).
LEMMA TypeProject ==
    ASSUME IdentityType, ProjectStep
    PROVE  IdentityType'
<1>1. ASSUME NEW p \in Projects, Build(p) PROVE IdentityType'
  BY <1>1 DEF Build, IdentityType, Pairs, pki, service, project, install
<1>2. ASSUME NEW p \in Projects, NEW f \in {"key", "ota"}, FileDamaged(p, f)
      PROVE  IdentityType'
  <2>1. /\ UNCHANGED <<pki, service, sources, manifest, install, answered>>
        /\ files' = [files EXCEPT ![p][f] = Torn] /\ mishaps' \in 0..MaxMishaps
    BY <1>2, IdentityAssumption DEF FileDamaged, Mishap, IdentityType
  <2>2. Torn \in Value
    BY IdentityAssumption DEF Torn, Value
  <2>3. files' \in [Projects -> Files]
    BY <2>1, <2>2 DEF IdentityType, Files
  <2> QED
    BY <2>1, <2>3 DEF IdentityType, Pairs, pki, service, install
<1> QED
  BY <1>1, <1>2 DEF ProjectStep

\* The manufacturing service loads a pair that was deployed, or an old row is imported
\* (manufacturing_api.py, migrate_legacy_sqlite.py).
LEMMA TypeServer ==
    ASSUME IdentityType, ServerStep
    PROVE  IdentityType'
<1>1. /\ UNCHANGED <<pki, project, install, mishaps, answered>>
      /\ tls' = Loaded /\ registry' = Imported
  BY DEF ServerStep, Server
<1>2. tls' \in 0..MaxSetups
  BY <1>1, IdentityAssumption DEF IdentityType, Loaded, Missing
<1>3. registry' \in -1..Len(issuedDevice)
  BY <1>1 DEF IdentityType, Imported, Old
<1> QED
  BY <1>1, <1>2, <1>3 DEF IdentityType, Pairs, pki, project, install

-----------------------------------------------------------------------------
(* One root *)

LEMMA RootSetup ==
    ASSUME IdentityType, RootInv, SetupStep
    PROVE  RootInv'
<1>0. /\ UNCHANGED issuedDevice
      /\ ca \in [cert : 0..MaxSetups, key : 0..MaxSetups] /\ setups \in Nat
      /\ \A n \in 1..Len(issuedDevice) : issuedDevice[n] # 0
  <2>1. UNCHANGED issuedDevice
    BY DEF SetupStep, SetupCa, SetupCaKey, IssueOta, Deploy, SetupStops, install
  <2>2. ca \in [cert : 0..MaxSetups, key : 0..MaxSetups] /\ setups \in Nat
    BY IdentityAssumption DEF IdentityType
  <2>3. issuedDevice \in Seq(1..MaxSetups)
    BY DEF IdentityType
  <2>4. ASSUME NEW n \in 1..Len(issuedDevice) PROVE issuedDevice[n] # 0
    <3>1. issuedDevice[n] \in 1..MaxSetups
      BY <2>3, ElementType
    <3> QED
      BY <3>1, IdentityAssumption
  <2> QED
    BY <2>1, <2>2, <2>4
<1>1. CASE SetupCa
  <2>1. CASE NeedsCa
    <3>1. /\ ca' = [ca EXCEPT !.cert = setups + 1] /\ setup' = [pc |-> "caKey"]
          /\ setups' = setups + 1
      BY <1>1, <2>1 DEF SetupCa
    <3>2. ca'.cert = setups + 1 /\ ca'.key = ca.key
      BY <1>0, <3>1
    <3>3. ca.key = 0
      BY <2>1, <1>0 DEF NeedsCa, CaWhole, RootInv, Missing
    <3>4. \A n \in 1..Len(issuedDevice) : FALSE
      BY <1>0, <3>3 DEF RootInv, OneRoot
    <3> QED
      BY <1>0, <3>1, <3>2, <3>3, <3>4 DEF RootInv, OneRoot, Missing
  <2>2. CASE ~NeedsCa
    <3>1. /\ UNCHANGED ca /\ setup' = [pc |-> "issue"] /\ setups' = setups + 1
      BY <1>1, <2>2 DEF SetupCa
    <3> QED
      BY <1>0, <2>2, <3>1 DEF NeedsCa, CaWhole, RootInv, OneRoot
  <2> QED
    BY <2>1, <2>2
<1>2. CASE SetupCaKey
  <2>1. /\ ca' = [ca EXCEPT !.key = ca.cert] /\ setup' = [pc |-> "issue"]
        /\ setups' = setups /\ setup.pc = "caKey"
    BY <1>2 DEF SetupCaKey
  <2>2. ca'.cert = ca.cert /\ ca'.key = ca.cert
    BY <1>0, <2>1
  <2> QED
    BY <1>0, <2>1, <2>2 DEF RootInv, OneRoot
<1>3. CASE IssueOta \/ Deploy \/ SetupStops
  <2>1. UNCHANGED <<ca, setups>>
    BY <1>3 DEF IssueOta, Deploy, SetupStops
  <2>2. setup'.pc \notin {"caKey", "issue"}
    <3>1. CASE IssueOta
      BY <3>1 DEF IssueOta
    <3>2. CASE Deploy
      BY <3>2 DEF Deploy, AfterCopy, IdentityType, SetupRecords
    <3>3. CASE SetupStops
      BY <3>3 DEF SetupStops
    <3> QED
      BY <1>3, <3>1, <3>2, <3>3
  <2> QED
    BY <1>0, <2>1, <2>2 DEF RootInv, OneRoot
<1> QED
  BY <1>1, <1>2, <1>3 DEF SetupStep

\* A device certificate is signed by the root that is there (create_device_identity.py).
LEMMA RootOthers ==
    ASSUME IdentityType, RootInv, UNCHANGED <<ca, setup, setups>>,
           \/ issuedDevice' = issuedDevice
           \/ issuedDevice' = Append(issuedDevice, ca.cert) /\ CaWhole
    PROVE  RootInv'
<1>1. CASE issuedDevice' = issuedDevice
  BY <1>1 DEF RootInv, OneRoot
<1>2. CASE issuedDevice' = Append(issuedDevice, ca.cert) /\ CaWhole
  <2>1. /\ Len(issuedDevice') = Len(issuedDevice) + 1 /\ Len(issuedDevice) \in Nat
        /\ \A n \in 1..Len(issuedDevice) : issuedDevice'[n] = issuedDevice[n]
        /\ issuedDevice'[Len(issuedDevice) + 1] = ca.cert
    BY <1>2 DEF IdentityType
  <2>2. ca.cert = ca.key
    BY <1>2 DEF RootInv, CaWhole
  <2>3. \A n \in 1..Len(issuedDevice') :
            n \in 1..Len(issuedDevice) \/ n = Len(issuedDevice) + 1
    BY <2>1
  <2>4. OneRoot'
    BY <2>1, <2>2, <2>3 DEF RootInv, OneRoot
  <2> QED
    BY <2>4 DEF RootInv
<1> QED
  BY <1>1, <1>2

RootedType == IdentityType /\ RootInv

LEMMA RootedNext == RootedType /\ [Next]_vars => RootedType'
<1> SUFFICES ASSUME RootedType, [Next]_vars PROVE RootedType'
  OBVIOUS
<1> USE DEF RootedType
<1>1. CASE SetupStep
  BY <1>1, TypeSetup, RootSetup
<1>2. CASE InstallStep
  <2>1. UNCHANGED <<ca, setup, setups>>
    BY <1>2 DEF InstallStep, StartInstall, EnsureIdentity, Adopt, CreatePair, WriteOwn,
                FetchOta, Register, LockIdentity, WriteProjectJson, InstallStops, pki
  <2>2. \/ issuedDevice' = issuedDevice
        \/ issuedDevice' = Append(issuedDevice, ca.cert) /\ CaWhole
    BY <1>2 DEF InstallStep, StartInstall, EnsureIdentity, Adopt, CreatePair, WriteOwn,
                FetchOta, Register, LockIdentity, WriteProjectJson, InstallStops
  <2> QED
    BY <1>2, <2>1, <2>2, TypeInstall, RootOthers
<1>3. CASE ProjectStep
  BY <1>3, TypeProject, RootOthers DEF ProjectStep, Build, FileDamaged, pki, install
<1>4. CASE ServerStep
  BY <1>4, TypeServer, RootOthers DEF ServerStep, Server, pki, install
<1>5. CASE UNCHANGED vars
  BY <1>5
  DEF vars, identityVars, pki, service, project, install, IdentityType, RootInv, OneRoot, Pairs
<1> QED
  BY <1>1, <1>2, <1>3, <1>4, <1>5 DEF Next, OfflineStep, OfflineNext

LEMMA RootedInit == Init => RootedType
<1> SUFFICES ASSUME Init PROVE RootedType
  OBVIOUS
<1>1. IdentityType
  BY IdentityAssumption
  DEF Init, IdentityInit, IdentityType, SetupRecords, JobRecords, Files, Source, Value,
      NoFiles, NewProject, NoJob, Missing, Pairs
<1>2. RootInv
  BY DEF Init, IdentityInit, RootInv, OneRoot, Missing
<1> QED
  BY <1>1, <1>2 DEF RootedType

\* Every variable of the start and of the making of identities stays in its set.
THEOREM ManufacturingTypes == Spec => []TypeOK
<1>1. StartInv /\ RootedType => TypeOK
  <2> SUFFICES ASSUME StartInv, RootedType PROVE IdentityTypeOK
    BY DEF TypeOK, StartInv
  <2>1. IdentityType /\ MaxSetups \in Nat /\ MaxInstalls \in Nat /\ MaxMishaps \in Nat
    BY IdentityAssumption DEF RootedType
  <2>2. setup.pc \in {"idle", "caKey", "issue", "root", "cert", "key"}
    BY <2>1 DEF IdentityType, SetupRecords
  <2>3. Len(issuedOta) <= MaxSetups /\ Len(issuedDevice) <= MaxInstalls
        /\ registry \in -1..MaxInstalls
    BY <2>1 DEF IdentityType
  <2>4. \A p \in Projects :
           /\ sources[p].patches \in 0..1
           /\ \A f \in Credentials : files[p][f] \in Value
           /\ manifest[p] # Nothing => manifest[p] \in [Credentials -> Value]
    BY <2>1 DEF IdentityType, Source, Files, Credentials
  <2> QED
    BY <2>1, <2>2, <2>3, <2>4 DEF IdentityType, IdentityTypeOK, Value
<1>2. Init => StartInv
  BY StartInit DEF Init
<1> QED
  BY <1>1, <1>2, StartAlways, RootedInit, RootedNext, PTL DEF Spec

\* Every device certificate there is was signed by the one root there is, whatever set-up
\* was run again or stopped (setup_certificates.py:84).
THEOREM RootIsOne == Spec => []OneRoot
<1>1. RootedType => OneRoot
  BY DEF RootedType, RootInv
<1> QED
  BY <1>1, RootedInit, RootedNext, PTL DEF Spec

-----------------------------------------------------------------------------
(* What is locked is registered *)

\* What was signed and registered stays so.
LastingPairs ==
    /\ answered \subseteq answered'
    /\ \A n \in Pairs : issuedDevice'[n] = issuedDevice[n]

LEMMA FilesKept ==
    ASSUME IdentityType, FilesInv, LockedIsRegistered, LastingPairs,
           UNCHANGED <<files, manifest>>
    PROVE  FilesInv' /\ LockedIsRegistered'
<1>1. answered \subseteq Pairs
  BY DEF IdentityType
<1>2. ASSUME NEW p \in Projects, Whole(p) PROVE Whole(p)'
  BY <1>1, <1>2 DEF Whole, LastingPairs
<1>3. FilesInv'
  BY <1>2 DEF FilesInv
<1>4. LockedIsRegistered'
  BY <1>1 DEF LockedIsRegistered, LastingPairs
<1> QED
  BY <1>3, <1>4

\* Only an install under way has anything to keep in its project.
LEMMA JobAtRest ==
    job'.pc \in {"idle", "identity", "adopt", "json"} => JobInv'
BY DEF JobInv

LEMMA JobKept ==
    ASSUME IdentityType, JobInv, LastingPairs, UNCHANGED job,
           job.pc # "idle" =>
               /\ files'[job.project] = files[job.project]
               /\ manifest'[job.project] = manifest[job.project]
    PROVE  JobInv'
BY DEF JobInv, LastingPairs, IdentityType

\* Other projects' files and manifests are not touched; this one's are complete only when
\* they are registered.
LEMMA FilesChanged ==
    ASSUME IdentityType, FilesInv, LastingPairs, NEW p \in Projects,
           \A q \in Projects : q # p => files'[q] = files[q] /\ manifest'[q] = manifest[q],
           files'[p].dir,
           manifest'[p] = Nothing /\ files'[p].ota # Missing => Whole(p)'
    PROVE  FilesInv'
<1>1. answered \subseteq Pairs
  BY DEF IdentityType
<1>2. ASSUME NEW q \in Projects, q # p, Whole(q) PROVE Whole(q)'
  BY <1>1, <1>2 DEF Whole, LastingPairs
<1> QED
  BY <1>2 DEF FilesInv

LEMMA LockedKept ==
    ASSUME IdentityType, LockedIsRegistered, LastingPairs, UNCHANGED manifest
    PROVE  LockedIsRegistered'
BY DEF LockedIsRegistered, LastingPairs, IdentityType

\* A manifest is written from files that are whole.
LEMMA Locks ==
    ASSUME IdentityType, FilesInv, LockedIsRegistered, NEW p \in Projects, Whole(p),
           files[p].dir, manifest' = [manifest EXCEPT ![p] = Identity(p)],
           UNCHANGED <<files, issuedDevice, answered>>
    PROVE  FilesInv' /\ LockedIsRegistered'
<1>1. LastingPairs
  BY DEF LastingPairs
<1>2. /\ manifest'[p] = Identity(p)
      /\ \A q \in Projects : q # p => manifest'[q] = manifest[q]
  BY DEF IdentityType
<1>3. /\ Identity(p).cert = files[p].cert /\ Identity(p).key = files[p].key
      /\ Identity(p).root = files[p].root
  BY DEF Identity, Credentials
<1>4. FilesInv'
  BY <1>1, <1>2, FilesChanged DEF Whole
<1>5. LockedIsRegistered'
  BY <1>2, <1>3 DEF LockedIsRegistered, Whole
<1> QED
  BY <1>4, <1>5

\* EnsureIdentity and the first and last steps leave the identities alone (install.py).
LEMMA InstallOutside ==
    ASSUME IdentityType, InstallInv,
           \/ \E p \in Projects : StartInstall(p)
           \/ EnsureIdentity \/ WriteProjectJson
    PROVE  InstallInv'
<1>1. UNCHANGED <<files, manifest, answered, issuedDevice>> /\ LastingPairs
  BY DEF StartInstall, EnsureIdentity, WriteProjectJson, service, project, LastingPairs
<1>2. CASE (\E p \in Projects : StartInstall(p)) \/ WriteProjectJson
  <2>1. job'.pc \in {"idle", "identity"}
    BY <1>2, EndsIs DEF StartInstall, WriteProjectJson
  <2> QED
    BY <1>1, <2>1, FilesKept, JobAtRest DEF InstallInv
<1>3. CASE EnsureIdentity
  <2>1. /\ job.pc = "identity" /\ job \in JobRecords
        /\ \/ Ends \/ Goto("json") \/ Goto("adopt")
           \/ Goto("create") /\ manifest[job.project] = Nothing /\ ~files[job.project].dir
    BY <1>3 DEF EnsureIdentity, At, IdentityAbsent, IdentityType
  <2>2. JobInv'
    <3>1. CASE Ends \/ Goto("json") \/ Goto("adopt")
      BY <2>1, <3>1, EndsIs, GotoIs, JobAtRest
    <3>2. CASE /\ Goto("create") /\ manifest[job.project] = Nothing
               /\ ~files[job.project].dir
      BY <1>1, <2>1, <3>2, GotoIs DEF JobInv
    <3> QED
      BY <2>1, <3>1, <3>2
  <2> QED
    BY <1>1, <2>2, FilesKept DEF InstallInv
<1> QED
  BY <1>2, <1>3

\* An adopted identity is complete, so the server had it (adopt_existing_identity.py).
LEMMA InstallAdopt ==
    ASSUME IdentityType, InstallInv, Adopt
    PROVE  InstallInv'
<1>1. /\ UNCHANGED <<files, answered, issuedDevice>> /\ LastingPairs
      /\ job \in JobRecords /\ job.pc = "adopt" /\ (Ends \/ Goto("json"))
  BY DEF Adopt, At, service, LastingPairs, IdentityType
<1>2. JobInv'
  BY <1>1, EndsIs, GotoIs, JobAtRest
<1>3. CASE UNCHANGED manifest
  BY <1>1, <1>2, <1>3, FilesKept DEF InstallInv
<1>4. CASE ~UNCHANGED manifest
  <2> DEFINE p == job.project
  <2>1. /\ manifest[p] = Nothing /\ Adoptable(p)
        /\ manifest' = [manifest EXCEPT ![p] = Identity(p)]
    BY <1>4 DEF Adopt
  <2>2. p \in Projects /\ files[p].ota # Missing
    BY <1>1, <2>1, JobIs DEF Adoptable, Credentials
  <2>3. Whole(p) /\ files[p].dir
    BY <2>1, <2>2 DEF InstallInv, FilesInv, Credentials
  <2> QED
    BY <1>1, <1>2, <2>1, <2>2, <2>3, Locks DEF InstallInv
<1> QED
  BY <1>3, <1>4

\* The pair is new, its project has no files yet (create_device_identity.py).
LEMMA InstallCreatePair ==
    ASSUME IdentityType, InstallInv, CreatePair
    PROVE  InstallInv'
<1>0. job \in JobRecords /\ job.pc # "idle"
  BY DEF CreatePair, At, IdentityType
<1> PICK p \in Projects : p = job.project
  BY <1>0, JobIs
<1>1. /\ UNCHANGED <<manifest, answered>> /\ job \in JobRecords /\ job.pc = "create"
      /\ p \in Projects /\ issuedDevice \in Seq(1..MaxSetups) /\ files \in [Projects -> Files]
  BY JobIs DEF CreatePair, At, service, IdentityType
<1>2. CASE CaWhole
  <2>1. /\ issuedDevice' = Append(issuedDevice, ca.cert)
        /\ files' = [files EXCEPT ![p].dir = TRUE]
        /\ job' = [job EXCEPT !.pc = "own", !.pair = Len(issuedDevice) + 1]
    BY <1>2 DEF CreatePair
  <2>2. LastingPairs
    BY <1>1, <2>1 DEF LastingPairs, Pairs
  <2>3. /\ \A q \in Projects : q # p => files'[q] = files[q]
        /\ files'[p].dir /\ \A f \in Credentials : files'[p][f] = files[p][f]
    BY <1>1, <2>1 DEF Files, Credentials
  <2>4. /\ manifest[p] = Nothing /\ \A f \in Credentials : files[p][f] = Missing
    BY <1>1 DEF InstallInv, FilesInv, JobInv
  <2>5. files'[p].ota = Missing
    BY <2>3, <2>4 DEF Credentials
  <2>6. FilesInv'
    BY <1>1, <2>2, <2>3, <2>5, FilesChanged DEF InstallInv
  <2>7. job'.pc = "own" /\ job'.project = p
    BY <1>1, <2>1 DEF JobRecords
  <2>8. JobInv'
    BY <1>1, <2>3, <2>4, <2>7 DEF JobInv
  <2> QED
    BY <1>1, <2>2, <2>6, <2>8, LockedKept DEF InstallInv
<1>3. CASE ~CaWhole
  BY <1>1, <1>3, EndsIs, JobAtRest, FilesKept DEF CreatePair, InstallInv, LastingPairs
<1> QED
  BY <1>2, <1>3

\* The three files are the pair's, and the server's certificate is not among them
\* (create_device_identity.py).
LEMMA InstallWriteOwn ==
    ASSUME IdentityType, InstallInv, WriteOwn
    PROVE  InstallInv'
<1>0. job \in JobRecords /\ job.pc # "idle"
  BY DEF WriteOwn, At, IdentityType
<1> PICK p \in Projects : p = job.project
  BY <1>0, JobIs
<1>1. /\ UNCHANGED <<manifest, answered, issuedDevice>> /\ LastingPairs
      /\ job \in JobRecords /\ job.pc = "own" /\ Goto("register") /\ p \in Projects
      /\ files' = Written(p, 3, Missing)
  BY JobIs DEF WriteOwn, At, service, LastingPairs, IdentityType
<1>2. /\ \A q \in Projects : q # p => files'[q] = files[q]
      /\ files'[p].dir = files[p].dir /\ files'[p].ota = files[p].ota
      /\ files'[p].cert = job.pair /\ files'[p].key = job.pair
      /\ files'[p].root = issuedDevice[job.pair]
  BY <1>1, WrittenIs
<1>3. manifest[p] = Nothing /\ files[p].dir /\ files[p].ota = Missing
  BY <1>1 DEF InstallInv, JobInv, Credentials
<1>4. FilesInv'
  BY <1>1, <1>2, <1>3, FilesChanged DEF InstallInv
<1>5. /\ job'.pc = "register" /\ job'.project = p /\ job'.pair = job.pair
  BY <1>1, GotoIs
<1>6. JobInv'
  BY <1>1, <1>2, <1>3, <1>5 DEF JobInv
<1> QED
  BY <1>1, <1>4, <1>6, LockedKept DEF InstallInv

\* The server's certificate completes an identity that is registered (ota_get).
LEMMA InstallFetchOta ==
    ASSUME IdentityType, InstallInv, FetchOta
    PROVE  InstallInv'
<1>0. job \in JobRecords /\ job.pc # "idle"
  BY DEF FetchOta, At, IdentityType
<1> PICK p \in Projects : p = job.project
  BY <1>0, JobIs
<1>1. /\ UNCHANGED <<manifest, answered, issuedDevice>> /\ LastingPairs
      /\ job \in JobRecords /\ job.pc = "ota" /\ Goto("manifest") /\ p \in Projects
      /\ files' = [files EXCEPT ![p].ota = share.cert]
  BY JobIs DEF FetchOta, At, service, LastingPairs, IdentityType
<1>2. /\ \A q \in Projects : q # p => files'[q] = files[q]
      /\ files'[p].dir = files[p].dir /\ files'[p].cert = files[p].cert
      /\ files'[p].key = files[p].key /\ files'[p].root = files[p].root
  BY <1>1 DEF IdentityType, Files
<1>3. /\ manifest[p] = Nothing /\ files[p].dir /\ Whole(p)
      /\ files[p].cert = job.pair /\ files[p].key = job.pair
      /\ files[p].root = issuedDevice[job.pair] /\ job.pair \in answered
  BY <1>1 DEF InstallInv, JobInv, Whole
<1>4. FilesInv'
  <2>1. Whole(p)'
    BY <1>1, <1>2, <1>3 DEF Whole
  <2> QED
    BY <1>1, <1>2, <1>3, <2>1, FilesChanged DEF InstallInv
<1>5. job'.pc = "manifest" /\ job'.project = p /\ job'.pair = job.pair
  BY <1>1, GotoIs
<1>6. JobInv'
  BY <1>1, <1>2, <1>3, <1>5 DEF JobInv
<1> QED
  BY <1>1, <1>4, <1>6, LockedKept DEF InstallInv

\* The installer goes on only with a registration that was not refused (register_with_ota).
LEMMA InstallRegister ==
    ASSUME IdentityType, InstallInv, Register
    PROVE  InstallInv'
<1>1. /\ UNCHANGED <<manifest, files, issuedDevice>> /\ LastingPairs
      /\ job \in JobRecords /\ job.pc = "register"
  BY DEF Register, At, project, LastingPairs, IdentityType
<1>2. FilesInv' /\ LockedIsRegistered'
  BY <1>1, FilesKept DEF InstallInv
<1>3. CASE Goto("ota") /\ answered' = answered \cup {job.pair}
  <2>1. job'.pc = "ota" /\ job'.project = job.project /\ job'.pair = job.pair
    BY <1>1, <1>3, GotoIs
  <2>2. JobInv'
    BY <1>1, <1>3, <2>1 DEF InstallInv, JobInv
  <2> QED
    BY <1>2, <2>2 DEF InstallInv
<1>4. CASE Ends
  BY <1>2, <1>4, EndsIs, JobAtRest DEF InstallInv
<1> QED
  BY <1>3, <1>4 DEF Register

LEMMA InstallLock ==
    ASSUME IdentityType, InstallInv, LockIdentity
    PROVE  InstallInv'
<1>0. job \in JobRecords /\ job.pc # "idle"
  BY DEF LockIdentity, At, IdentityType
<1> PICK p \in Projects : p = job.project
  BY <1>0, JobIs
<1>1. /\ UNCHANGED <<files, answered, issuedDevice>>
      /\ job \in JobRecords /\ job.pc = "manifest" /\ Goto("json") /\ p \in Projects
      /\ manifest' = [manifest EXCEPT ![p] = Identity(p)]
  BY JobIs DEF LockIdentity, At, service, IdentityType
<1>2. Whole(p) /\ files[p].dir
  BY <1>1 DEF InstallInv, JobInv, Whole
<1>3. JobInv'
  BY <1>1, GotoIs, JobAtRest
<1> QED
  BY <1>1, <1>2, <1>3, Locks DEF InstallInv

\* What a stopped installer leaves is not complete, or it is registered.
LEMMA InstallStopped ==
    ASSUME IdentityType, InstallInv, InstallStops
    PROVE  InstallInv'
<1>0. job \in JobRecords /\ job.pc # "idle"
  BY DEF InstallStops, IdentityType
<1> PICK p \in Projects : p = job.project
  BY <1>0, JobIs
<1>1. /\ UNCHANGED <<manifest, answered, issuedDevice>> /\ LastingPairs
      /\ job \in JobRecords /\ job.pc # "idle" /\ Ends /\ p \in Projects
  BY JobIs DEF InstallStops, LastingPairs, IdentityType
<1>2. JobInv' /\ LockedIsRegistered'
  BY <1>1, EndsIs, JobAtRest, LockedKept DEF InstallInv
<1>3. CASE At("own")
  <2>1. PICK n \in 0..2, next \in {Missing, Torn} : files' = Written(p, n, next)
    BY <1>3 DEF InstallStops, At
  <2>2. n \in 0..3 /\ job.pc = "own"
    BY <1>3 DEF At
  <2>3. /\ \A q \in Projects : q # p => files'[q] = files[q]
        /\ files'[p].dir = files[p].dir /\ files'[p].ota = files[p].ota
    BY <2>1, <2>2, WrittenIs
  <2>4. files[p].dir /\ files[p].ota = Missing
    BY <2>2 DEF InstallInv, JobInv, Credentials
  <2>5. FilesInv'
    BY <1>1, <2>3, <2>4, FilesChanged DEF InstallInv
  <2> QED
    BY <1>2, <2>5 DEF InstallInv
<1>4. CASE At("ota") /\ files' # files
  <2>1. files' = [files EXCEPT ![p].ota = Torn]
    BY <1>4 DEF InstallStops, At
  <2>2. /\ \A q \in Projects : q # p => files'[q] = files[q]
        /\ files'[p].dir = files[p].dir /\ files'[p].cert = files[p].cert
        /\ files'[p].key = files[p].key /\ files'[p].root = files[p].root
    BY <1>1, <2>1 DEF IdentityType, Files
  <2>3. Whole(p) /\ files[p].dir
    BY <1>4 DEF InstallInv, JobInv, Whole, At
  <2>4. Whole(p)'
    BY <1>1, <2>2, <2>3 DEF Whole
  <2>5. FilesInv'
    BY <1>1, <2>2, <2>3, <2>4, FilesChanged DEF InstallInv
  <2> QED
    BY <1>2, <2>5 DEF InstallInv
<1>5. CASE files' = files
  BY <1>1, <1>2, <1>5, FilesKept DEF InstallInv
<1> QED
  <2>1. At("own") \/ At("ota") \/ files' = files
    BY DEF InstallStops, At
  <2> QED
    BY <1>3, <1>4, <1>5, <2>1

\* A damaged file is one of a locked identity, in a project no installer is in.
LEMMA InstallDamaged ==
    ASSUME IdentityType, InstallInv, NEW p \in Projects, NEW f \in {"key", "ota"},
           FileDamaged(p, f)
    PROVE  InstallInv'
<1>1. /\ UNCHANGED <<manifest, answered, issuedDevice, job>> /\ LastingPairs
      /\ manifest[p] # Nothing /\ (job.pc # "idle" => job.project # p)
      /\ files' = [files EXCEPT ![p][f] = Torn]
  BY DEF FileDamaged, LastingPairs, install
<1>2. /\ \A q \in Projects : q # p => files'[q] = files[q]
      /\ files'[p].dir = files[p].dir
  BY <1>1 DEF IdentityType, Files
<1>3. files[p].dir
  BY <1>1 DEF InstallInv, FilesInv
<1>4. FilesInv'
  BY <1>1, <1>2, <1>3, FilesChanged DEF InstallInv
<1>5. job.pc # "idle" => job.project \in Projects
  BY JobIs DEF IdentityType
<1>6. JobInv'
  BY <1>1, <1>2, <1>5, JobKept DEF InstallInv
<1> QED
  BY <1>1, <1>4, <1>6, LockedKept DEF InstallInv

LEMMA InstallNext ==
    ASSUME IdentityType, InstallInv, [Next]_vars
    PROVE  InstallInv'
<1>1. CASE InstallStep
  BY <1>1, InstallOutside, InstallAdopt, InstallCreatePair, InstallWriteOwn, InstallFetchOta,
     InstallRegister, InstallLock, InstallStopped
  DEF InstallStep
<1>2. ASSUME NEW p \in Projects, NEW f \in {"key", "ota"}, FileDamaged(p, f)
      PROVE  InstallInv'
  BY <1>2, InstallDamaged
<1>3. ASSUME UNCHANGED <<files, manifest, answered, issuedDevice, job>> PROVE InstallInv'
  BY <1>3, FilesKept, JobKept DEF InstallInv, LastingPairs
<1>4. ASSUME NEW p \in Projects, Build(p) PROVE InstallInv'
  BY <1>3, <1>4 DEF Build, project, install
<1>5. CASE SetupStep
  BY <1>3, <1>5
  DEF SetupStep, SetupCa, SetupCaKey, IssueOta, Deploy, SetupStops, project, install
<1>6. CASE ServerStep \/ UNCHANGED vars
  BY <1>3, <1>6 DEF ServerStep, Server, vars, identityVars, project, install
<1> QED
  BY <1>1, <1>2, <1>4, <1>5, <1>6 DEF Next, OfflineStep, OfflineNext, ProjectStep

LEMMA InstallInit == Init => InstallInv
BY DEF Init, IdentityInit, InstallInv, FilesInv, JobInv, LockedIsRegistered, NoFiles, NoJob,
       Credentials, Missing

\* An identity is locked only with key, certificate and root that belong together and
\* after the server had registered it, also when an installer adopts what another left
\* (create_device_identity.py:211, adopt_existing_identity.py:119).
THEOREM LockedWasRegistered == Spec => []LockedIsRegistered
<1>1. RootedType /\ InstallInv /\ [Next]_vars => (RootedType /\ InstallInv)'
  BY RootedNext, InstallNext DEF RootedType
<1>2. InstallInv => LockedIsRegistered
  BY DEF InstallInv
<1> QED
  BY <1>1, <1>2, RootedInit, InstallInit, PTL DEF Spec

-----------------------------------------------------------------------------
(* Keys and manifests stay *)

\* A step of the installer writes a key only where there is none, and a manifest only
\* where there is none (create_device_identity.py:55).
LEMMA KeptByInstall ==
    ASSUME IdentityType, InstallInv, InstallStep, NEW p \in Projects
    PROVE  /\ files[p].key > 0 => files'[p].key = files[p].key
           /\ manifest[p] # Nothing => manifest'[p] = manifest[p]
<1>0. job \in JobRecords /\ files \in [Projects -> Files]
      /\ manifest \in [Projects -> [Credentials -> Value] \cup {Nothing}]
  BY DEF IdentityType
<1>1. CASE (\E q \in Projects : StartInstall(q)) \/ EnsureIdentity \/ Register \/ WriteProjectJson
  BY <1>1 DEF StartInstall, EnsureIdentity, Register, WriteProjectJson, project
<1>2. CASE Adopt
  BY <1>0, <1>2 DEF Adopt
<1>3. CASE CreatePair
  <2>1. files' = files \/ files' = [files EXCEPT ![job.project].dir = TRUE]
    BY <1>3 DEF CreatePair
  <2>2. files'[p].key = files[p].key
    BY <1>0, <2>1 DEF Files
  <2> QED
    BY <1>3, <2>2 DEF CreatePair
<1>4. ASSUME job.pc = "own", NEW n \in 0..3, NEW next \in {Missing, Torn},
             files' = Written(job.project, n, next), UNCHANGED manifest
      PROVE  /\ files[p].key > 0 => files'[p].key = files[p].key
             /\ manifest[p] # Nothing => manifest'[p] = manifest[p]
  <2>1. p # job.project => files'[p] = files[p]
    BY <1>4, WrittenIs
  <2>2. p = job.project => files[p].key = 0
    BY <1>4 DEF InstallInv, JobInv, Credentials, Missing
  <2> QED
    BY <1>4, <2>1, <2>2
<1>5. CASE WriteOwn
  BY <1>4, <1>5 DEF WriteOwn, At
<1>6. CASE FetchOta
  BY <1>0, <1>6 DEF FetchOta, Files
<1>7. CASE LockIdentity
  BY <1>0, <1>7 DEF LockIdentity, At, InstallInv, JobInv
<1>8. CASE InstallStops
  <2>1. CASE At("own")
    <3>1. PICK n \in 0..2, next \in {Missing, Torn} : files' = Written(job.project, n, next)
      BY <1>8, <2>1 DEF InstallStops, At
    <3>2. n \in 0..3
      OBVIOUS
    <3> QED
      BY <1>4, <1>8, <2>1, <3>1, <3>2 DEF InstallStops, At
  <2>2. CASE ~At("own")
    <3>1. files' \in {files, [files EXCEPT ![job.project].ota = Torn]}
      BY <1>8, <2>2 DEF InstallStops, At
    <3>2. files'[p].key = files[p].key
      BY <1>0, <3>1 DEF Files
    <3> QED
      BY <1>8, <3>2 DEF InstallStops
  <2> QED
    BY <2>1, <2>2
<1> QED
  BY <1>1, <1>2, <1>3, <1>5, <1>6, <1>7, <1>8 DEF InstallStep

LEMMA KeptStep ==
    ASSUME IdentityType, InstallInv, Next, NEW p \in Projects
    PROVE  /\ files[p].key > 0 => files'[p].key \in {files[p].key, Torn}
           /\ manifest[p] # Nothing => manifest'[p] = manifest[p]
<1>1. CASE InstallStep
  BY <1>1, KeptByInstall
<1>2. CASE ProjectStep
  <2>1. UNCHANGED manifest
    BY <1>2 DEF ProjectStep, Build, FileDamaged, project
  <2>2. \/ files' = files
        \/ \E q \in Projects, f \in {"key", "ota"} : files' = [files EXCEPT ![q][f] = Torn]
    BY <1>2 DEF ProjectStep, Build, FileDamaged, project
  <2>3. files'[p].key \in {files[p].key, Torn}
    <3>1. CASE files' = files
      BY <3>1
    <3>2. CASE files' # files
      <4>1. PICK q \in Projects, f \in {"key", "ota"} : files' = [files EXCEPT ![q][f] = Torn]
        BY <2>2, <3>2
      <4>2. files \in [Projects -> Files]
        BY DEF IdentityType
      <4>3. CASE p = q
        <5>1. files'[p] = [files[p] EXCEPT ![f] = Torn]
          BY <4>1, <4>2, <4>3
        <5> QED
          BY <4>2, <5>1 DEF Files
      <4>4. CASE p # q
        BY <4>1, <4>2, <4>4
      <4> QED
        BY <4>3, <4>4
    <3> QED
      BY <3>1, <3>2
  <2> QED
    BY <2>1, <2>3
<1>3. CASE SetupStep \/ ServerStep
  BY <1>3
  DEF SetupStep, SetupCa, SetupCaKey, IssueOta, Deploy, SetupStops, ServerStep, Server, project
<1> QED
  BY <1>1, <1>2, <1>3 DEF Next, OfflineStep, OfflineNext

\* A key once written in a project is never written over by a program, and what the
\* manifest locks never changes (create_device_identity.py:55).
THEOREM KeysStay == Spec => IdentityKept
<1>1. RootedType /\ InstallInv /\ [Next]_vars => (RootedType /\ InstallInv)'
  BY RootedNext, InstallNext DEF RootedType
<1>2. RootedType /\ InstallInv /\ [Next]_vars
        => [\A p \in Projects :
              /\ files[p].key > 0 => files'[p].key \in {files[p].key, Torn}
              /\ manifest[p] # Nothing => manifest'[p] = manifest[p]]_identityVars
  <2>1. UNCHANGED vars => UNCHANGED identityVars
    BY DEF vars
  <2> QED
    BY <2>1, KeptStep DEF RootedType
<1> QED
  BY <1>1, <1>2, RootedInit, InstallInit, PTL DEF Spec, IdentityKept

-----------------------------------------------------------------------------
(* One identity for the device *)

\* Rows once imported stay, and no file is set aside before its rows are in
\* (migrate_legacy_sqlite.py).
LEMMA ImportGoesOn ==
    ASSUME StartInv, NEW ready, StartupNext(ready)
    PROVE  /\ imported[2] = "all" => imported'[2] = "all"
           /\ legacy[2] \/ imported[2] = "all" => legacy'[2] \/ imported'[2] = "all"
<1>1. ASSUME NEW d \in 1..2, ImportTables(d)
      PROVE  (imported[2] = "all" => imported'[2] = "all") /\ legacy' = legacy
  <2>1. PICK done \in Progress : imported' = [imported EXCEPT ![d] = AtLeast(@, done)]
    BY <1>1 DEF ImportTables
  <2>2. imported'[2] \in {imported[2], AtLeast(imported[2], done)}
    BY <2>1, DatabasesAre DEF StartInv, StartupTypeOK
  <2> QED
    BY <1>1, <2>2 DEF AtLeast, ImportTables
<1>2. ASSUME NEW d \in 1..2, Archive(d)
      PROVE  /\ imported' = imported
             /\ legacy[2] \/ imported[2] = "all" => legacy'[2] \/ imported[2] = "all"
  <2>1. /\ imported' = imported /\ legacy' = [legacy EXCEPT ![d] = FALSE]
        /\ boot.at = "import" /\ boot.step = d /\ (boot.done = "all" \/ ~legacy[d])
    BY <1>2 DEF Archive
  <2>2. CASE d = 2
    BY <2>1, <2>2 DEF StartInv, ImportInv
  <2>3. CASE d # 2
    BY <2>1, <2>3, DatabasesAre DEF StartInv, StartupTypeOK
  <2> QED
    BY <2>1, <2>2, <2>3
<1>3. CASE UNCHANGED tables
  BY <1>3 DEF tables
<1> QED
  BY <1>1, <1>2, <1>3, DatabasesAre
  DEF StartupNext, BootStep, Boot, UpgradeStep, UpgradeEnds, StartListeners, CheckAndServe,
      BootFails, UpgradeFails, CheckFails, ServerEnded, Exits, ProcessEnds, HostStops

\* The service is there only once the import is over; what it imported is registered
\* (run.sh:22).
LEMMA FirstServer ==
    ASSUME StartInv, IdentityType, FirstInv, ServerStep
    PROVE  FirstInv'
<1>1. /\ UNCHANGED <<answered, job, built, inherited>>
      /\ tls' = Loaded /\ registry' = Imported /\ StartupNext(CredentialsLoad)
  BY DEF ServerStep, Server, install
<1>2. tls' # Missing => "manufacturing" \in up'
  BY <1>1 DEF Loaded
<1>3. registry' = registry \/ registry' = Old
  BY <1>1 DEF Imported
<1>4. job.pc \in {"own", "register"} => registry' # job.pair
  BY <1>3 DEF FirstInv, IdentityType, Pairs, Old
<1>5. inherited => legacy'[2] \/ imported'[2] = "all"
  BY <1>1, ImportGoesOn DEF FirstInv
<1>6. inherited /\ imported'[2] = "all" => registry' # Missing
  BY <1>1 DEF FirstInv, Imported, Old, Missing
<1>7. answered # {} => registry' # Missing
  BY <1>3 DEF FirstInv, Old, Missing
<1> QED
  BY <1>1, <1>2, <1>4, <1>5, <1>6, <1>7 DEF FirstInv

\* A registration is not refused only where there was none (register_device_certificate).
LEMMA FirstRegister ==
    ASSUME StartInv, IdentityType, FirstInv, Register,
           UNCHANGED <<legacy, imported, up, inherited>>
    PROVE  FirstInv'
<1>1. /\ UNCHANGED <<tls, built, inherited, legacy, imported, up>>
      /\ job.pc = "register" /\ job \in JobRecords /\ registry' = job.pair
      /\ job.pair \in Pairs
      /\ tls # Missing
  BY DEF Register, At, Trusts, IdentityType
<1>2. registry' # Missing
  BY <1>1 DEF Pairs, Missing
<1>3. CASE Goto("ota") /\ answered' = answered \cup {job.pair} /\ NotRefused(Action(job.pair))
  <2>1. registry = Missing
    BY <1>1, <1>3 DEF NotRefused, Action, FirstInv
  <2>2. answered' = {job.pair}
    BY <1>3, <2>1 DEF FirstInv
  <2>3. ~inherited
    BY <1>1, <2>1, ServesWholeInv, DatabasesAre DEF FirstInv, ServesWhole
  <2>4. job'.pc = "ota"
    BY <1>1, <1>3, GotoIs
  <2>5. \A p \in Projects : \A b \in built[p] : b.cert \in answered' /\ b.key = b.cert
    BY <1>3 DEF FirstInv
  <2> QED
    BY <1>1, <1>2, <2>2, <2>3, <2>4, <2>5 DEF FirstInv
<1>4. CASE Ends /\ UNCHANGED answered
  <2>1. job'.pc = "idle"
    BY <1>4, EndsIs
  <2> QED
    BY <1>1, <1>2, <1>4, <2>1 DEF FirstInv
<1> QED
  BY <1>3, <1>4 DEF Register

LEMMA FirstInstall ==
    ASSUME StartInv, IdentityType, FirstInv, InstallStep, ~Register,
           UNCHANGED <<legacy, imported, up, inherited>>
    PROVE  FirstInv'
<1>1. job \in JobRecords /\ UNCHANGED <<answered, tls, built>>
  BY DEF InstallStep, StartInstall, EnsureIdentity, Adopt, CreatePair, WriteOwn, FetchOta,
         LockIdentity, WriteProjectJson, InstallStops, IdentityType, service
<1>2. CASE ~InstallStops
  <2>1. registry' = registry
    BY <1>2 DEF InstallStep, StartInstall, EnsureIdentity, Adopt, CreatePair, WriteOwn,
                FetchOta, LockIdentity, WriteProjectJson, service
  <2>2. job'.pc \in {"own", "register"} => registry # job'.pair
    <3>1. CASE CreatePair
      <4>1. CASE CaWhole
        <5>1. job'.pair = Len(issuedDevice) + 1
          BY <1>1, <3>1, <4>1 DEF CreatePair, At, JobRecords
        <5> QED
          BY <5>1 DEF IdentityType
      <4>2. CASE ~CaWhole
        BY <3>1, <4>2, EndsIs DEF CreatePair
      <4> QED
        BY <4>1, <4>2
    <3>2. CASE WriteOwn
      BY <1>1, <3>2, GotoIs DEF WriteOwn, At, FirstInv
    <3>3. CASE (\E p \in Projects : StartInstall(p)) \/ WriteProjectJson
      BY <3>3, EndsIs DEF StartInstall, WriteProjectJson
    <3>4. CASE EnsureIdentity \/ Adopt \/ FetchOta \/ LockIdentity
      <4>1. Ends \/ \E pc \in {"json", "create", "adopt", "manifest"} : Goto(pc)
        BY <3>4 DEF EnsureIdentity, Adopt, FetchOta, LockIdentity
      <4>2. job.pc # "idle"
        BY <3>4 DEF EnsureIdentity, Adopt, FetchOta, LockIdentity, At
      <4> QED
        BY <1>1, <4>1, <4>2, EndsIs, GotoIs
    <3> QED
      BY <1>2, <3>1, <3>2, <3>3, <3>4 DEF InstallStep
  <2> QED
    BY <1>1, <2>1, <2>2 DEF FirstInv
<1>3. CASE InstallStops
  <2>1. job'.pc = "idle"
    BY <1>3, EndsIs DEF InstallStops
  <2>2. registry' = registry \/ (registry' = job.pair /\ job.pc = "register")
    BY <1>3 DEF InstallStops, At
  <2>3. registry # Missing => registry' # Missing
    BY <2>2 DEF IdentityType, Pairs, Missing
  <2> QED
    BY <1>1, <2>1, <2>3 DEF FirstInv
<1> QED
  BY <1>2, <1>3

\* A build goes out with an identity that is locked (prebuild_validate.py).
LEMMA FirstBuild ==
    ASSUME FirstInv, LockedIsRegistered, NEW p \in Projects, Build(p),
           UNCHANGED <<legacy, imported, up, inherited>>
    PROVE  FirstInv'
<1>1. /\ UNCHANGED <<answered, tls, registry, job>>
      /\ built' = [built EXCEPT ![p] = @ \cup {Identity(p)}] /\ Valid(p)
  BY DEF Build, service, install
<1>2. Identity(p).cert \in answered /\ Identity(p).key = Identity(p).cert
  BY <1>1 DEF Valid, LockedIsRegistered
<1>3. \A q \in Projects : \A b \in built'[q] : b \in built[q] \/ b = Identity(p)
  BY <1>1 DEF FirstInv
<1> QED
  BY <1>1, <1>2, <1>3 DEF FirstInv

WholeInv == StartInv /\ RootedType /\ InstallInv /\ FirstInv

LEMMA WholeNext == WholeInv /\ [Next]_vars => WholeInv'
<1> SUFFICES ASSUME WholeInv, [Next]_vars PROVE FirstInv'
  BY StartAlways, RootedNext, InstallNext DEF WholeInv, RootedType
<1> USE DEF WholeInv, RootedType
<1>1. CASE ServerStep
  BY <1>1, FirstServer
<1>2. ASSUME OfflineStep PROVE UNCHANGED <<legacy, imported, up, inherited>>
  BY <1>2 DEF OfflineStep, startupVars, tables
<1>3. CASE OfflineStep /\ InstallStep
  BY <1>2, <1>3, FirstRegister, FirstInstall
<1>4. CASE OfflineStep /\ ~InstallStep
  <2>1. CASE \E p \in Projects : Build(p)
    BY <1>2, <1>4, <2>1, FirstBuild DEF InstallInv
  <2>2. CASE ~\E p \in Projects : Build(p)
    <3>1. UNCHANGED <<answered, tls, registry, job, built>>
      BY <1>4, <2>2
      DEF OfflineStep, OfflineNext, ProjectStep, FileDamaged, SetupStep, SetupCa, SetupCaKey,
          IssueOta, Deploy, SetupStops, service, install
    <3> QED
      BY <1>2, <1>4, <3>1 DEF FirstInv
  <2> QED
    BY <2>1, <2>2
<1>5. CASE UNCHANGED vars
  BY <1>5 DEF vars, startupVars, tables, identityVars, service, install, FirstInv
<1> QED
  BY <1>1, <1>3, <1>4, <1>5 DEF Next

LEMMA WholeInit == Init => WholeInv
<1> SUFFICES ASSUME Init PROVE FirstInv
  BY StartInit, RootedInit, InstallInit DEF WholeInv, Init
<1> QED
  BY DatabasesAre DEF Init, StartupInit, IdentityInit, FirstInv, NoJob, Missing

\* All projects made for the device build with one identity: key and certificate of one
\* pair, which the server took as new (README.md:171, create_device_identity.py:204).
THEOREM IdentityIsOne == Spec => []OneIdentityBuilt
<1>1. WholeInv => OneIdentityBuilt
  BY DEF WholeInv, FirstInv, OneIdentityBuilt
<1> QED
  BY <1>1, WholeInit, WholeNext, PTL DEF Spec

\* A device an old database knows gets no new first identity, any other one at most
\* (run.sh:22, migrate_legacy_sqlite.py:43, manufacturing_api.py:62).
THEOREM FirstStays == Spec => []FirstIdentityStands
<1>1. ASSUME WholeInv PROVE FirstIdentityStands
  <2>1. CASE answered = {}
    BY <2>1, FS_EmptySet DEF FirstIdentityStands
  <2>2. CASE answered # {}
    <3>1. PICK n : n \in answered
      BY <2>2
    <3>2. answered = {n}
      BY <1>1, <3>1 DEF WholeInv, FirstInv
    <3>3. Cardinality(answered) = 1
      BY <3>2, FS_Singleton
    <3> QED
      BY <1>1, <2>2, <3>3 DEF WholeInv, FirstInv, FirstIdentityStands
  <2> QED
    BY <2>1, <2>2
<1> QED
  BY <1>1, WholeInit, WholeNext, PTL DEF Spec
=============================================================================
