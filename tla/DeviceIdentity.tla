--------------------------- MODULE DeviceIdentity ---------------------------
(***************************************************************************)
(* How a device gets its identity: setup_certificates.py (offline Root CA, *)
(* certificate of the OTA server, deployment to the server), install.py    *)
(* with create_device_identity.py and adopt_existing_identity.py in the    *)
(* firmware project of one device, prebuild_validate.py in each build, and *)
(* the manufacturing service (manufacturing_api.py).                       *)
(*                                                                         *)
(* Roots, OTA key pairs and device key pairs are numbered as they are      *)
(* generated; a certificate and its key carry the number of the pair.      *)
(* issuedOta and issuedDevice keep which root signed which pair.  A file   *)
(* holds a number, Missing, or Torn when its write was cut short.          *)
(***************************************************************************)
EXTENDS Integers, Sequences, FiniteSets

CONSTANTS
    Projects,       \* working trees made for the one device
    MaxInstalls,    \* bound: runs of install.py begun
    MaxSetups,      \* bound: runs of setup_certificates.py begun
    MaxMishaps,     \* bound: programs that stop, answers lost, files damaged
    Nothing         \* no manifest

ASSUME IdentityAssumption ==
    MaxInstalls \in Nat /\ MaxSetups \in Nat /\ MaxMishaps \in Nat

Missing == 0
Torn == -1
Old == -1           \* the certificate of an old database

VARIABLES
    ca,             \* offline directory: the root's certificate and key
    setup,          \* setup_certificates.py: where it is, the pair it issued
    setups,         \* bound: runs of it so far
    issuedOta,      \* the root that signed each OTA pair
    share,          \* /share/ota_server/cert
    tls,            \* the pair the manufacturing service has loaded, or Missing
    registry,       \* device_certificates: the pair registered for the device, or Old
    issuedDevice,   \* the root that signed each device pair
    sources,        \* by project: submodule, CMake patch, converter, project.json
    files,          \* by project: device_credentials
    manifest,       \* by project: .jarzem_ota/identity.json, the SHA256s in it
    job,            \* install.py: where it is, one run at a time
    installs,       \* bound: runs of it so far
    mishaps,        \* bound: mishaps so far
    answered,       \* history: pairs whose registration was not refused
    built           \* history: by project, the identities its builds went out with

pki == <<ca, setup, setups, issuedOta, share>>
service == <<tls, registry>>
project == <<sources, files, manifest>>
install == <<issuedDevice, job, installs>>
identityVars == <<pki, service, project, install, mishaps, answered, built>>

Credentials == {"key", "cert", "root", "ota"}
NoFiles == [dir |-> FALSE, key |-> Missing, cert |-> Missing, root |-> Missing,
            ota |-> Missing]
NewProject == [submodule |-> FALSE, patches |-> 0, split |-> FALSE, json |-> FALSE]
NoJob == [pc |-> "idle"]
Identity(p) == [f \in Credentials |-> files[p][f]]

IdentityTypeOK ==
    /\ ca \in [cert : 0..MaxSetups, key : 0..MaxSetups]
    /\ setup.pc \in {"idle", "caKey", "issue", "root", "cert", "key"}
    /\ issuedOta \in Seq(1..MaxSetups) /\ Len(issuedOta) <= MaxSetups
    /\ share \in [root : 0..MaxSetups, cert : 0..MaxSetups, key : 0..MaxSetups]
    /\ tls \in 0..MaxSetups /\ registry \in -1..MaxInstalls
    /\ issuedDevice \in Seq(1..MaxSetups) /\ Len(issuedDevice) <= MaxInstalls
    /\ \A p \in Projects :
           /\ sources[p].patches \in 0..1
           /\ \A f \in Credentials : files[p][f] \in -1..(MaxInstalls + MaxSetups)
           /\ manifest[p] # Nothing =>
                  manifest[p] \in [Credentials -> -1..(MaxInstalls + MaxSetups)]
    /\ installs \in 0..MaxInstalls /\ mishaps \in 0..MaxMishaps

IdentityInit ==
    /\ ca = [cert |-> Missing, key |-> Missing]
    /\ setup = [pc |-> "idle"] /\ setups = 0 /\ issuedOta = <<>>
    /\ share = [root |-> Missing, cert |-> Missing, key |-> Missing]
    /\ tls = Missing /\ registry = Missing /\ issuedDevice = <<>>
    /\ sources = [p \in Projects |-> NewProject]
    /\ files = [p \in Projects |-> NoFiles]
    /\ manifest = [p \in Projects |-> Nothing]
    /\ job = NoJob /\ installs = 0 /\ mishaps = 0
    /\ answered = {} /\ built = [p \in Projects |-> {}]

-----------------------------------------------------------------------------
(* setup_certificates.py *)

CaWhole == ca.cert # Missing /\ ca.key # Missing

\* Mutant: --init-ca always makes a new root.
NeedsCaAlways == TRUE

\* Without --init-ca a missing file ends the run at once.
NeedsCa == ~CaWhole

\* A new root is written certificate first.
SetupCa ==
    /\ setup.pc = "idle" /\ setups < MaxSetups
    /\ setups' = setups + 1
    /\ IF NeedsCa
       THEN ca' = [ca EXCEPT !.cert = setups + 1] /\ setup' = [pc |-> "caKey"]
       ELSE ca.cert = ca.key /\ setup' = [pc |-> "issue"] /\ UNCHANGED ca
    /\ UNCHANGED <<issuedOta, share, service, project, install, mishaps, answered, built>>

SetupCaKey ==
    /\ setup.pc = "caKey"
    /\ ca' = [ca EXCEPT !.key = ca.cert]
    /\ setup' = [pc |-> "issue"]
    /\ UNCHANGED <<setups, issuedOta, share, service, project, install, mishaps, answered, built>>

\* A new pair for the server in every run, in files the next run writes over.
IssueOta ==
    /\ setup.pc = "issue"
    /\ issuedOta' = Append(issuedOta, ca.cert)
    /\ setup' = [pc |-> "root", root |-> ca.cert, ota |-> Len(issuedOta) + 1]
    /\ UNCHANGED <<ca, setups, share, service, project, install, mishaps, answered, built>>

AfterCopy == [root |-> "cert", cert |-> "key", key |-> "idle"]

\* scp, one file after the other.  The fourth, the public key, the server never reads.
Deploy ==
    /\ setup.pc \in DOMAIN AfterCopy
    /\ share' = [share EXCEPT ![setup.pc] = IF setup.pc = "root" THEN setup.root ELSE setup.ota]
    /\ setup' = IF setup.pc = "key" THEN [pc |-> "idle"]
                ELSE [setup EXCEPT !.pc = AfterCopy[setup.pc]]
    /\ UNCHANGED <<ca, setups, issuedOta, service, project, install, mishaps, answered, built>>

-----------------------------------------------------------------------------
(* The manufacturing service *)

\* All credentials are there, and the key is that of the certificate.
CredentialsLoad ==
    share.root # Missing /\ share.cert # Missing /\ share.cert = share.key

\* The client trusts the service under the root of its project.
Trusts(p) == tls # Missing /\ issuedOta[tls] = files[p].root

\* register_device_certificate: signed by the root the server has.
Accepts(n) == issuedDevice[n] = share.root
Action(n) ==
    IF registry = Missing THEN "REGISTERED" ELSE IF registry = n THEN "UNCHANGED" ELSE "REPLACED"

-----------------------------------------------------------------------------
(* install.py *)

At(pc) == job.pc = pc
Goto(pc) == job' = [job EXCEPT !.pc = pc]
Ends == job' = NoJob

\* Mutant: the marker is not looked for.
PatchAgain(s) == [s EXCEPT !.submodule = TRUE, !.patches = @ + 1, !.split = TRUE]

\* ensure_submodule, patch_cmake, ensure_project_component_dependency and
\* ensure_project_converter each do nothing where their mark is already there.
Patch(s) == [s EXCEPT !.submodule = TRUE, !.patches = 1, !.split = TRUE]

StartInstall(p) ==
    /\ At("idle") /\ installs < MaxInstalls
    /\ installs' = installs + 1
    /\ job' = [pc |-> "identity", project |-> p, pair |-> Missing]
    /\ sources' = [sources EXCEPT ![p] = Patch(@)]
    /\ UNCHANGED <<pki, service, files, manifest, issuedDevice, mishaps, answered, built>>

\* Mutant: only the manifest counts as an identity.
IdentityAbsentByManifest(p) == manifest[p] = Nothing

\* assert_identity_absent
IdentityAbsent(p) == manifest[p] = Nothing /\ ~files[p].dir

\* ensure_identity
EnsureIdentity ==
    /\ At("identity")
    /\ LET p == job.project IN
       IF manifest[p] # Nothing THEN IF files[p].dir THEN Goto("json") ELSE Ends
       ELSE IF IdentityAbsent(p) THEN Goto("create") ELSE Goto("adopt")
    /\ UNCHANGED <<pki, service, project, issuedDevice, installs, mishaps, answered, built>>

\* Mutant: the server's certificate is not asked for.
AdoptableKeys(p) ==
    LET f == files[p] IN
    /\ \A c \in {"key", "cert", "root"} : f[c] \notin {Missing, Torn}
    /\ f.key = f.cert

\* The whole identity is read before it is locked: certificate, key and root can be
\* parsed, the key is the certificate's.  Of the root only the name is compared, which
\* all roots of an ecosystem share; the server's certificate need only be there.
Adoptable(p) ==
    LET f == files[p] IN
    /\ \A c \in Credentials : f[c] # Missing
    /\ \A c \in {"key", "cert", "root"} : f[c] # Torn
    /\ f.key = f.cert

Adopt ==
    /\ At("adopt")
    /\ LET p == job.project IN
       IF manifest[p] # Nothing THEN Goto("json") /\ UNCHANGED manifest
       ELSE IF Adoptable(p)
       THEN manifest' = [manifest EXCEPT ![p] = Identity(p)] /\ Goto("json")
       ELSE UNCHANGED manifest /\ Ends
    /\ UNCHANGED <<pki, service, sources, files, issuedDevice, installs, mishaps, answered, built>>

\* load_ca, make_device_certificate, and the directory.
CreatePair ==
    /\ At("create")
    /\ LET p == job.project IN
       IF CaWhole   \* and the directory is not there: IdentityAbsent
       THEN /\ issuedDevice' = Append(issuedDevice, ca.cert)
            /\ files' = [files EXCEPT ![p].dir = TRUE]
            /\ job' = [job EXCEPT !.pc = "own", !.pair = Len(issuedDevice) + 1]
       ELSE Ends /\ UNCHANGED <<issuedDevice, files>>
    /\ UNCHANGED <<pki, service, sources, manifest, installs, mishaps, answered, built>>

\* The first n of certificate, key and root are written, and the next one is `next'.
Own == <<"cert", "key", "root">>
Written(p, n, next) == [files EXCEPT ![p] = [f \in DOMAIN @ |->
    CASE \E k \in 1..n : Own[k] = f -> IF f = "root" THEN issuedDevice[job.pair] ELSE job.pair
      [] n < 3 /\ f = Own[n + 1] -> next
      [] OTHER -> @[f]]]

WriteOwn ==
    /\ At("own")
    /\ files' = Written(job.project, 3, Missing)
    /\ Goto("register")
    /\ UNCHANGED <<pki, service, sources, manifest, issuedDevice, installs, mishaps, answered, built>>

\* ota_get: the file as the service finds it on the disk, not the one it has loaded.
FetchOta ==
    /\ At("ota") /\ Trusts(job.project)
    /\ files' = [files EXCEPT ![job.project].ota = share.cert]
    /\ Goto("manifest")
    /\ UNCHANGED <<pki, service, sources, manifest, issuedDevice, installs, mishaps, answered, built>>

\* Mutant: an answer REPLACED is as good.
NotRefusedEver(action) == TRUE

NotRefused(action) == action \in {"REGISTERED", "UNCHANGED"}

\* register_with_ota: the service has stored the certificate by the time the
\* installer sees that it replaced another one.
Register ==
    /\ At("register") /\ Trusts(job.project) /\ Accepts(job.pair)
    /\ registry' = job.pair
    /\ IF NotRefused(Action(job.pair))
       THEN Goto("ota") /\ answered' = answered \cup {job.pair}
       ELSE Ends /\ UNCHANGED answered
    /\ UNCHANGED <<pki, tls, project, issuedDevice, installs, mishaps, built>>

LockIdentity ==
    /\ At("manifest")
    /\ manifest' = [manifest EXCEPT ![job.project] = Identity(job.project)]
    /\ Goto("json")
    /\ UNCHANGED <<pki, service, sources, files, issuedDevice, installs, mishaps, answered, built>>

\* ensure_project_manifest
WriteProjectJson ==
    /\ At("json")
    /\ sources' = [sources EXCEPT ![job.project].json = TRUE]
    /\ Ends
    /\ UNCHANGED <<pki, service, files, manifest, issuedDevice, installs, mishaps, answered, built>>

\* prebuild_validate.validate_identity
Valid(p) == manifest[p] # Nothing /\ Identity(p) = manifest[p]

Build(p) ==
    /\ Valid(p)
    /\ built' = [built EXCEPT ![p] = @ \cup {Identity(p)}]
    /\ UNCHANGED <<pki, service, project, install, mishaps, answered>>

-----------------------------------------------------------------------------
(* Mishaps *)

Mishap == mishaps < MaxMishaps /\ mishaps' = mishaps + 1

\* The set-up stops where it is.
SetupStops ==
    /\ setup.pc # "idle" /\ Mishap
    /\ setup' = [pc |-> "idle"]
    /\ UNCHANGED <<ca, setups, issuedOta, share, service, project, install, answered, built>>

\* An installer stops, in a write or between two; or the service cannot be reached,
\* refuses, or its answer is lost, before or after it stored the certificate.
InstallStops ==
    /\ job.pc # "idle" /\ Mishap
    /\ Ends
    /\ files' \in CASE At("own") -> {Written(job.project, n, next) : n \in 0..2, next \in {Missing, Torn}}
                    [] At("ota") -> {files, [files EXCEPT ![job.project].ota = Torn]}
                    [] OTHER -> {files}
    /\ registry' \in IF At("register") /\ Trusts(job.project) /\ Accepts(job.pair)
                     THEN {registry, job.pair} ELSE {registry}
    /\ UNCHANGED <<pki, tls, sources, manifest, issuedDevice, installs, answered, built>>

\* A file of an installed identity is edited, or a checkout brings another one.
FileDamaged(p, f) ==
    /\ manifest[p] # Nothing /\ Mishap
    /\ job.pc # "idle" => job.project # p
    /\ files' = [files EXCEPT ![p][f] = Torn]
    /\ UNCHANGED <<pki, service, sources, manifest, install, answered, built>>

SetupStep == SetupCa \/ SetupCaKey \/ IssueOta \/ Deploy \/ SetupStops
InstallStep ==
    \/ \E p \in Projects : StartInstall(p)
    \/ EnsureIdentity \/ Adopt \/ CreatePair \/ WriteOwn \/ FetchOta
    \/ Register \/ LockIdentity \/ WriteProjectJson \/ InstallStops
ProjectStep ==
    \E p \in Projects : Build(p) \/ \E f \in {"key", "ota"} : FileDamaged(p, f)

OfflineNext == SetupStep \/ ProjectStep \/ InstallStep

-----------------------------------------------------------------------------
(* Properties *)

\* All projects made for the device, however often the installer was run and stopped in
\* them, build with one identity: key and certificate
\* of one pair, which the server took as new (README.md:171,
\* create_device_identity.py:204).
OneIdentityBuilt ==
    \A p, q \in Projects : \A b \in built[p], c \in built[q] :
        b.key = c.key /\ b.cert = c.cert /\ b.key = b.cert /\ b.cert \in answered

\* An identity is locked only with key, certificate and root that belong together and
\* after the server had registered it, also when an installer adopts what another run
\* left (create_device_identity.py:211, adopt_existing_identity.py:119).
LockedIsRegistered ==
    \A p \in Projects : manifest[p] # Nothing =>
        LET m == manifest[p] IN
        m.cert \in answered /\ m.key = m.cert /\ m.root = issuedDevice[m.cert]

\* Every certificate there is was signed by the one root: a set-up that is run again,
\* with --init-ca or after a stop, never puts issued certificates under a root that has
\* gone (setup_certificates.py:84).
OneRoot ==
    \A n \in 1..Len(issuedDevice) : issuedDevice[n] = ca.key /\ ca.cert = ca.key

\* A key once written in a project is never written over by a program, and what the
\* manifest locks never changes (create_device_identity.py:55).
IdentityKept ==
    [][\A p \in Projects :
        /\ files[p].key > 0 => files'[p].key \in {files[p].key, Torn}
        /\ manifest[p] # Nothing => manifest'[p] = manifest[p]]_identityVars

\* This one the code does not keep (README, section 5): what is registered stays
\* registered when the answer arrives, as the message of create_device_identity.py:206 has it.
RefusedIsNotReplaced ==
    [][registry # Missing /\ mishaps' = mishaps => registry' = registry]_identityVars
=============================================================================
