--------------------------- MODULE Manufacturing ---------------------------
(***************************************************************************)
(* The server's start and the making of device identities together: the    *)
(* manufacturing service is one of the processes of run.sh, its            *)
(* certificate is what setup_certificates.py has deployed, its registry is *)
(* the table the old databases are imported into.                          *)
(***************************************************************************)
EXTENDS ServerStartup, DeviceIdentity

VARIABLE inherited     \* history: an old database held a row of the device

vars == <<startupVars, identityVars, inherited>>

Init ==
    /\ StartupInit /\ IdentityInit
    /\ inherited = legacy[2]

\* The process loads the certificate as it starts and keeps it.
Loaded ==
    IF "manufacturing" \notin up' THEN Missing
    ELSE IF "manufacturing" \in up THEN tls ELSE share.cert

\* INSERT IGNORE into device_certificates.
Imported ==
    IF imported[2] # "all" /\ imported'[2] = "all" /\ registry = Missing THEN Old ELSE registry

Server(step) ==
    /\ step
    /\ tls' = Loaded /\ registry' = Imported
    /\ UNCHANGED <<pki, project, install, mishaps, answered, built, inherited>>

ServerStep == Server(StartupNext(CredentialsLoad))
OfflineStep == OfflineNext /\ UNCHANGED <<startupVars, inherited>>

Next == ServerStep \/ OfflineStep

Spec == Init /\ [][Next]_vars
FairSpec ==
    /\ Spec
    /\ WF_vars(Server(BootStep(CredentialsLoad)))
    /\ WF_vars(Server(BootFails))

TypeOK == StartupTypeOK /\ IdentityTypeOK

\* The service registers only after the import: a device that an old database knows
\* keeps its identity in that no new one is ever taken as its first; any other device
\* gets one at most (run.sh:22, migrate_legacy_sqlite.py:43, manufacturing_api.py:62).
FirstIdentityStands == Cardinality(answered) <= IF inherited THEN 0 ELSE 1

\* However often it is stopped, the server is up again in the end, over what the stops
\* left of an import, once its certificate is deployed whole; a revision cut short is the
\* one thing no boot gets past (run.sh:18, migrate_legacy_sqlite.py:43).
ServerComesBack ==
    \/ <>[]("server" \in up)
    \/ <>[]PartialRevision
    \/ <>[]~CredentialsLoad
=============================================================================
