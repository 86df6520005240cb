--------------------------- MODULE ServerStartup ---------------------------
(***************************************************************************)
(* run.sh: the Alembic upgrade, the import of the old SQLite databases,    *)
(* the background processes, the check after two seconds, the HTTP server  *)
(* whose end ends all.  `set -e': a step that fails ends the run, and the  *)
(* next boot begins again at the top with what MySQL and the disk hold.    *)
(*                                                                         *)
(* MySQL commits every DDL statement by itself; the revision is stamped in *)
(* a transaction of its own after the last one.  Of the statements of a    *)
(* revision the model keeps whether none, some or all have run.  The       *)
(* tables of an old database are imported one transaction each; the model  *)
(* keeps whether none, some or all have been.                              *)
(***************************************************************************)
EXTENDS Integers

CONSTANTS
    FirstVersion,    \* the revision an older release has left MySQL at, or 0
    MaxFaults        \* bound: crashes, ends of processes, restarts

ASSUME StartupAssumption == FirstVersion \in 0..5 /\ MaxFaults \in Nat

Revisions == 1..5
Databases == <<"ota_server", "device_registry">>
Listeners == {"mqtt", "status", "observer"}
Progress == {"none", "some", "all"}

VARIABLES
    objects,      \* what each revision creates: how much of it MySQL has
    version,      \* ota_server_alembic_version, 0 if there is none
    legacy,       \* by database: whether the SQLite file is there
    imported,     \* by database: how much of it MySQL has
    boot,         \* where run.sh is: at, which revision or database, how far
    up,           \* the processes that run
    faults        \* bound: faults so far

schema == <<objects, version>>
tables == <<legacy, imported>>
startupVars == <<schema, tables, boot, up, faults>>

Off == [at |-> "off", step |-> 0, done |-> "none"]
Stage(at) == [at |-> at, step |-> 1, done |-> "none"]

StartupTypeOK ==
    /\ objects \in [Revisions -> Progress] /\ version \in 0..5
    /\ legacy \in [DOMAIN Databases -> BOOLEAN] /\ imported \in [DOMAIN Databases -> Progress]
    /\ boot \in [at : {"off", "upgrade", "import", "start", "check", "serve"},
                 step : 0..5, done : Progress]
    /\ up \subseteq Listeners \cup {"manufacturing", "server"}
    /\ faults \in 0..MaxFaults

\* A new installation, or one of the time of SQLite.
StartupInit ==
    /\ objects = [r \in Revisions |-> IF r <= FirstVersion THEN "all" ELSE "none"]
    /\ version = FirstVersion
    /\ legacy \in [DOMAIN Databases -> BOOLEAN] /\ imported = [d \in DOMAIN Databases |-> "none"]
    /\ boot = Off /\ up = {} /\ faults = 0

-----------------------------------------------------------------------------
(* alembic upgrade head *)

Upgraded == version = 5

Boot ==
    /\ boot.at = "off"
    /\ boot' = Stage("upgrade")
    /\ UNCHANGED <<schema, tables, up, faults>>

\* run.sh ends: set -e, or exit 1.
Exits ==
    /\ boot' = Off /\ up' = {}
    /\ UNCHANGED <<schema, tables, faults>>

\* The first object of the next revision is there already, left by a run that did
\* not come to stamp it: CREATE TABLE or ADD COLUMN fails.
UpgradeFails ==
    /\ boot.at = "upgrade" /\ ~Upgraded
    /\ boot.done = "none" /\ objects[version + 1] # "none"
    /\ Exits

Executes(r) ==
    /\ \/ boot.done = "none" /\ objects[r] = "none" /\ objects' = [objects EXCEPT ![r] = "some"]
       \/ boot.done = "some" /\ objects' = [objects EXCEPT ![r] = "all"]
    /\ UNCHANGED version

\* Mutant: stamped before the last statement.
StampsEarly(r) ==
    /\ boot.done = "some"
    /\ version' = r
    /\ UNCHANGED objects

\* The revision is stamped once all its statements have run.
Stamps(r) ==
    /\ boot.done = "all"
    /\ version' = r
    /\ UNCHANGED objects

\* upgrade() of the revision after the current one.
UpgradeStep ==
    /\ boot.at = "upgrade" /\ ~Upgraded
    /\ \/ Executes(version + 1) /\ boot' = [boot EXCEPT !.done = objects'[version + 1]]
       \/ Stamps(version + 1) /\ boot' = [boot EXCEPT !.done = "none"]
    /\ UNCHANGED <<tables, up, faults>>

\* Mutant: the import is left out.
UpgradeEndsWithoutImport ==
    /\ boot.at = "upgrade" /\ Upgraded
    /\ boot' = Stage("start")
    /\ UNCHANGED <<schema, tables, up, faults>>

UpgradeEnds ==
    /\ boot.at = "upgrade" /\ Upgraded
    /\ boot' = Stage("import")
    /\ UNCHANGED <<schema, tables, up, faults>>

-----------------------------------------------------------------------------
(* migrate_legacy_sqlite.py *)

\* Mutant: INSERT instead of INSERT IGNORE fails on a row that is there.
InsertsNew(d) == imported[d] = "none" \/ boot.done = imported[d]

\* INSERT IGNORE: a row that is there already stays as it is.
Inserts(d) == TRUE

AtLeast(have, done) == IF have = "all" THEN "all" ELSE done

ImportTables(d) ==
    /\ boot.at = "import" /\ boot.step = d /\ legacy[d]
    /\ Inserts(d)
    /\ \E done \in Progress :
           /\ \/ boot.done = "none" /\ done = "some"
              \/ boot.done = "some" /\ done = "all"
           /\ boot' = [boot EXCEPT !.done = done]
           /\ imported' = [imported EXCEPT ![d] = AtLeast(@, done)]
    /\ UNCHANGED <<schema, legacy, up, faults>>

\* os.replace to *.migrated; a database that is not there is passed over.
Archive(d) ==
    /\ boot.at = "import" /\ boot.step = d
    /\ boot.done = "all" \/ ~legacy[d]
    /\ legacy' = [legacy EXCEPT ![d] = FALSE]
    /\ boot' = IF d = 2 THEN Stage("start") ELSE [Stage("import") EXCEPT !.step = d + 1]
    /\ UNCHANGED <<schema, imported, up, faults>>

-----------------------------------------------------------------------------
(* The processes *)

\* assert_schema_current, in the manufacturing service and the HTTP server
SchemaCurrent == version = 5

\* Four in the background; none is waited for.  `ready': the certificate and the key
\* load, without which the manufacturing service and the HTTP server end at once.
StartListeners(ready) ==
    /\ boot.at = "start"
    /\ up' = Listeners \cup IF ready /\ SchemaCurrent THEN {"manufacturing"} ELSE {}
    /\ boot' = Stage("check")
    /\ UNCHANGED <<schema, tables, faults>>

\* After two seconds: the three MQTT processes must be there, the manufacturing
\* service is not looked for.
CheckAndServe(ready) ==
    /\ boot.at = "check" /\ Listeners \subseteq up
    /\ boot' = Stage("serve")
    /\ up' = IF ready /\ SchemaCurrent THEN up \cup {"server"} ELSE up
    /\ UNCHANGED <<schema, tables, faults>>

CheckFails ==
    /\ boot.at = "check" /\ ~(Listeners \subseteq up)
    /\ Exits

ServerEnded ==
    /\ boot.at = "serve" /\ "server" \notin up
    /\ Exits

\* An exception nobody catches, the broker away at the start, a missing credential.
ProcessEnds(p) ==
    /\ p \in up /\ faults < MaxFaults
    /\ up' = up \ {p} /\ faults' = faults + 1
    /\ UNCHANGED <<schema, tables, boot>>

\* The host, the Supervisor or the power: at any moment.
HostStops ==
    /\ boot.at # "off" /\ faults < MaxFaults
    /\ boot' = Off /\ up' = {} /\ faults' = faults + 1
    /\ UNCHANGED <<schema, tables>>

BootStep(ready) ==
    \/ Boot \/ UpgradeStep \/ UpgradeEnds
    \/ \E d \in DOMAIN Databases : ImportTables(d) \/ Archive(d)
    \/ StartListeners(ready) \/ CheckAndServe(ready)

BootFails == UpgradeFails \/ CheckFails \/ ServerEnded

StartupNext(ready) ==
    \/ BootStep(ready) \/ BootFails
    \/ \E p \in Listeners \cup {"manufacturing", "server"} : ProcessEnds(p)
    \/ HostStops

-----------------------------------------------------------------------------
(* Properties *)

\* Whatever stop came at whatever moment: a process of the server runs only on a
\* schema with every object of every revision, and with every row of the old databases
\* imported and their files set aside (run.sh:18, migrate_legacy_sqlite.py:78).
ServesWhole ==
    up # {} =>
        /\ \A r \in Revisions : objects[r] = "all"
        /\ \A d \in DOMAIN Databases : ~legacy[d] /\ imported[d] # "some"

\* A stop inside a revision leaves objects no boot gets past.
PartialRevision == version < 5 /\ objects[version + 1] # "none"
=============================================================================
