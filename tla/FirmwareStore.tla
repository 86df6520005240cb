--------------------------- MODULE FirmwareStore ---------------------------
(***************************************************************************)
(* One firmware file of the server: the BIN in the firmware directory, its *)
(* release metadata beside it and the row of firmware_images that lists it *)
(* (firmware_publish.py handle_publish, server.py scan_firmware_images).   *)
(*                                                                         *)
(* Publishing replaces the two files one after the other.  A scan, which   *)
(* every page of the UI and every dispatch begins with, hashes the BIN,    *)
(* then reads the version from the metadata, then updates the row.  A build*)
(* is its number; its content, SHA256 and version are told apart by it.    *)
(***************************************************************************)
EXTENDS Integers

CONSTANTS
    MaxBuild,      \* the builds are 1..MaxBuild
    FirstBuild,    \* the build published when the system starts
    MaxPublishes   \* bound: builds published while it runs

Builds == 1..MaxBuild

ASSUME StoreAssumption == FirstBuild \in Builds /\ MaxPublishes \in Nat

VARIABLES
    bin,         \* the build in <name>.bin
    release,     \* the version in <name>.release.json
    listed,      \* the row of firmware_images
    publishing,  \* the publish request: its step and its build
    scanning,    \* scans under way: one for a UI page, one for a dispatch
    publishes    \* builds published so far

storeVars == <<bin, release, listed, publishing, scanning, publishes>>

\* sha256 and version of a row or of an offer.
Offer == [image : 0..MaxBuild, version : 0..MaxBuild]
NoOffer == [image |-> 0, version |-> 0]

Scanners == {"page", "send"}
NoScan == [pc |-> "idle", found |-> NoOffer]
NoPublish == [pc |-> "idle", build |-> FirstBuild]

\* A build is received, authenticated and its metadata written aside.
PublishBegins(b) ==
    /\ publishing.pc = "idle" /\ publishes < MaxPublishes
    /\ publishing' = [pc |-> "bin", build |-> b]
    /\ publishes' = publishes + 1
    /\ UNCHANGED <<bin, release, listed, scanning>>

PublishBin ==
    /\ publishing.pc = "bin"
    /\ bin' = publishing.build
    /\ publishing' = [publishing EXCEPT !.pc = "release"]
    /\ UNCHANGED <<release, listed, scanning, publishes>>

PublishRelease ==
    /\ publishing.pc = "release"
    /\ release' = publishing.build
    /\ publishing' = NoPublish
    /\ UNCHANGED <<bin, listed, scanning, publishes>>

ScanHashes(s) ==
    /\ scanning[s].pc = "idle"
    /\ scanning' = [scanning EXCEPT ![s] =
           [pc |-> "read", found |-> [image |-> bin, version |-> 0]]]
    /\ UNCHANGED <<bin, release, listed, publishing, publishes>>

\* The metadata's version is taken even if its SHA256 is of another BIN.
ScanReads(s) ==
    /\ scanning[s].pc = "read"
    /\ scanning' = [scanning EXCEPT ![s].pc = "list",
                                    ![s].found.version = release]
    /\ UNCHANGED <<bin, release, listed, publishing, publishes>>

\* A dispatch goes on from its scan; a page is done.
ScanLists(s) ==
    /\ scanning[s].pc = "list"
    /\ listed' = scanning[s].found
    /\ scanning' = [scanning EXCEPT ![s] =
           [NoScan EXCEPT !.pc = IF s = "send" THEN "listed" ELSE "idle"]]
    /\ UNCHANGED <<bin, release, publishing, publishes>>

\* The process ends where it is.
StoreStops ==
    /\ publishing' = NoPublish
    /\ scanning' = [s \in Scanners |-> NoScan]
    /\ UNCHANGED <<bin, release, listed, publishes>>

StoreTypeOK ==
    /\ bin \in Builds /\ release \in Builds /\ listed \in Offer
    /\ publishing \in [pc : {"idle", "bin", "release"}, build : Builds]
    /\ scanning \in [Scanners -> [pc : {"idle", "read", "list", "listed"},
                                  found : Offer]]
    /\ publishes \in 0..MaxPublishes

StoreInit ==
    /\ bin = FirstBuild /\ release = FirstBuild
    /\ listed = [image |-> FirstBuild, version |-> FirstBuild]
    /\ publishing = NoPublish
    /\ scanning = [s \in Scanners |-> NoScan]
    /\ publishes = 0

PublishStep == PublishBin \/ PublishRelease
ScanStep(s) == ScanReads(s) \/ ScanLists(s)
=============================================================================
