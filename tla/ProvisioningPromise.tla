------------------------ MODULE ProvisioningPromise ------------------------
(***************************************************************************)
(* What provisioning promises, whatever happens on the way.  Once the      *)
(* server has offered a newer attempt, neither side takes up an older one: *)
(* the device installs a configuration only of the attempt offered last,   *)
(* and the server takes only that one for its durable OTA CHECK context.   *)
(* And unless Enable OTA is switched off while the attempt is under way,   *)
(* it does so only when the device has installed it (README section 6:     *)
(* "Only then does the OTA server replace its durable successful counter + *)
(* random context").                                                       *)
(***************************************************************************)
EXTENDS Integers

VARIABLES
    offered,    \* the last attempt challenged: its place among all challenges
    kept,       \* Enable OTA has not been switched off since
    installed,  \* the attempt whose configuration the device holds
    confirmed   \* the attempt whose context the server holds

promiseVars == <<offered, kept, installed, confirmed>>

\* `random` stands for the place of the challenge, from 1 on.
Attempts == [counter : Nat, random : Nat]
None == [counter |-> 0, random |-> 0]

Init ==
    /\ offered = 0 /\ kept = TRUE
    /\ installed = None /\ confirmed = None

Offer ==
    /\ offered' = offered + 1
    /\ kept' = TRUE
    /\ UNCHANGED <<installed, confirmed>>

SwitchOff ==
    /\ kept' = FALSE
    /\ UNCHANGED <<offered, installed, confirmed>>

Install ==
    /\ installed' \in Attempts
    /\ installed.random < offered /\ installed'.random = offered
    /\ UNCHANGED <<offered, kept, confirmed>>

Confirm ==
    /\ confirmed' \in Attempts
    /\ confirmed.random < offered /\ confirmed'.random = offered
    /\ kept => confirmed' = installed
    /\ UNCHANGED <<offered, kept, installed>>

Next == Offer \/ SwitchOff \/ Install \/ Confirm

Spec == Init /\ [][Next]_promiseVars
=============================================================================
