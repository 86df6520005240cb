--------------------------- MODULE ListenerSystem ---------------------------
(***************************************************************************)
(* The provisioning listener among devices that may send anything.         *)
(*                                                                         *)
(* The devices are over-approximated: at any moment any of them sends any  *)
(* H, R or T, in any order, replayed or not, under any key.  What holds    *)
(* here holds of the server whatever the devices and the network do.       *)
(***************************************************************************)
EXTENDS ProvisioningListener

CONSTANTS
    MaxAttempts,       \* bound: challenges the server issues
    MaxCertificates    \* bound: certificates registered while it runs

ASSUME SystemBoundsAssumption == MaxAttempts \in Nat /\ MaxCertificates \in Nat

VARIABLE certificates  \* certificates registered so far

vars == <<listenerVars, faults, certificates>>

Hellos == [kind : {"H"}, counter : Counters, random : {0}, key : Keys,
           done : {FALSE}]
Responses == [kind : {"R"}, counter : Counters, random : 1..MaxAttempts,
              key : Keys, done : {FALSE}]
Controls == [kind : {"T"}, counter : {0}, random : {0}, key : {NoKey},
             done : BOOLEAN]

\* paho calls on_message for a device's state with a new frame in it.
MessageArrives(d) ==
    /\ \/ nonce <= MaxAttempts /\ \E f \in Hellos : OnHello(d, f)
       \/ \E f \in Responses : OnResponse(d, f)
       \/ \E f \in Controls : OnControl(d, f)
    /\ UNCHANGED certificates

\* The broker hands the oldest command on, towards the device.
CommandLeaves(d) ==
    /\ downlink[d] # <<>>
    /\ downlink' = [downlink EXCEPT ![d] = Tail(@)]
    /\ UNCHANGED <<sessions, job, expired, threads, certKey, helloCounter,
                   context, attempts, nonce, faults, certificates>>

TimeoutPass(old) == ExpireSessions(old) /\ UNCHANGED <<faults, certificates>>

TimeoutStep == (RecordTimeout \/ TimeoutThreadDies) /\ UNCHANGED certificates

ThreadStep(d) == JobStep(d) /\ UNCHANGED certificates

ProcessStep == (ListenerStops \/ ListenerStarts) /\ UNCHANGED certificates

Publishes(d) ==
    /\ certificates < MaxCertificates
    /\ certificates' = certificates + 1
    /\ \E k \in Keys : RegisterCertificate(d, k)

Init == ListenerInit /\ certificates = 0

Next ==
    \/ \E d \in Devices : MessageArrives(d) \/ ThreadStep(d)
                          \/ CommandLeaves(d) \/ Publishes(d)
    \/ \E old \in SUBSET Devices : TimeoutPass(old)
    \/ TimeoutStep
    \/ ProcessStep

\* The two threads run, and the pass that comes after a session has grown old
\* pops it; nobody owes the server a message, a certificate or a restart.
Fairness ==
    /\ \A d \in Devices :
          /\ WF_vars(ThreadStep(d))
          /\ SF_vars(\E old \in SUBSET Devices : d \in old /\ TimeoutPass(old))
    /\ WF_vars(TimeoutStep)

Spec == Init /\ [][Next]_vars /\ Fairness

-----------------------------------------------------------------------------
\* Every variable stays in its set.
TypeOK == ListenerTypeOK /\ certificates \in 0..MaxCertificates

\* The context of the last success is only ever replaced by that of a later
\* challenge: no replay, late T, retry, timeout or restart brings an earlier
\* attempt back (README section 6; mqtt_listener.py handle_control_state).
ContextAdvances ==
    [][\A d \in Devices :
          context'[d] # context[d] => context'[d].random > context[d].random]_vars

\* An attempt has one outcome: what the timeout thread has popped is neither
\* pending nor being completed by the MQTT thread, and was never saved.
OneOutcome ==
    \A e \in expired :
        /\ sessions[e.device].random # e.session.random
        /\ context[e.device].random # e.session.random
        /\ job[e.device].pc \in {"save", "record_done"} =>
              job[e.device].session.random # e.session.random

\* A row is COMPLETED only for the attempt whose context is now the durable
\* one (the update comes before the row, and a failed one leads to ERROR).
CompletedIsSaved ==
    [][\A d \in Devices, c \in Counters :
          attempts[d][c] # "COMPLETED" /\ attempts'[d][c] = "COMPLETED"
             => context[d].counter = c]_vars

\* A counter is good for one attempt: until another certificate is
\* registered, no HELLO is accepted whose counter already has an attempt that
\* was opened, however H frames are replayed and reordered (an ERROR row may
\* stem from a frame that was refused before).
CountersUsedOnce ==
    [][\A d \in Devices :
          certificates = 0 /\ job[d].pc = "accept" /\ job'[d].pc = "record_h"
             => attempts[d][job[d].session.counter] \in {"NONE", "ERROR"}]_vars

\* A pending session ends, by success, failure or timeout, however the device
\* behaves, as long as the timeout thread lives: the server does not stay
\* busy for a device that went away, ignoring its next H.
SessionEnds ==
    \A d \in Devices :
        sessions[d] # NoSession ~> sessions[d] = NoSession \/ threads # Threads

\* This one the code does not keep (README, section 5): the attempt's row records its
\* timeout, as README.md:423 has it.  What the MQTT thread was doing is written over it.
TimeoutStaysRecorded ==
    [][\A d \in Devices, c \in Counters :
          certificates' = 0 /\ attempts[d][c] = "TIMEOUT"
             => attempts'[d][c] = "TIMEOUT"]_vars
=============================================================================
