------------------------ MODULE ProvisioningListener ------------------------
(***************************************************************************)
(* The server half of the provisioning handshake: mqtt_listener.py with    *)
(* the rows it keeps through device_registry.py, activity.py and           *)
(* ota_check_security.py.                                                  *)
(*                                                                         *)
(* Two threads share pending_sessions under pending_lock: the MQTT thread, *)
(* which handles one frame at a time (on_message), and the timeout thread  *)
(* (session_timeout_loop).  A step of the model is what one thread does    *)
(* between two points where the other can run: one critical section, one   *)
(* database transaction (every `with db_connect()` block commits on its    *)
(* own) or one MQTT publish.  Firmware publishing, in another process,     *)
(* replaces device certificates at any moment.                             *)
(*                                                                         *)
(* A signature is its signer's key together with the values it covers.     *)
(***************************************************************************)
EXTENDS Integers, Sequences

CONSTANTS
    Devices,     \* Zigbee devices, by normalized IEEE id
    Keys,        \* device key pairs that certificates are issued for
    NoKey,       \* no certificate is registered
    MaxCounter,  \* MAX_COUNTER of the code, and of the HELLO counters
    MaxFaults    \* bound: failures (database, broker, process, network)

ASSUME DevicesAssumption == Devices # {}
ASSUME KeysAssumption == Keys # {} /\ NoKey \notin Keys
ASSUME BoundsAssumption == MaxCounter \in Nat \ {0} /\ MaxFaults \in Nat

Counters == 1..MaxCounter

VARIABLES
    sessions,      \* pending_sessions, with an "IDLE" entry where it has none
    job,           \* what the MQTT thread is doing, entered under the device
    expired,       \* sessions the timeout thread popped and has yet to record
    threads,       \* threads of the listener process that are alive
    certKey,       \* device_certificates.public_key_der
    helloCounter,  \* device_certificates.last_hello_counter
    context,       \* device_certificates.provision_counter / provision_random
    attempts,      \* provisioning_attempts.state, by device and counter
    nonce,         \* os.urandom(8): the next value, never used before
    downlink,      \* commands published to the device, oldest first
    faults         \* failures so far

listenerVars == <<sessions, job, expired, threads, certKey, helloCounter,
                  context, attempts, nonce, downlink>>

Threads == {"mqtt", "timeout"}

SessionStates == {"IDLE", "WAIT_RESPONSE", "PROVISIONING_SENT"}

Session == [counter : 0..MaxCounter, random : Nat, key : Keys \cup {NoKey},
            state : SessionStates]

NoSession == [counter |-> 0, random |-> 0, key |-> NoKey, state |-> "IDLE"]

RowStates == {"NONE", "HELLO_SEEN", "CHALLENGE_SENT", "RESPONSE_SEEN",
              "PROVISIONING_SENT", "COMPLETED", "TIMEOUT", "ERROR"}

JobPcs == {"idle", "accept", "record_h", "open", "send_a", "record_a",
           "record_r", "recheck", "send_p", "record_p",
           "save", "record_done", "failed", "record_error"}

Job == [pc : JobPcs, session : Session]
IdleJob == [pc |-> "idle", session |-> NoSession]

Context == [counter : 0..MaxCounter, random : Nat]
NoContext == [counter |-> 0, random |-> 0]

\* H|counter|signature, R|signature (over counter and challenge random) and
\* T|enable|status; `done` is T|0|42, the only T handle_control_state acts on.
Frame == [kind : {"H", "R", "T"}, counter : 0..MaxCounter, random : Nat,
          key : Keys \cup {NoKey}, done : BOOLEAN]

\* A|random|signature over the counter too; P|ciphertext under the session
\* key derived from the device's key, the counter and the random.
Command == [kind : {"A", "P"}, counter : 0..MaxCounter, random : Nat,
            key : Keys \cup {NoKey}]

\* The session object `s` is the one pending for d (Python's `is`).
Pending(d, s) ==
    /\ sessions[d].state # "IDLE"
    /\ sessions[d].random = s.random
    /\ sessions[d].counter = s.counter

ThreadFree == "mqtt" \in threads /\ \A d \in Devices : job[d].pc = "idle"
At(d, pc) == "mqtt" \in threads /\ job[d].pc = pc
Goto(d, pc, s) == job' = [job EXCEPT ![d] = [pc |-> pc, session |-> s]]
Return(d) == job' = [job EXCEPT ![d] = IdleJob]

\* provisioning_state(device_id, counter, state): a blind upsert.
Record(d, c, state) == attempts' = [attempts EXCEPT ![d][c] = state]

Publish(d, kind, s) ==
    downlink' = [downlink EXCEPT ![d] = Append(@,
        [kind |-> kind, counter |-> s.counter, random |-> s.random,
         key |-> s.key])]

Fault == faults < MaxFaults /\ faults' = faults + 1

-----------------------------------------------------------------------------
(* H: a new authenticated attempt *)

\* A session is pending: the frame is dropped whatever its counter.
HelloIgnored(d, f) ==
    /\ sessions[d] # NoSession
    /\ UNCHANGED <<listenerVars, faults>>

\* No certificate, or one that does not verify the signature (a certificate
\* out of its validity period or of another ecosystem is as good as none).
HelloRejected(d, f) ==
    /\ sessions[d] = NoSession
    /\ f.key # certKey[d]
    /\ Record(d, f.counter, "ERROR")
    /\ UNCHANGED <<sessions, job, expired, threads, certKey, helloCounter,
                   context, nonce, downlink, faults>>

\* get_registered_device reads the certificate in a transaction of its own;
\* the counter is compared in the next one.
HelloVerified(d, f) ==
    /\ sessions[d] = NoSession
    /\ f.key = certKey[d]
    /\ Goto(d, "accept", [NoSession EXCEPT !.counter = f.counter,
                                           !.key = f.key])
    /\ UNCHANGED <<sessions, expired, threads, certKey, helloCounter, context,
                   attempts, nonce, downlink, faults>>

OnHello(d, f) ==
    /\ ThreadFree
    /\ f.kind = "H" /\ f.counter \in Counters
    /\ \/ HelloIgnored(d, f)
       \/ HelloRejected(d, f)
       \/ HelloVerified(d, f)

\* Mutant: the counter of the last HELLO is good once more.
HelloAcceptedAgain(d) ==
    /\ At(d, "accept")
    /\ job[d].session.counter >= helloCounter[d]
    /\ helloCounter' = [helloCounter EXCEPT ![d] = job[d].session.counter]
    /\ Goto(d, "record_h", job[d].session)
    /\ UNCHANGED <<sessions, expired, threads, certKey, context, attempts,
                   nonce, downlink, faults>>

\* accept_hello_counter: one conditional UPDATE of the certificate's row.
HelloAccepted(d) ==
    /\ At(d, "accept")
    /\ job[d].session.counter > helloCounter[d]
    /\ helloCounter' = [helloCounter EXCEPT ![d] = job[d].session.counter]
    /\ Goto(d, "record_h", job[d].session)
    /\ UNCHANGED <<sessions, expired, threads, certKey, context, attempts,
                   nonce, downlink, faults>>

\* A replayed or older counter.
HelloStale(d) ==
    /\ At(d, "accept")
    /\ job[d].session.counter <= helloCounter[d]
    /\ Return(d)
    /\ UNCHANGED <<sessions, expired, threads, certKey, helloCounter, context,
                   attempts, nonce, downlink, faults>>

RecordHello(d) ==
    /\ At(d, "record_h")
    /\ Record(d, job[d].session.counter, "HELLO_SEEN")
    /\ Goto(d, "open", job[d].session)
    /\ UNCHANGED <<sessions, expired, threads, certKey, helloCounter, context,
                   nonce, downlink, faults>>

\* Mutant: every challenge has the same random.
OpenSessionSameRandom(d) ==
    /\ At(d, "open")
    /\ LET s == [job[d].session EXCEPT !.random = nonce,
                                       !.state = "WAIT_RESPONSE"]
       IN /\ sessions' = [sessions EXCEPT ![d] = s]
          /\ Goto(d, "send_a", s)
    /\ UNCHANGED <<expired, threads, certKey, helloCounter, context, attempts,
                   nonce, downlink, faults>>

\* build_challenge, then the session becomes visible under the lock.  Only
\* this thread adds sessions, so the second look finds the slot still free.
OpenSession(d) ==
    /\ At(d, "open")
    /\ LET s == [job[d].session EXCEPT !.random = nonce,
                                       !.state = "WAIT_RESPONSE"]
       IN /\ sessions' = [sessions EXCEPT ![d] = s]
          /\ Goto(d, "send_a", s)
    /\ nonce' = nonce + 1
    /\ UNCHANGED <<expired, threads, certKey, helloCounter, context, attempts,
                   downlink, faults>>

ChallengeNotBuilt(d) ==
    /\ At(d, "open")
    /\ Fault
    /\ Goto(d, "record_error", job[d].session)
    /\ UNCHANGED <<sessions, expired, threads, certKey, helloCounter, context,
                   attempts, nonce, downlink>>

SendChallenge(d) ==
    /\ At(d, "send_a")
    /\ Publish(d, "A", job[d].session)
    /\ Goto(d, "record_a", job[d].session)
    /\ UNCHANGED <<sessions, expired, threads, certKey, helloCounter, context,
                   attempts, nonce, faults>>

RecordChallenge(d) ==
    /\ At(d, "record_a")
    /\ Record(d, job[d].session.counter, "CHALLENGE_SENT")
    /\ Return(d)
    /\ UNCHANGED <<sessions, expired, threads, certKey, helloCounter, context,
                   nonce, downlink, faults>>

-----------------------------------------------------------------------------
(* R: proof of possession, answered with the encrypted configuration *)

\* verify_response: signed by the key the session was opened with, over its
\* counter and its challenge.
Answers(s, f) ==
    f.key = s.key /\ f.counter = s.counter /\ f.random = s.random

ResponseIgnored(d, f) ==
    /\ sessions[d].state # "WAIT_RESPONSE"
    /\ UNCHANGED <<listenerVars, faults>>

ResponseVerified(d, f) ==
    /\ sessions[d].state = "WAIT_RESPONSE"
    /\ Answers(sessions[d], f)
    /\ Goto(d, "record_r", sessions[d])
    /\ UNCHANGED <<sessions, expired, threads, certKey, helloCounter, context,
                   attempts, nonce, downlink, faults>>

\* A wrong signature ends the attempt.
ResponseRejected(d, f) ==
    /\ sessions[d].state = "WAIT_RESPONSE"
    /\ ~Answers(sessions[d], f)
    /\ Goto(d, "failed", sessions[d])
    /\ UNCHANGED <<sessions, expired, threads, certKey, helloCounter, context,
                   attempts, nonce, downlink, faults>>

OnResponse(d, f) ==
    /\ ThreadFree
    /\ f.kind = "R"
    /\ \/ ResponseIgnored(d, f)
       \/ ResponseVerified(d, f)
       \/ ResponseRejected(d, f)

RecordResponse(d) ==
    /\ At(d, "record_r")
    /\ Record(d, job[d].session.counter, "RESPONSE_SEEN")
    /\ Goto(d, "recheck", job[d].session)
    /\ UNCHANGED <<sessions, expired, threads, certKey, helloCounter, context,
                   nonce, downlink, faults>>

\* Mutant: no second look, what the timeout popped is put back.
RecheckSessionMissing(d) ==
    /\ At(d, "recheck")
    /\ sessions' = [sessions EXCEPT ![d] = [job[d].session EXCEPT
                                               !.state = "PROVISIONING_SENT"]]
    /\ Goto(d, "send_p", sessions'[d])
    /\ UNCHANGED <<expired, threads, certKey, helloCounter, context, attempts,
                   nonce, downlink, faults>>

\* Under the lock again: go on only if the timeout has not popped it.
RecheckSession(d) ==
    /\ At(d, "recheck")
    /\ LET s == job[d].session
       IN IF Pending(d, s) /\ sessions[d].state = "WAIT_RESPONSE"
          THEN /\ sessions' = [sessions EXCEPT ![d].state = "PROVISIONING_SENT"]
               /\ Goto(d, "send_p", sessions'[d])
          ELSE /\ Return(d)
               /\ UNCHANGED sessions
    /\ UNCHANGED <<expired, threads, certKey, helloCounter, context, attempts,
                   nonce, downlink, faults>>

SendProvisioning(d) ==
    /\ At(d, "send_p")
    /\ Publish(d, "P", job[d].session)
    /\ Goto(d, "record_p", job[d].session)
    /\ UNCHANGED <<sessions, expired, threads, certKey, helloCounter, context,
                   attempts, nonce, faults>>

\* Mutant: a state the rows do not have.
RecordProvisioningMisnamed(d) ==
    /\ At(d, "record_p")
    /\ Record(d, job[d].session.counter, "PROVISIONED")
    /\ Return(d)
    /\ UNCHANGED <<sessions, expired, threads, certKey, helloCounter, context,
                   nonce, downlink, faults>>

RecordProvisioning(d) ==
    /\ At(d, "record_p")
    /\ Record(d, job[d].session.counter, "PROVISIONING_SENT")
    /\ Return(d)
    /\ UNCHANGED <<sessions, expired, threads, certKey, helloCounter, context,
                   nonce, downlink, faults>>

\* What the try blocks around the two sends catch: the client refuses the
\* command, the Wi-Fi secret is missing, P does not fit its frame; or, with
\* the command on its way, the attempt's row cannot be written.
SendFailed(d) ==
    /\ \E pc \in {"send_a", "record_a", "send_p", "record_p"} : At(d, pc)
    /\ Fault
    /\ Goto(d, "failed", job[d].session)
    /\ UNCHANGED <<sessions, expired, threads, certKey, helloCounter, context,
                   attempts, nonce, downlink>>

\* The failed attempt's session is dropped if it still is the pending one.
DropSession(d) ==
    /\ At(d, "failed")
    /\ sessions' = IF Pending(d, job[d].session)
                   THEN [sessions EXCEPT ![d] = NoSession] ELSE sessions
    /\ Goto(d, "record_error", job[d].session)
    /\ UNCHANGED <<expired, threads, certKey, helloCounter, context, attempts,
                   nonce, downlink, faults>>

RecordError(d) ==
    /\ At(d, "record_error")
    /\ Record(d, job[d].session.counter, "ERROR")
    /\ Return(d)
    /\ UNCHANGED <<sessions, expired, threads, certKey, helloCounter, context,
                   nonce, downlink, faults>>

-----------------------------------------------------------------------------
(* T: the device reports its switch and status *)

\* Any T but T|0|42, or no session that waits for it.
ControlIgnored(d, f) ==
    /\ ~f.done \/ sessions[d].state # "PROVISIONING_SENT"
    /\ UNCHANGED <<listenerVars, faults>>

\* Mutant: any pending session will do.
AttemptFinishedEarly(d, f) ==
    /\ f.done
    /\ sessions[d] # NoSession
    /\ sessions' = [sessions EXCEPT ![d] = NoSession]
    /\ Goto(d, "save", sessions[d])
    /\ UNCHANGED <<expired, threads, certKey, helloCounter, context, attempts,
                   nonce, downlink, faults>>

\* T|0|42 names no attempt: the pending session is taken to be the one.
AttemptFinished(d, f) ==
    /\ f.done
    /\ sessions[d].state = "PROVISIONING_SENT"
    /\ sessions' = [sessions EXCEPT ![d] = NoSession]
    /\ Goto(d, "save", sessions[d])
    /\ UNCHANGED <<expired, threads, certKey, helloCounter, context, attempts,
                   nonce, downlink, faults>>

OnControl(d, f) ==
    /\ ThreadFree
    /\ f.kind = "T"
    /\ \/ ControlIgnored(d, f)
       \/ AttemptFinished(d, f)

\* save_provisioning_context.
SaveContext(d) ==
    /\ At(d, "save")
    /\ context' = [context EXCEPT ![d] = [counter |-> job[d].session.counter,
                                          random |-> job[d].session.random]]
    /\ Goto(d, "record_done", job[d].session)
    /\ UNCHANGED <<sessions, expired, threads, certKey, helloCounter, attempts,
                   nonce, downlink, faults>>

\* Mutant: the error is logged, and the attempt completes.
SaveFailedSwallowed(d) ==
    /\ At(d, "save")
    /\ Fault
    /\ Goto(d, "record_done", job[d].session)
    /\ UNCHANGED <<sessions, expired, threads, certKey, helloCounter, context,
                   attempts, nonce, downlink>>

\* The update fails, after the session has been popped.
SaveFailed(d) ==
    /\ At(d, "save")
    /\ Fault
    /\ Goto(d, "record_error", job[d].session)
    /\ UNCHANGED <<sessions, expired, threads, certKey, helloCounter, context,
                   attempts, nonce, downlink>>

RecordCompletion(d) ==
    /\ At(d, "record_done")
    /\ Record(d, job[d].session.counter, "COMPLETED")
    /\ Return(d)
    /\ UNCHANGED <<sessions, expired, threads, certKey, helloCounter, context,
                   nonce, downlink, faults>>

-----------------------------------------------------------------------------
(* session_timeout_loop *)

\* Mutant: only sessions that wait for R grow old.
ActiveWaiting == {d \in Devices : sessions[d].state = "WAIT_RESPONSE"}

Active == {d \in Devices : sessions[d] # NoSession}

\* SESSION_TIMEOUT_SECONDS after its HELLO was accepted; no clock here, any
\* of the pending sessions may be that old at any moment.  One pass of the
\* loop pops all that are.
ExpireSessions(old) ==
    /\ "timeout" \in threads
    /\ expired = {}
    /\ old # {} /\ old \subseteq Active
    /\ expired' = {[device |-> d, session |-> sessions[d]] : d \in old}
    /\ sessions' = [d \in Devices |-> IF d \in old THEN NoSession
                                      ELSE sessions[d]]
    /\ UNCHANGED <<job, threads, certKey, helloCounter, context, attempts,
                   nonce, downlink>>

RecordTimeout ==
    /\ "timeout" \in threads
    /\ \E e \in expired :
          /\ Record(e.device, e.session.counter, "TIMEOUT")
          /\ expired' = expired \ {e}
    /\ UNCHANGED <<sessions, job, threads, certKey, helloCounter, context,
                   nonce, downlink, faults>>

\* The loop catches nothing: a failed provisioning_state ends the thread and
\* the process lives on without timeouts.
TimeoutThreadDies ==
    /\ "timeout" \in threads
    /\ expired # {}
    /\ Fault
    /\ threads' = threads \ {"timeout"}
    /\ expired' = {}
    /\ UNCHANGED <<sessions, job, certKey, helloCounter, context, attempts,
                   nonce, downlink>>

-----------------------------------------------------------------------------
(* The process and the certificates *)

\* The process ends: a crash, an exception out of on_message (which ends
\* loop_forever) or an add-on stop.  run.sh does not start it again by itself.
ListenerStops ==
    /\ threads # {}
    /\ Fault
    /\ threads' = {}
    /\ sessions' = [d \in Devices |-> NoSession]
    /\ job' = [d \in Devices |-> IdleJob]
    /\ expired' = {}
    /\ UNCHANGED <<certKey, helloCounter, context, attempts, nonce, downlink>>

ListenerStarts ==
    /\ threads = {}
    /\ threads' = Threads
    /\ UNCHANGED <<sessions, job, expired, certKey, helloCounter, context,
                   attempts, nonce, downlink, faults>>

\* register_device_certificate: a first or another certificate starts the
\* HELLO counter over and leaves the provisioning context as it is.
RegisterCertificate(d, k) ==
    /\ certKey[d] # k
    /\ certKey' = [certKey EXCEPT ![d] = k]
    /\ helloCounter' = [helloCounter EXCEPT ![d] = 0]
    /\ UNCHANGED <<sessions, job, expired, threads, context, attempts, nonce,
                   downlink, faults>>

-----------------------------------------------------------------------------
ListenerTypeOK ==
    /\ sessions \in [Devices -> Session]
    /\ job \in [Devices -> Job]
    /\ expired \subseteq [device : Devices, session : Session]
    /\ threads \subseteq Threads
    /\ certKey \in [Devices -> Keys \cup {NoKey}]
    /\ helloCounter \in [Devices -> 0..MaxCounter]
    /\ context \in [Devices -> Context]
    /\ attempts \in [Devices -> [Counters -> RowStates]]
    /\ nonce \in Nat
    /\ downlink \in [Devices -> Seq(Command)]
    /\ faults \in 0..MaxFaults

ListenerInit ==
    /\ sessions = [d \in Devices |-> NoSession]
    /\ job = [d \in Devices |-> IdleJob]
    /\ expired = {}
    /\ threads = Threads
    /\ certKey \in [Devices -> Keys \cup {NoKey}]
    /\ helloCounter = [d \in Devices |-> 0]
    /\ context = [d \in Devices |-> NoContext]
    /\ attempts = [d \in Devices |-> [c \in Counters |-> "NONE"]]
    /\ nonce = 1
    /\ downlink = [d \in Devices |-> <<>>]
    /\ faults = 0

\* What the MQTT thread does after it has taken a frame.
JobStep(d) ==
    \/ HelloAccepted(d) \/ HelloStale(d) \/ RecordHello(d)
    \/ OpenSession(d) \/ ChallengeNotBuilt(d)
    \/ SendChallenge(d) \/ RecordChallenge(d)
    \/ RecordResponse(d) \/ RecheckSession(d)
    \/ SendProvisioning(d) \/ RecordProvisioning(d)
    \/ SendFailed(d) \/ DropSession(d) \/ RecordError(d)
    \/ SaveContext(d) \/ SaveFailed(d) \/ RecordCompletion(d)

OnMessage(d, f) == OnHello(d, f) \/ OnResponse(d, f) \/ OnControl(d, f)
=============================================================================
