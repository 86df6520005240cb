------------------------ MODULE ObservabilityProofs ------------------------
(***************************************************************************)
(* Proofs about MCObservability: that the row of a certificate shows an S  *)
(* the device sent, the one of the running firmware when nothing was lost, *)
(* that the activity log has each S once and in order, for any number of   *)
(* frames, repeats and faults; and that no row returns to the page.        *)
(***************************************************************************)
EXTENDS MCObservability, FiniteSetTheorems, SequenceTheorems,
        WellFoundedInduction, TLAPS

-----------------------------------------------------------------------------
(* Sequences *)

LEMMA AppendIs ==
    ASSUME NEW S, NEW s \in Seq(S), NEW e \in S
    PROVE  /\ Append(s, e) \in Seq(S)
           /\ Len(s) \in Nat /\ Len(Append(s, e)) = Len(s) + 1
           /\ \A i \in 1..Len(s) : Append(s, e)[i] = s[i] /\ s[i] \in S
           /\ Append(s, e)[Len(s) + 1] = e
OBVIOUS

LEMMA TailIs ==
    ASSUME NEW S, NEW s \in Seq(S), s # <<>>
    PROVE  /\ Tail(s) \in Seq(S)
           /\ Len(s) \in Nat \ {0} /\ Len(Tail(s)) = Len(s) - 1
           /\ \A i \in 1..(Len(s) - 1) : Tail(s)[i] = s[i + 1]
           /\ \A i \in 2..Len(s) : Tail(s)[i - 1] = s[i]
           /\ Head(s) = s[1] /\ Head(s) \in S
OBVIOUS

LEMMA ElementIs ==
    ASSUME NEW S, NEW s \in Seq(S)
    PROVE  Len(s) \in Nat /\ DOMAIN s = 1..Len(s) /\ \A i \in 1..Len(s) : s[i] \in S
OBVIOUS

LEMMA FunctionIs == ASSUME NEW S, NEW s \in Seq(S) PROVE s \in [1..Len(s) -> S]
OBVIOUS

\* A sequence of what was sent stays one when more is sent.
LEMMA SeqGrows ==
    ASSUME NEW S, NEW T, S \subseteq T, NEW s \in Seq(S)
    PROVE  s \in Seq(T)
BY ElementIs

-----------------------------------------------------------------------------
(* BootStatus: what is under way was sent *)

Process == {"listener", "observer"}
Device == [counter : 0..MaxCounter, version : Versions, cert : Certs, task : BOOLEAN]
Row == [cert : Certs, counter : 0..MaxCounter, version : 0..2]

StatusInv ==
    /\ device \in Device
    /\ signed \in 0..MaxCounter /\ device.counter <= signed
    /\ sent \subseteq Status
    /\ {cached, saved, verified, logging} \subseteq sent \cup {None}
    /\ inbox \in [Process -> Seq(sent)] /\ logged \in Seq(sent)
    /\ row \in Row
    /\ row.counter # 0 => \E m \in sent : m.counter = row.counter /\ m.version = row.version
    /\ seen \subseteq 1..MaxCounter
    /\ repeats \in 0..MaxRepeats /\ statusFaults \in 0..MaxFaults

LEMMA StatusInvInit == StatusInit => StatusInv
<1> SUFFICES ASSUME StatusInit PROVE StatusInv
  OBVIOUS
<1>1. device \in Device /\ row \in Row
  BY StatusAssumption DEF StatusInit, Device, Row, Versions, Certs
<1>2. inbox \in [Process -> Seq(sent)] /\ logged \in Seq(sent)
  <2>1. <<>> \in Seq(sent)
    OBVIOUS
  <2>2. inbox = [p \in Process |-> <<>>]
    BY DEF StatusInit, Process
  <2> QED
    BY <2>1, <2>2 DEF StatusInit
<1> QED
  BY <1>1, <1>2, StatusAssumption DEF StatusInit, StatusInv

\* What one field of the device becomes leaves the others alone.
LEMMA DeviceFields ==
    ASSUME NEW d \in Device
    PROVE  /\ \A c \in 0..MaxCounter : [d EXCEPT !.counter = c] \in Device
           /\ \A c \in 0..MaxCounter : [d EXCEPT !.counter = c, !.task = FALSE] \in Device
           /\ \A v \in Versions : [d EXCEPT !.version = v, !.task = TRUE] \in Device
           /\ [d EXCEPT !.task = FALSE] \in Device
           /\ \A k \in Certs, c \in 0..MaxCounter :
                  [d EXCEPT !.cert = k, !.counter = c, !.task = TRUE] \in Device
<1>1. \A e \in Device : [e EXCEPT !.task = TRUE] \in Device /\ [e EXCEPT !.task = FALSE] \in Device
  BY Zenon DEF Device
<1>2. \A e \in Device, c \in 0..MaxCounter : [e EXCEPT !.counter = c] \in Device
  BY Zenon DEF Device
<1>3. \A v \in Versions : [d EXCEPT !.version = v] \in Device
  BY Zenon DEF Device
<1>4. \A k \in Certs : [d EXCEPT !.cert = k] \in Device
  BY Zenon DEF Device
<1> QED
  BY <1>1, <1>2, <1>3, <1>4, Zenon

\* None is no frame.
LEMMA NoneIsNot == ASSUME StatusInv PROVE None \notin sent
BY DEF StatusInv, Status, None

LEMMA StatusInvTypes == ASSUME StatusInv PROVE StatusTypeOK
<1>1. \A p \in Process : inbox[p] \in Seq(Status)
  BY SeqGrows DEF StatusInv
<1>2. logged \in Seq(Status)
  BY SeqGrows DEF StatusInv
<1> QED
  BY <1>1, <1>2 DEF StatusInv, StatusTypeOK, Process, Device, Row

\* The publication of a frame, a new one or an old one.
LEMMA PublishIs ==
    ASSUME StatusInv, NEW S, sent \subseteq S, NEW m \in S, Publish(m)
    PROVE  /\ inbox' \in [Process -> Seq(S)]
           /\ \A p \in Process : inbox'[p] = Append(inbox[p], m)
<1>1. inbox' = [p \in Process |-> Append(inbox[p], m)]
  BY DEF Publish, StatusInv
<1>2. \A p \in Process : Append(inbox[p], m) \in Seq(S)
  BY SeqGrows, AppendIs DEF StatusInv
<1> QED
  BY <1>1, <1>2

LEMMA ReceivedIs ==
    ASSUME StatusInv, NEW p \in Process, inbox[p] # <<>>, inbox' = Received(p)
    PROVE  /\ inbox' \in [Process -> Seq(sent)]
           /\ inbox'[p] = Tail(inbox[p]) /\ Head(inbox[p]) \in sent
           /\ \A q \in Process \ {p} : inbox'[q] = inbox[q]
BY TailIs DEF StatusInv, Received

LEMMA StatusInvSend ==
    ASSUME StatusInv, SendStatus
    PROVE  /\ StatusInv'
           /\ \E m \in Status :
                /\ m.counter = device.counter + 1 /\ m.version = device.version
                /\ m.cert = device.cert /\ sent' = sent \cup {m}
                /\ \A p \in Process : inbox'[p] = Append(inbox[p], m)
<1> DEFINE m == [counter |-> device.counter + 1, version |-> device.version,
                 cert |-> device.cert]
<1>1. /\ cached' = m /\ Publish(m) /\ sent' = sent \cup {m}
      /\ signed < MaxCounter /\ signed' = signed + 1
      /\ device' = [device EXCEPT !.counter = @ + 1, !.task = FALSE]
      /\ UNCHANGED <<saved, row, verified, seen, logging, logged, repeats, statusFaults>>
  BY DEF SendStatus, Signs, listener, observer
<1>2. m \in Status /\ m.counter \in 0..MaxCounter
  BY <1>1, StatusAssumption DEF StatusInv, Status, Device
<1> HIDE DEF m
<1>3. /\ inbox' \in [Process -> Seq(sent')]
      /\ \A p \in Process : inbox'[p] = Append(inbox[p], m)
  BY <1>1, PublishIs
<1>4. logged' \in Seq(sent')
  BY <1>1, SeqGrows DEF StatusInv
<1>5. sent' \subseteq Status /\ {cached, saved, verified, logging}' \subseteq sent' \cup {None}
  BY <1>1, <1>2 DEF StatusInv
<1>6. /\ device' \in Device
      /\ signed' \in 0..MaxCounter /\ device'.counter <= signed'
  <2>1. device.counter + 1 \in 0..MaxCounter /\ DOMAIN device = {"counter", "version", "cert", "task"}
    BY <1>1, StatusAssumption DEF StatusInv, Device
  <2>2. device \in Device /\ FALSE \in BOOLEAN
    BY DEF StatusInv
  <2>3. device' \in Device
    BY <1>1, <2>1, <2>2, DeviceFields, Zenon
  <2>4. device'.counter = device.counter + 1
    BY <1>1, <2>1
  <2> QED
    BY <1>1, <2>1, <2>3, <2>4, StatusAssumption DEF StatusInv, Device
<1>7. StatusInv'
  BY <1>1, <1>3, <1>4, <1>5, <1>6 DEF StatusInv
<1> QED
  BY <1>1, <1>2, <1>3, <1>7 DEF m

LEMMA StatusInvNext ==
    ASSUME StatusInv, StatusNext \/ UNCHANGED statusVars
    PROVE  StatusInv'
<1> USE StatusAssumption DEF StatusInv
<1>1. CASE SendStatus
  BY <1>1, StatusInvSend
<1>2. CASE UseCounter
  <2>1. device.counter + 1 \in 0..MaxCounter
    BY <1>2 DEF UseCounter, Signs, Device
  <2>2. device' = [device EXCEPT !.counter = device.counter + 1]
    BY <1>2 DEF UseCounter
  <2>4. device' \in Device
    BY <2>1, <2>2, DeviceFields, Zenon
  <2>5. device'.counter = device.counter + 1
    BY <2>2 DEF Device
  <2>3. cached' \in sent \cup {None}
    BY <1>2 DEF UseCounter
  <2> QED
    BY <1>2, <2>1, <2>3, <2>4, <2>5 DEF UseCounter, Signs, listener, observer, Device
<1>3. CASE DeviceBoots
  <2>1. PICK v \in Versions : device' = [device EXCEPT !.version = v, !.task = TRUE]
    BY <1>3 DEF DeviceBoots
  <2>2. device' \in Device
    BY <2>1, DeviceFields, Zenon
  <2>3. device'.counter = device.counter
    BY <2>1 DEF Device
  <2> QED
    BY <1>3, <2>2, <2>3 DEF DeviceBoots, zigbee2mqtt, listener, observer
<1>4. CASE PublishAgain
  <2>1. cached \in sent
    BY <1>4 DEF PublishAgain
  <2>2. inbox' \in [Process -> Seq(sent)]
    BY <1>4, <2>1, PublishIs DEF PublishAgain
  <2> QED
    BY <1>4, <2>2 DEF PublishAgain, listener, observer
<1>5. CASE SaveState
  BY <1>5 DEF SaveState, listener, observer
<1>6. CASE Zigbee2mqttRestarts
  <2>1. saved \in sent
    BY <1>6 DEF Zigbee2mqttRestarts
  <2>2. inbox' \in [Process -> Seq(sent)]
    BY <1>6, <2>1, PublishIs DEF Zigbee2mqttRestarts
  <2> QED
    BY <1>6, <2>2 DEF Zigbee2mqttRestarts, listener, observer
<1>7. CASE VerifyStatus
  <2>1. inbox' \in [Process -> Seq(sent)] /\ Head(inbox["listener"]) \in sent
    BY <1>7, ReceivedIs DEF VerifyStatus, Process
  <2> QED
    BY <1>7, <2>1 DEF VerifyStatus, observer
<1>8. CASE StoreStatus
  <2>1. verified \in sent /\ verified \in Status
    BY <1>8 DEF StoreStatus
  <2>2. \/ row' = row
        \/ row' \in Row /\ row'.counter = verified.counter /\ row'.version = verified.version
    <3>1. CASE row' = Stored(verified)
      <4>1. /\ verified.counter \in 0..MaxCounter /\ verified.version \in 0..2
            /\ DOMAIN row = {"cert", "counter", "version"}
        BY <2>1 DEF Status, Versions, Row
      <4>2. row' \in Row
        BY <3>1, <4>1 DEF Stored, Row
      <4>3. row'.counter = verified.counter /\ row'.version = verified.version
        BY <3>1, <4>1 DEF Stored
      <4> QED
        BY <4>2, <4>3
    <3> QED
      BY <1>8, <3>1 DEF StoreStatus
  <2> QED
    BY <1>8, <2>1, <2>2 DEF StoreStatus, zigbee2mqtt, observer
<1>9. CASE Observe
  <2>1. inbox' \in [Process -> Seq(sent)] /\ Head(inbox["observer"]) \in sent
    BY <1>9, ReceivedIs DEF Observe, Process
  <2>2. Head(inbox["observer"]).counter \in 1..MaxCounter
    BY <2>1 DEF Status
  <2> QED
    BY <1>9, <2>1, <2>2 DEF Observe, listener
<1>10. CASE Overlook
  <2>1. inbox' \in [Process -> Seq(sent)]
    BY <1>10, ReceivedIs DEF Overlook, Process
  <2> QED
    BY <1>10, <2>1 DEF Overlook, listener, observer
<1>11. CASE Log
  <2>1. logged' \in Seq(sent)
    BY <1>11, AppendIs DEF Log
  <2> QED
    BY <1>11, <2>1 DEF Log, zigbee2mqtt, listener
<1>12. ASSUME NEW p \in DOMAIN inbox, LoseStatus(p) PROVE StatusInv'
  <2>1. inbox' \in [Process -> Seq(sent)]
    BY <1>12, ReceivedIs DEF LoseStatus
  <2> QED
    BY <1>12, <2>1 DEF LoseStatus, Fault, listener, observer
<1>13. CASE StatusGivesUp
  <2>1. device' \in Device /\ device'.counter = device.counter
    BY <1>13, DeviceFields DEF StatusGivesUp, Device
  <2> QED
    BY <1>13, <2>1 DEF StatusGivesUp, Fault, zigbee2mqtt, listener, observer
<1>14. CASE StoreFails
  BY <1>14 DEF StoreFails, Fault, zigbee2mqtt, observer
<1>15. CASE LogFails
  BY <1>15 DEF LogFails, Fault, zigbee2mqtt, listener
<1>16. CASE ObserverRestarts
  BY <1>16 DEF ObserverRestarts, Fault, zigbee2mqtt, listener
<1>17. CASE ReplaceCertificate
  <2>1. row' \in Row /\ row'.counter = row.counter /\ row'.version = row.version
    BY <1>17 DEF ReplaceCertificate, Certs, Row
  <2> QED
    BY <1>17, <2>1 DEF ReplaceCertificate, Fault, zigbee2mqtt, observer
<1>18. CASE FlashCertificate
  <2>1. PICK c \in {0, device.counter} :
            device' = [device EXCEPT !.cert = 2, !.counter = c, !.task = TRUE]
    BY <1>18 DEF FlashCertificate
  <2>2. c \in 0..MaxCounter /\ 2 \in Certs
    BY <2>1 DEF Device, Certs
  <2>3. device' \in Device /\ device'.counter = c
    BY <2>1, <2>2, DeviceFields DEF Device
  <2>4. c <= signed
    BY <2>1 DEF Device
  <2> QED
    BY <1>18, <2>3, <2>4 DEF FlashCertificate, zigbee2mqtt, listener, observer
<1>19. CASE UNCHANGED statusVars
  BY <1>19 DEF statusVars, zigbee2mqtt, listener, observer
<1> QED
  BY <1>1, <1>2, <1>3, <1>4, <1>5, <1>6, <1>7, <1>8, <1>9, <1>10, <1>11, <1>12, <1>13,
     <1>14, <1>15, <1>16, <1>17, <1>18, <1>19 DEF StatusNext, ListenerStep, ObserverStep

-----------------------------------------------------------------------------
(* BootStatus: nothing lost, the row shows the running firmware *)

\* An S is not yet written: on its way, or its signature has been checked.
Coming(m) ==
    verified = m \/ \E i \in 1..Len(inbox["listener"]) : inbox["listener"][i] = m

ShownInv ==
    /\ row.cert = 1 /\ device.cert = 1
    /\ \A m \in sent : m.cert = 1 /\ m.counter <= device.counter
    /\ \A m, n \in sent : m.counter = n.counter => m = n
    /\ \A m \in sent : row.counter >= m.counter \/ Coming(m)
    /\ ~device.task =>
           \E m \in sent : m.version = device.version /\ \A n \in sent : n.counter <= m.counter

\* A publication takes nothing from what comes to the listener.
LEMMA ComingStays ==
    ASSUME StatusInv, NEW S, sent \subseteq S, NEW e \in S, Publish(e), verified' = verified
    PROVE  /\ \A m \in sent : Coming(m) => Coming(m)'
           /\ Coming(e)'
<1>1. inbox'["listener"] = Append(inbox["listener"], e) /\ inbox["listener"] \in Seq(S)
  BY PublishIs, SeqGrows DEF StatusInv, Process
<1> HIDE DEF StatusInv
<1> QED
  BY <1>1, AppendIs DEF Coming

LEMMA ShownSend ==
    ASSUME StatusInv, ShownInv, SendStatus
    PROVE  ShownInv'
<1>0. PICK m : m = [counter |-> device.counter + 1, version |-> device.version,
                    cert |-> device.cert]
  OBVIOUS
<1>1. /\ Publish(m) /\ sent' = sent \cup {m}
      /\ device' = [device EXCEPT !.counter = @ + 1, !.task = FALSE]
      /\ row' = row /\ verified' = verified
  BY <1>0 DEF SendStatus, listener
<1>2. m.counter = device.counter + 1 /\ m.version = device.version /\ m.cert = device.cert
  BY <1>0
<1>3. /\ device'.counter = device.counter + 1 /\ device'.version = device.version
      /\ device'.cert = device.cert /\ device.counter \in Nat
  BY <1>1 DEF StatusInv, Device
<1>4. sent \subseteq sent' /\ m \in sent' /\ \A n \in sent : n.counter \in Nat
  BY <1>1 DEF StatusInv, Status
<1>5. Coming(m)' /\ \A n \in sent : Coming(n) => Coming(n)'
  BY <1>1, <1>4, ComingStays, Zenon
<1>6. \A n \in sent' : n = m \/ (n \in sent /\ n.counter < m.counter)
  BY <1>1, <1>2, <1>3, <1>4 DEF ShownInv
<1>7. \A n \in sent' : row'.counter >= n.counter \/ Coming(n)'
  <2>1. \A n \in sent : row.counter >= n.counter \/ Coming(n)
    BY DEF ShownInv
  <2> QED
    BY <1>1, <1>5, <1>6, <2>1
<1>8. \A n \in sent' : n.cert = 1 /\ n.counter <= device'.counter
  BY <1>2, <1>3, <1>4, <1>6 DEF ShownInv
<1>9. \A k, n \in sent' : k.counter = n.counter => k = n
  BY <1>2, <1>3, <1>4, <1>6 DEF ShownInv
<1>10. m \in sent' /\ m.version = device'.version /\ \A n \in sent' : n.counter <= m.counter
  BY <1>1, <1>2, <1>3, <1>4, <1>6
<1> QED
  BY <1>1, <1>3, <1>7, <1>8, <1>9, <1>10 DEF ShownInv

\* A step that leaves alone what ShownInv is about, but for what comes to the listener.
LEMMA ShownStays ==
    ASSUME ShownInv, UNCHANGED <<row, device, sent>>,
           \A m \in sent : Coming(m) => Coming(m)' \/ row.counter >= m.counter
    PROVE  ShownInv'
BY DEF ShownInv

LEMMA ShownNext ==
    ASSUME StatusInv, ShownInv, StatusNext \/ UNCHANGED statusVars, Undisturbed'
    PROVE  ShownInv'
<1>0. statusFaults' = 0 /\ statusFaults \in Nat
  BY DEF StatusInv, Undisturbed
<1>1. CASE SendStatus
  BY <1>1, ShownSend
<1>2. CASE UseCounter
  <2>1. /\ device' = [device EXCEPT !.counter = device.counter + 1]
        /\ UNCHANGED <<row, verified, inbox, sent>>
    BY <1>2 DEF UseCounter, listener
  <2>2. /\ device'.counter = device.counter + 1 /\ device'.version = device.version
        /\ device'.cert = device.cert /\ device'.task = device.task /\ device.counter \in Nat
    BY <2>1 DEF StatusInv, Device
  <2>3. \A m \in sent : m.counter \in Nat
    BY DEF StatusInv, Status
  <2> QED
    BY <2>1, <2>2, <2>3 DEF ShownInv, Coming
<1>3. CASE DeviceBoots
  <2>1. PICK v \in Versions : device' = [device EXCEPT !.version = v, !.task = TRUE]
    BY <1>3 DEF DeviceBoots
  <2>2. device'.counter = device.counter /\ device'.cert = device.cert /\ device'.task
    BY <2>1 DEF StatusInv, Device
  <2>3. UNCHANGED <<row, verified, inbox, sent>>
    BY <1>3 DEF DeviceBoots, zigbee2mqtt, listener
  <2> QED
    BY <2>2, <2>3 DEF ShownInv, Coming
<1>4. CASE PublishAgain \/ Zigbee2mqttRestarts
  <2>1. PICK e \in sent : Publish(e)
    BY <1>4 DEF PublishAgain, Zigbee2mqttRestarts, StatusInv
  <2>2. UNCHANGED <<row, verified, device, sent>>
    BY <1>4 DEF PublishAgain, Zigbee2mqttRestarts, listener
  <2> QED
    BY <2>1, <2>2, ComingStays, ShownStays
<1>5. CASE VerifyStatus
  <2>1. /\ inbox["listener"] # <<>> /\ inbox' = Received("listener")
        /\ verified' = IF Head(inbox["listener"]).cert = row.cert
                       THEN Head(inbox["listener"]) ELSE None
        /\ verified = None
        /\ UNCHANGED <<row, device, sent>>
    BY <1>5 DEF VerifyStatus
  <2>2. inbox["listener"] \in Seq(sent)
    BY DEF StatusInv, Process
  <2>3. inbox'["listener"] = Tail(inbox["listener"])
    BY <2>1, ReceivedIs DEF Process
  <2>4. Head(inbox["listener"]) = inbox["listener"][1] /\ verified' = inbox["listener"][1]
    BY <2>1, <2>2, TailIs DEF ShownInv
  <2>5. ASSUME NEW m \in sent, Coming(m) PROVE Coming(m)'
    <3>1. PICK i \in 1..Len(inbox["listener"]) : inbox["listener"][i] = m
      BY <2>1, <2>5, NoneIsNot DEF Coming
    <3>2. CASE i = 1
      BY <2>4, <3>1, <3>2 DEF Coming
    <3>3. CASE i # 1
      <4>1. i \in 2..Len(inbox["listener"]) /\ Len(inbox["listener"]) \in Nat
        BY <2>1, <2>2, <3>1, <3>3, TailIs
      <4>2. i - 1 \in 1..Len(inbox'["listener"])
        <5>1. Len(inbox'["listener"]) = Len(inbox["listener"]) - 1
          BY <2>1, <2>2, <2>3, TailIs
        <5> QED
          BY <4>1, <5>1
      <4>3. inbox'["listener"][i - 1] = m
        BY <2>1, <2>2, <2>3, <3>1, <4>1, TailIs
      <4> QED
        BY <4>2, <4>3 DEF Coming
    <3> QED
      BY <3>2, <3>3
  <2> QED
    BY <2>1, <2>5, ShownStays
<1>6. CASE StoreStatus
  <2>1. /\ verified # None /\ verified' = None
        /\ row' = IF row.counter < verified.counter THEN Stored(verified) ELSE row
        /\ UNCHANGED <<device, sent, inbox>>
    BY <1>6 DEF StoreStatus, Newer, zigbee2mqtt
  <2>2. verified \in sent /\ verified.counter \in Nat /\ row.counter \in Nat
    BY <2>1 DEF StatusInv, Status, Row
  <2>3. row'.cert = row.cert /\ row'.counter \in Nat
    BY <2>1, <2>2 DEF Stored, StatusInv, Row
  <2>4. row'.counter >= verified.counter /\ row'.counter >= row.counter
    BY <2>1, <2>2 DEF Stored, StatusInv, Row
  <2>5. \A m \in sent : m.counter \in Nat
    BY DEF StatusInv, Status
  <2>6. \A m \in sent : row'.counter >= m.counter \/ Coming(m)'
    BY <2>1, <2>2, <2>3, <2>4, <2>5 DEF Coming, ShownInv
  <2> QED
    BY <2>1, <2>3, <2>6 DEF ShownInv
<1>7. CASE SaveState \/ Log \/ UNCHANGED statusVars
  <2>1. UNCHANGED <<row, verified, inbox, device, sent>>
    BY <1>7 DEF SaveState, Log, statusVars, zigbee2mqtt, listener
  <2> QED
    BY <2>1, ShownStays DEF Coming
<1>8. CASE Observe \/ Overlook
  <2>1. UNCHANGED <<row, verified, device, sent>>
    BY <1>8 DEF Observe, Overlook, listener
  <2>2. inbox'["listener"] = inbox["listener"]
    BY <1>8, ReceivedIs DEF Observe, Overlook, Process
  <2> QED
    BY <2>1, <2>2, ShownStays DEF Coming
<1>9. CASE FlashCertificate
  BY <1>9 DEF FlashCertificate, ShownInv
<1>10. ASSUME Fault PROVE FALSE
  BY <1>0, <1>10 DEF Fault
<1> QED
  BY <1>1, <1>2, <1>3, <1>4, <1>5, <1>6, <1>7, <1>8, <1>9, <1>10
  DEF StatusNext, ListenerStep, ObserverStep, LoseStatus, StatusGivesUp, StoreFails,
      LogFails, ObserverRestarts, ReplaceCertificate

-----------------------------------------------------------------------------
(* BootStatus: nothing lost, the log has each S once and in order *)

queue == inbox["observer"]
Queued(m, n) == \E i \in 1..n : queue[i] = m

\* No S is missed: it has been seen or comes, and before it those with smaller counters.
QueueInv ==
    /\ \A m \in sent : m.counter \in seen \/ Queued(m, Len(queue))
    /\ \A i \in 1..Len(queue) : \A m \in sent :
           m.counter < queue[i].counter => m.counter \in seen \/ Queued(m, i - 1)

\* What was seen was sent, and all with smaller counters with it.
SeenInv ==
    /\ \A c \in seen : \E m \in sent : m.counter = c
    /\ \A c \in seen, m \in sent : m.counter < c => m.counter \in seen

\* What was seen has been or is being written, in order.
LoggedInv ==
    /\ \A m \in sent :
           m.counter \in seen => m = logging \/ \E i \in 1..Len(logged) : logged[i] = m
    /\ \A i \in 1..Len(logged) : logged[i].counter \in seen
    /\ \A i, j \in 1..Len(logged) : i < j => logged[i].counter < logged[j].counter
    /\ logging # None =>
           /\ logging.counter \in seen
           /\ \A i \in 1..Len(logged) : logged[i].counter < logging.counter

LogInv == QueueInv /\ SeenInv /\ LoggedInv

\* A publication behind everything else.
LEMMA QueueGrows ==
    ASSUME StatusInv, NEW S, sent \subseteq S, NEW e \in S, Publish(e), sent' \subseteq S,
           sent \subseteq sent', seen' = seen, QueueInv,
           \A m \in sent' : m \in sent \/ m = e,
           e.counter \in Nat, e \notin sent => \A m \in sent : e.counter >= m.counter
    PROVE  QueueInv'
<1>1. queue' = Append(queue, e) /\ queue \in Seq(S)
  BY PublishIs, SeqGrows DEF StatusInv, Process, queue
<1>2. /\ Len(queue) \in Nat /\ Len(queue') = Len(queue) + 1
      /\ \A i \in 1..Len(queue) : queue'[i] = queue[i]
      /\ queue'[Len(queue) + 1] = e
  BY <1>1, AppendIs
<1>3. \A m : \A n \in 0..Len(queue) : Queued(m, n) => Queued(m, n)'
  BY <1>2 DEF Queued
<1>4. PICK n \in Nat : n = Len(queue)
  BY <1>2
<1>5. \A m \in sent : m.counter \in seen \/ Queued(m, n)'
  BY <1>3, <1>4 DEF QueueInv
<1>6. \A m : Queued(m, n)' \/ m = e => Queued(m, n + 1)'
  BY <1>2, <1>4 DEF Queued
<1>7. \A m \in sent' : m.counter \in seen \/ Queued(m, n + 1)'
  BY <1>5, <1>6
<1>8. ASSUME NEW i \in 1..(n + 1), NEW m \in sent', m.counter < queue'[i].counter
      PROVE  m.counter \in seen \/ Queued(m, i - 1)'
  <2>1. CASE i = n + 1
    <3>1. m \in sent
      BY <1>2, <1>4, <1>8, <2>1
    <3> QED
      BY <1>5, <2>1, <3>1
  <2>2. CASE i # n + 1
    <3>1. i \in 1..Len(queue) /\ queue'[i] = queue[i] /\ i - 1 \in 0..Len(queue)
      BY <1>2, <1>4, <2>2
    <3>2. m \in sent
      <4>1. queue[i] \in sent /\ queue[i].counter \in Nat
        BY <3>1, ElementIs DEF StatusInv, Status, Process, queue
      <4> QED
        BY <1>8, <3>1, <4>1
    <3>3. m.counter \in seen \/ Queued(m, i - 1)
      BY <1>8, <3>1, <3>2 DEF QueueInv
    <3> QED
      BY <1>3, <3>1, <3>3
  <2> QED
    BY <2>1, <2>2
<1> QED
  BY <1>2, <1>4, <1>7, <1>8 DEF QueueInv

\* The head of the queue is taken, and has been seen by then.
LEMMA QueueShrinks ==
    ASSUME StatusInv, QueueInv, queue # <<>>, inbox' = Received("observer"), sent' = sent,
           seen \subseteq seen', Head(queue).counter \in seen'
    PROVE  QueueInv'
<1>1. queue' = Tail(queue) /\ queue \in Seq(sent)
  BY ReceivedIs DEF StatusInv, Process, queue
<1>2. PICK n \in Nat : n + 1 = Len(queue)
  BY <1>1, TailIs
<1>3. /\ Len(queue') = n
      /\ \A i \in 1..n : queue'[i] = queue[i + 1]
      /\ \A i \in 2..(n + 1) : queue'[i - 1] = queue[i]
      /\ queue[1].counter \in seen'
  BY <1>1, <1>2, TailIs
<1>4. ASSUME NEW m \in sent, NEW k \in 1..(n + 1), m.counter \in seen \/ Queued(m, k)
      PROVE  m.counter \in seen' \/ Queued(m, k - 1)'
  <2>1. CASE m.counter \in seen
    BY <2>1
  <2>2. CASE Queued(m, k)
    <3>1. PICK i \in 1..k : queue[i] = m
      BY <2>2 DEF Queued
    <3>2. CASE i = 1
      BY <1>3, <3>1, <3>2
    <3>3. CASE i # 1
      <4>1. i \in 2..(n + 1) /\ i - 1 \in 1..(k - 1)
        BY <3>1, <3>3
      <4>2. queue'[i - 1] = m
        BY <1>3, <3>1, <4>1
      <4> QED
        BY <4>1, <4>2 DEF Queued
    <3> QED
      BY <3>2, <3>3
  <2> QED
    BY <1>4, <2>1, <2>2
<1>5. \A m \in sent : m.counter \in seen' \/ Queued(m, n)'
  <2>1. \A m \in sent : m.counter \in seen \/ Queued(m, n + 1)
    BY <1>2 DEF QueueInv
  <2>2. n + 1 \in 1..(n + 1) /\ (n + 1) - 1 = n
    OBVIOUS
  <2> QED
    BY <1>4, <2>1, <2>2
<1>6. ASSUME NEW i \in 1..n, NEW m \in sent, m.counter < queue'[i].counter
      PROVE  m.counter \in seen' \/ Queued(m, i - 1)'
  <2>1. i + 1 \in 1..Len(queue) /\ m.counter < queue[i + 1].counter /\ (i + 1) - 1 = i
    BY <1>2, <1>3, <1>6
  <2>2. m.counter \in seen \/ Queued(m, i)
    BY <2>1 DEF QueueInv
  <2> QED
    BY <1>4, <2>2
<1> QED
  BY <1>3, <1>5, <1>6 DEF QueueInv

LEMMA SeenFacts ==
    ASSUME StatusInv, LogInv
    PROVE  /\ \A m \in sent : m.counter \in Nat
           /\ seen \subseteq Nat
           /\ queue \in Seq(sent)
           /\ Len(logged) \in Nat /\ \A i \in 1..Len(logged) : logged[i] \in sent
           /\ None \notin sent /\ logging \in sent \cup {None}
BY NoneIsNot, ElementIs DEF StatusInv, Status, Process, queue

\* A new S, or an old one again.
LEMMA LogSend ==
    ASSUME StatusInv, ShownInv, LogInv, SendStatus
    PROVE  LogInv'
<1>0. PICK m : m = [counter |-> device.counter + 1, version |-> device.version,
                    cert |-> device.cert]
  OBVIOUS
<1>1. /\ Publish(m) /\ sent' = sent \cup {m} /\ m.counter = device.counter + 1
      /\ UNCHANGED <<seen, logging, logged>>
  BY <1>0 DEF SendStatus, observer
<1>2. device.counter \in Nat /\ \A n \in sent : n.counter \in Nat /\ n.counter < m.counter
  BY <1>1 DEF StatusInv, Device, Status, ShownInv
<1>3. m.counter \in Nat /\ sent' = sent \cup {m} /\ \A c \in seen : c < m.counter
  BY <1>1, <1>2 DEF LogInv, SeenInv
<1>4. QueueInv'
  <2>1. PICK S : S = sent'
    OBVIOUS
  <2> QED
    BY <1>1, <1>2, <1>3, <2>1, QueueGrows DEF LogInv
<1>5. SeenInv'
  BY <1>1, <1>2, <1>3, SeenFacts DEF LogInv, SeenInv
<1>6. LoggedInv'
  BY <1>1, <1>3, SeenFacts DEF LogInv, LoggedInv
<1> QED
  BY <1>4, <1>5, <1>6 DEF LogInv

LEMMA LogAgain ==
    ASSUME StatusInv, LogInv, NEW e \in sent, Publish(e), UNCHANGED <<sent, seen, logging, logged>>
    PROVE  LogInv'
<1>1. QueueInv'
  BY QueueGrows, SeenFacts DEF LogInv
<1> QED
  BY <1>1 DEF LogInv, SeenInv, LoggedInv

LEMMA LogObserve ==
    ASSUME StatusInv, ShownInv, LogInv, Observe
    PROVE  LogInv'
<1>0. PICK x : x = Head(queue)
  OBVIOUS
<1>1. /\ queue # <<>> /\ logging = None /\ x.counter \notin seen
      /\ logging' = x /\ seen' = seen \cup {x.counter} /\ inbox' = Received("observer")
      /\ UNCHANGED <<sent, logged>>
  BY <1>0 DEF Observe, AlreadySeen, queue
<1>2. x \in sent /\ x.counter \in Nat /\ x = queue[1] /\ 1 \in 1..Len(queue)
  BY <1>0, <1>1, SeenFacts, TailIs
<1>3. QueueInv'
  BY <1>0, <1>1, QueueShrinks DEF LogInv
<1>4. \A m \in sent : m.counter < x.counter => m.counter \in seen
  BY <1>2 DEF LogInv, QueueInv, Queued
<1>5. \A c \in seen : c < x.counter
  BY <1>1, <1>2, SeenFacts DEF LogInv, SeenInv
<1>6. SeenInv'
  BY <1>1, <1>2, <1>4 DEF LogInv, SeenInv
<1>7. LoggedInv'
  <2>1. \A m \in sent : m.counter \in seen' => m = logging' \/ \E i \in 1..Len(logged) : logged[i] = m
    BY <1>1, <1>2, SeenFacts DEF ShownInv, LogInv, LoggedInv
  <2>2. \A i \in 1..Len(logged) : logged[i].counter \in seen /\ logged[i].counter < x.counter
    BY <1>5 DEF LogInv, LoggedInv
  <2> QED
    BY <1>1, <2>1, <2>2 DEF LogInv, LoggedInv
<1> QED
  BY <1>3, <1>6, <1>7 DEF LogInv

LEMMA LogWritten ==
    ASSUME StatusInv, LogInv, Log
    PROVE  LogInv'
<1>1. /\ logging # None /\ logged' = Append(logged, logging) /\ logging' = None
      /\ UNCHANGED <<sent, seen, inbox>>
  BY DEF Log, zigbee2mqtt
<1>2. logging \in sent /\ logged \in Seq(sent)
  BY <1>1 DEF StatusInv
<1>3. /\ Len(logged) \in Nat /\ Len(logged') = Len(logged) + 1
      /\ \A i \in 1..Len(logged) : logged'[i] = logged[i]
      /\ logged'[Len(logged) + 1] = logging
  BY <1>1, <1>2, AppendIs
<1>4. QueueInv' /\ SeenInv'
  BY <1>1 DEF LogInv, QueueInv, SeenInv, Queued, queue
<1>5. \A m \in sent : m.counter \in seen => \E i \in 1..Len(logged') : logged'[i] = m
  BY <1>3 DEF LogInv, LoggedInv
<1>6. \A i \in 1..Len(logged') : logged'[i].counter \in seen
  BY <1>1, <1>3 DEF LogInv, LoggedInv
<1>7. \A i, j \in 1..Len(logged') : i < j => logged'[i].counter < logged'[j].counter
  BY <1>1, <1>3 DEF LogInv, LoggedInv
<1> QED
  BY <1>1, <1>4, <1>5, <1>6, <1>7 DEF LogInv, LoggedInv

LEMMA LogNext ==
    ASSUME StatusInv, ShownInv, LogInv, StatusNext \/ UNCHANGED statusVars, Undisturbed'
    PROVE  LogInv'
<1>0. statusFaults' = 0 /\ statusFaults \in Nat
  BY DEF StatusInv, Undisturbed
<1>1. CASE SendStatus
  BY <1>1, LogSend
<1>2. CASE PublishAgain \/ Zigbee2mqttRestarts
  <2>1. PICK e \in sent : Publish(e)
    BY <1>2 DEF PublishAgain, Zigbee2mqttRestarts, StatusInv
  <2>2. UNCHANGED <<sent, seen, logging, logged>>
    BY <1>2 DEF PublishAgain, Zigbee2mqttRestarts, observer
  <2> QED
    BY <2>1, <2>2, LogAgain
<1>3. CASE UseCounter \/ DeviceBoots \/ SaveState \/ VerifyStatus \/ StoreStatus \/ UNCHANGED statusVars
  <2>1. UNCHANGED <<sent, seen, logging, logged>>
    BY <1>3 DEF UseCounter, DeviceBoots, SaveState, VerifyStatus, StoreStatus, statusVars, observer
  <2>2. queue' = queue
    <3>1. CASE VerifyStatus
      BY <3>1, ReceivedIs DEF VerifyStatus, Process, queue
    <3> QED
      BY <1>3, <3>1 DEF UseCounter, DeviceBoots, SaveState, StoreStatus, statusVars, zigbee2mqtt, queue
  <2> QED
    BY <2>1, <2>2 DEF LogInv, QueueInv, SeenInv, LoggedInv, Queued
<1>4. CASE Observe
  BY <1>4, LogObserve
<1>5. CASE Overlook
  <2>1. /\ queue # <<>> /\ Head(queue).counter \in seen /\ inbox' = Received("observer")
        /\ UNCHANGED <<sent, seen, logging, logged>>
    BY <1>5 DEF Overlook, AlreadySeen, observer, queue
  <2>2. QueueInv'
    BY <2>1, QueueShrinks DEF LogInv
  <2> QED
    BY <2>1, <2>2 DEF LogInv, SeenInv, LoggedInv
<1>6. CASE Log
  BY <1>6, LogWritten
<1>7. CASE FlashCertificate
  BY <1>7 DEF FlashCertificate, ShownInv
<1>8. ASSUME Fault PROVE FALSE
  BY <1>0, <1>8 DEF Fault
<1> QED
  BY <1>1, <1>2, <1>3, <1>4, <1>5, <1>6, <1>7, <1>8
  DEF StatusNext, ListenerStep, ObserverStep, LoseStatus, StatusGivesUp, StoreFails,
      LogFails, ObserverRestarts, ReplaceCertificate

-----------------------------------------------------------------------------
(* ActivityFeed: the largest, the first *)

LEMMA PairIs ==
    ASSUME NEW a \in Int, NEW b \in Int
    PROVE  /\ Max({a, b}) \in {a, b} /\ Max({a, b}) >= a /\ Max({a, b}) >= b
           /\ Min({a, b}) \in {a, b} /\ Min({a, b}) <= a /\ Min({a, b}) <= b
<1>1. \E x \in {a, b} : \A y \in {a, b} : x >= y
  BY a >= b \/ b >= a
<1>2. \E x \in {a, b} : \A y \in {a, b} : x <= y
  BY a <= b \/ b <= a
<1>3. Max({a, b}) \in {a, b} /\ \A y \in {a, b} : Max({a, b}) >= y
  BY <1>1 DEF Max
<1>4. Min({a, b}) \in {a, b} /\ \A y \in {a, b} : Min({a, b}) <= y
  BY <1>2 DEF Min
<1> QED
  BY <1>3, <1>4

\* A bounded set of numbers has a largest: what is furthest from the bound is least.
LEMMA LargestIs ==
    ASSUME NEW n \in Nat, NEW S \in SUBSET (0..n), S # {}
    PROVE  Max(S) \in S /\ \A y \in S : Max(S) >= y
<1> DEFINE R == OpToRel(<, Nat)
           T == {n - x : x \in S}
<1>1. \A u, t \in Nat : <<u, t>> \in R <=> u < t
  BY Zenon DEF OpToRel
<1>2. IsWellFoundedOn(R, Nat)
  BY NatLessThanWellFounded, Zenon
<1> HIDE DEF R
<1>3. T \subseteq Nat /\ T # {}
  <2>1. \A x \in S : n - x \in Nat
    OBVIOUS
  <2> QED
    BY <2>1, Zenon
<1> HIDE DEF T
<1>4. PICK t \in T : \A u \in T : ~(<<u, t>> \in R)
  BY <1>2, <1>3, WFMin, Zenon
<1>5. \A u \in T : ~(u < t)
  BY <1>1, <1>3, <1>4
<1>6. PICK x \in S : t = n - x
  BY DEF T
<1>7. ASSUME NEW y \in S PROVE x >= y
  <2>1. n - y \in T
    BY DEF T
  <2> QED
    BY <1>5, <1>6, <2>1
<1> QED
  BY <1>7 DEF Max

\* The rows an ORDER BY .. LIMIT returns.
LEMMA FirstIs ==
    ASSUME NEW S \in SUBSET (1..MaxRows), NEW p \in [1..Min({PageSize, Cardinality(S)}) -> S]
    PROVE  /\ p \in Seq(S) /\ Len(p) \in 0..PageSize /\ Range(p) \subseteq S
           /\ DOMAIN p = 1..Len(p)
<1>1. IsFiniteSet(1..MaxRows)
  BY FeedAssumption, FS_Interval
<1>2. IsFiniteSet(S)
  BY <1>1, FS_Subset
<1>3. Cardinality(S) \in Nat
  BY <1>2, FS_CardinalityType
<1>4. PICK k : k = Min({PageSize, Cardinality(S)})
  OBVIOUS
<1>5. k \in 0..PageSize /\ p \in [1..k -> S]
  <2>1. PageSize \in Nat /\ PageSize \in Int /\ Cardinality(S) \in Int
    BY <1>3, FeedAssumption
  <2>2. (k = PageSize \/ k = Cardinality(S)) /\ k <= PageSize
    BY <2>1, <1>4, PairIs
  <2> QED
    BY <1>3, <1>4, <2>1, <2>2
<1>6. p \in Seq(S) /\ Len(p) = k
  BY <1>5
<1> QED
  BY <1>4, <1>5, <1>6, FeedAssumption DEF Range

-----------------------------------------------------------------------------
(* ActivityFeed: the types *)

Stream == [on : BOOLEAN, last : 0..MaxRows, batch : Seq(1..MaxRows)]

LogTypes ==
    /\ clock \in 0..MaxTime /\ read \in [Writers -> -1..MaxTime]
    /\ createdAt \in [1..lastId -> 0..MaxTime]
    /\ lastId \in 0..MaxRows /\ open \in [Writers -> 0..MaxRows] /\ rows \subseteq 1..MaxRows

PageTypes ==
    /\ stream \in Stream
    /\ page \in Seq(1..MaxRows) /\ Len(page) <= PageSize
    /\ after \in -1..MaxRows /\ lastEvent \in 0..MaxRows /\ drops \in 0..MaxDrops

\* What was on the page is behind the place the stream goes on from, and what the stream
\* has read is in front of it and in the order of the ids.
StreamInv ==
    /\ after = -1 => shown = {} /\ ~stream.on
    /\ shown \subseteq 1..MaxRows
    /\ \A i \in shown : i <= after \/ i <= lastEvent
    /\ stream.on => \A i \in shown : i <= stream.last
    /\ \A j \in 1..Len(stream.batch) : stream.last < stream.batch[j]
    /\ \A j, k \in 1..Len(stream.batch) : j < k => stream.batch[j] < stream.batch[k]

FeedInv == LogTypes /\ PageTypes /\ StreamInv

LEMMA FeedInvInit == FeedInit => FeedInv
<1> SUFFICES ASSUME FeedInit PROVE FeedInv
  OBVIOUS
<1>1. <<>> \in Seq(1..MaxRows) /\ Len(<<>>) = 0 /\ <<>> \in [1..0 -> 0..MaxTime]
  OBVIOUS
<1>2. stream \in Stream /\ stream.batch = <<>>
  BY <1>1, FeedAssumption DEF FeedInit, NoStream, Stream
<1>3. LogTypes
  BY <1>1, FeedAssumption DEF FeedInit, LogTypes
<1>4. PageTypes
  BY <1>1, <1>2, FeedAssumption DEF FeedInit, PageTypes
<1>5. StreamInv
  BY <1>1, <1>2 DEF FeedInit, NoStream, StreamInv
<1> QED
  BY <1>3, <1>4, <1>5 DEF FeedInv

LEMMA FeedInvTypes == ASSUME FeedInv PROVE FeedTypeOK
<1>1. stream.on \in BOOLEAN /\ stream.last \in 0..MaxRows /\ stream.batch \in Seq(1..MaxRows)
  BY Zenon DEF FeedInv, PageTypes, Stream
<1> QED
  BY <1>1 DEF FeedInv, LogTypes, PageTypes, FeedTypeOK

-----------------------------------------------------------------------------
(* ActivityFeed: the log *)

\* A row is written to the log (record_activity).
LEMMA WriterStep ==
    ASSUME FeedInv, NEW w \in Writers, ReadClock(w) \/ Insert(w) \/ Commit(w) \/ Rollback(w)
    PROVE  LogTypes' /\ UNCHANGED <<stream, browser, drops, shown>>
<1> USE FeedAssumption DEF FeedInv, LogTypes
<1>1. CASE ReadClock(w)
  BY <1>1 DEF ReadClock, browser
<1>2. CASE Insert(w)
  <2>1. /\ read[w] \in 0..MaxTime /\ lastId' = lastId + 1 /\ lastId' \in 0..MaxRows
        /\ createdAt' = Append(createdAt, read[w])
        /\ read' = [read EXCEPT ![w] = -1] /\ open' = [open EXCEPT ![w] = lastId + 1]
        /\ UNCHANGED <<clock, rows, stream, browser, drops, shown>>
    BY <1>2 DEF Insert
  <2>2. createdAt \in Seq(0..MaxTime) /\ Len(createdAt) = lastId
    OBVIOUS
  <2>3. createdAt' \in Seq(0..MaxTime) /\ Len(createdAt') = lastId'
    BY <2>1, <2>2, AppendIs
  <2>4. createdAt' \in [1..lastId' -> 0..MaxTime]
    BY <2>3, FunctionIs, Zenon
  <2> QED
    BY <2>1, <2>4
<1>3. CASE Commit(w)
  <2>1. /\ rows' = rows \cup {open[w]} /\ open' = [open EXCEPT ![w] = 0] /\ open[w] # 0
        /\ UNCHANGED <<clock, read, lastId, createdAt, stream, browser, drops, shown>>
    BY <1>3 DEF Commit
  <2>2. open' \in [Writers -> 0..MaxRows] /\ open[w] \in 1..MaxRows
    BY <2>1
  <2> QED
    BY <2>1, <2>2
<1>4. CASE Rollback(w)
  BY <1>4 DEF Rollback, browser
<1> QED
  BY <1>1, <1>2, <1>3, <1>4

\* Nothing the page or the stream has changes.
LEMMA PageStays ==
    ASSUME FeedInv, LogTypes', UNCHANGED <<stream, browser, shown>>, drops' \in 0..MaxDrops
    PROVE  FeedInv' /\ page' = page
BY DEF FeedInv, PageTypes, StreamInv, browser

-----------------------------------------------------------------------------
(* ActivityFeed: the page and its stream *)

\* The stream opened behind all that was on the page (EventSource).
LEMMA StreamOpens ==
    ASSUME FeedInv, NEW n \in 0..MaxRows, stream' = [on |-> TRUE, last |-> n, batch |-> <<>>],
           after' \in 0..MaxRows, shown' \subseteq 1..MaxRows,
           \A i \in shown' : i <= n /\ (i <= after' \/ i <= lastEvent')
    PROVE  stream' \in Stream /\ StreamInv'
<1>1. <<>> \in Seq(1..MaxRows) /\ Len(<<>>) = 0
  OBVIOUS
<1>2. stream'.on = TRUE /\ stream'.last = n /\ stream'.batch = <<>>
  OBVIOUS
<1>3. stream' \in Stream
  BY <1>1 DEF Stream
<1>4. after' # -1
  OBVIOUS
<1> QED
  BY <1>1, <1>2, <1>3, <1>4 DEF StreamInv

LEMMA LoadPageStep ==
    ASSUME FeedInv, LoadPage
    PROVE  FeedInv' /\ shown = {}
<1>1. /\ page' \in Newest /\ after' = Max({0} \cup Range(page')) /\ shown' = Range(page')
      /\ stream' = [on |-> TRUE, last |-> after', batch |-> <<>>]
      /\ after = -1 /\ UNCHANGED <<clock, read, lastId, createdAt, open, rows, lastEvent, drops>>
  BY DEF LoadPage, log
<1>2. /\ page' \in Seq(rows) /\ Len(page') \in 0..PageSize /\ Range(page') \subseteq rows
  BY <1>1, FirstIs DEF Newest, FirstOf, FeedInv, LogTypes
<1>3. rows \subseteq 1..MaxRows /\ LogTypes'
  BY <1>1 DEF FeedInv, LogTypes
<1>4. page' \in Seq(1..MaxRows)
  BY <1>2, <1>3, SeqGrows
<1>5. after' \in 0..MaxRows /\ \A i \in Range(page') : i <= after'
  <2>1. PICK S : S = {0} \cup Range(page')
    OBVIOUS
  <2>2. S \subseteq 0..MaxRows /\ S # {} /\ MaxRows \in Nat
    <3>1. MaxRows \in Nat /\ 0 \in 0..MaxRows /\ \A i \in rows : i \in 0..MaxRows
      BY <1>3, FeedAssumption
    <3> QED
      BY <1>2, <2>1, <3>1, Zenon
  <2>3. Max(S) \in S /\ \A i \in S : i <= Max(S)
    BY <2>2, LargestIs
  <2> QED
    BY <1>1, <2>1, <2>2, <2>3
<1>6. PICK n \in 0..MaxRows : n = after'
  BY <1>5
<1>7. stream' \in Stream /\ StreamInv'
  BY <1>1, <1>2, <1>3, <1>5, <1>6, StreamOpens
<1>8. PageTypes'
  BY <1>1, <1>2, <1>4, <1>5, <1>7 DEF FeedInv, PageTypes
<1> QED
  BY <1>1, <1>3, <1>7, <1>8 DEF FeedInv, StreamInv

LEMMA ReconnectStep ==
    ASSUME FeedInv, Reconnect
    PROVE  FeedInv' /\ page' = page
<1>1. /\ after # -1 /\ stream' = [on |-> TRUE, last |-> Max({after, lastEvent}), batch |-> <<>>]
      /\ UNCHANGED <<log, browser, drops, shown>>
  BY DEF Reconnect, Resumes
<1>2. after \in 0..MaxRows /\ lastEvent \in 0..MaxRows
  BY <1>1 DEF FeedInv, PageTypes
<1>3. PICK n \in 0..MaxRows : n = Max({after, lastEvent})
  BY <1>2, PairIs
<1>4. n >= after /\ n >= lastEvent
  BY <1>2, <1>3, PairIs
<1>5. stream' \in Stream /\ StreamInv'
  <2>1. /\ after' = after /\ lastEvent' = lastEvent /\ shown' = shown
        /\ shown \subseteq 1..MaxRows /\ \A i \in shown : i <= after \/ i <= lastEvent
    BY <1>1 DEF FeedInv, StreamInv, browser
  <2>2. \A i \in shown : i <= n
    BY <1>2, <1>4, <2>1
  <2> QED
    BY <1>1, <1>2, <1>3, <2>1, <2>2, StreamOpens
<1> QED
  BY <1>1, <1>5 DEF FeedInv, LogTypes, PageTypes, log, browser

LEMMA PollStep ==
    ASSUME FeedInv, Poll
    PROVE  FeedInv' /\ page' = page
<1>1. PICK p \in Reads : stream' = [stream EXCEPT !.batch = p]
  BY DEF Poll
<1>2. UNCHANGED <<log, browser, drops, shown>>
  BY DEF Poll
<1>3. Following \subseteq 1..MaxRows /\ \A i \in Following : stream.last < i
  BY DEF Following, FeedInv, LogTypes, PageTypes, Stream
<1>4. /\ p \in Seq(Following) /\ DOMAIN p = 1..Len(p)
      /\ \A j, k \in DOMAIN p : j < k => p[j] < p[k]
  BY <1>1, <1>3, FirstIs DEF Reads, FirstOf
<1>5. p \in Seq(1..MaxRows) /\ \A j \in 1..Len(p) : stream.last < p[j]
  BY <1>3, <1>4, SeqGrows, ElementIs
<1>6. stream \in Stream
  BY DEF FeedInv, PageTypes
<1>7. stream' \in Stream
  BY <1>1, <1>5, <1>6, Zenon DEF Stream
<1>8. stream'.batch = p /\ stream'.last = stream.last /\ stream'.on = stream.on
  BY <1>1, <1>6 DEF Stream
<1>9. StreamInv'
  BY <1>2, <1>4, <1>5, <1>8 DEF FeedInv, StreamInv, browser
<1> QED
  BY <1>2, <1>7, <1>9 DEF FeedInv, LogTypes, PageTypes, log, browser

LEMMA InsertedIs ==
    ASSUME NEW s \in Seq(1..MaxRows), s = page, Len(page) <= PageSize, NEW i \in 1..MaxRows
    PROVE  /\ Inserted(i) \in Seq(1..MaxRows) /\ Len(Inserted(i)) <= PageSize
           /\ Range(Inserted(i)) \subseteq Range(page) \cup {i}
<1>1. CASE i \in Range(page)
  BY <1>1 DEF Inserted
<1>2. CASE i \notin Range(page)
  <2>1. PICK t \in Seq(1..MaxRows) : t = <<i>> \o page
    <3>1. <<i>> \in Seq(1..MaxRows)
      OBVIOUS
    <3> QED
      BY <3>1, ConcatProperties
  <2>2. /\ Len(t) = Len(page) + 1 /\ Len(page) \in Nat /\ t[1] = i
        /\ \A j \in 2..Len(t) : t[j] = page[j - 1] /\ j - 1 \in 1..Len(page)
    BY <2>1
  <2>3. PICK n : n = Min({PageSize, Len(page) + 1})
    OBVIOUS
  <2>4. n \in 1..Len(t) /\ n <= PageSize
    <3>1. PageSize \in Int /\ PageSize >= 1 /\ Len(page) + 1 \in Int
      BY <2>2, FeedAssumption
    <3>2. (n = PageSize \/ n = Len(page) + 1) /\ n <= PageSize /\ n <= Len(page) + 1
      BY <2>3, <3>1, PairIs
    <3> QED
      BY <2>2, <3>1, <3>2
  <2>5. Inserted(i) = SubSeq(t, 1, n)
    BY <1>2, <2>1, <2>3 DEF Inserted
  <2>6. /\ SubSeq(t, 1, n) \in Seq(1..MaxRows) /\ Len(SubSeq(t, 1, n)) = n
        /\ \A j \in 1..n : SubSeq(t, 1, n)[j] = t[j]
    <3>1. \A j \in 1..n : t[j] \in 1..MaxRows
      <4>1. \A j \in 1..Len(t) : t[j] \in 1..MaxRows
        BY ElementIs
      <4>2. \A j \in 1..n : j \in 1..Len(t)
        BY <2>2, <2>4
      <4> QED
        BY <4>1, <4>2
    <3> QED
      BY <2>4, <3>1, SubSeqProperties
  <2>7. \A j \in 1..n : t[j] = i \/ t[j] \in Range(page)
    BY <2>2, <2>4 DEF Range
  <2>8. DOMAIN SubSeq(t, 1, n) = 1..n
    BY <2>6, ElementIs
  <2> QED
    BY <2>4, <2>5, <2>6, <2>7, <2>8 DEF Range
<1> QED
  BY <1>1, <1>2

LEMMA SendRowStep ==
    ASSUME FeedInv, SendRow
    PROVE  FeedInv' /\ Range(page') \cap shown \subseteq Range(page)
<1>1. PICK i : i = Head(stream.batch)
  OBVIOUS
<1>2. /\ stream.on /\ stream.batch # <<>>
      /\ page' = Inserted(i) /\ lastEvent' = i /\ shown' = shown \cup {i}
      /\ stream' = [stream EXCEPT !.last = i, !.batch = Tail(stream.batch)]
      /\ UNCHANGED <<log, after, drops>>
  BY <1>1 DEF SendRow
<1>3. stream \in Stream /\ stream.batch \in Seq(1..MaxRows) /\ stream.last \in 0..MaxRows
  BY DEF FeedInv, PageTypes, Stream
<1>4. PICK b \in Seq(1..MaxRows) : b = stream.batch
  BY <1>3
<1>5. i = b[1] /\ i \in 1..MaxRows /\ Len(b) \in Nat \ {0} /\ Tail(b) \in Seq(1..MaxRows)
  BY <1>1, <1>2, <1>4, TailIs
<1>6. Len(Tail(b)) = Len(b) - 1 /\ \A j \in 1..(Len(b) - 1) : Tail(b)[j] = b[j + 1]
  BY <1>2, <1>4, TailIs
<1>7. /\ stream.last < i
      /\ \A j, k \in 1..Len(b) : j < k => b[j] < b[k]
  BY <1>4, <1>5 DEF FeedInv, StreamInv
<1>8. stream' \in Stream
  <2>1. [stream EXCEPT !.last = i] \in Stream
    <3>1. i \in 0..MaxRows
      BY <1>5
    <3> QED
      BY <1>3, <3>1, Zenon DEF Stream
  <2> QED
    BY <1>2, <1>4, <1>5, <2>1, Zenon DEF Stream
<1>9. stream'.last = i /\ stream'.batch = Tail(b) /\ stream'.on = stream.on
  BY <1>2, <1>3, <1>4 DEF Stream
<1>10. /\ page' \in Seq(1..MaxRows) /\ Len(page') <= PageSize
       /\ Range(page') \subseteq Range(page) \cup {i}
  BY <1>2, <1>5, InsertedIs DEF FeedInv, PageTypes
<1>11. \A k \in shown : k < i /\ k \in 1..MaxRows
  BY <1>2, <1>3, <1>5, <1>7 DEF FeedInv, StreamInv
<1>12. StreamInv'
  <2>1. after' = after /\ after # -1
    BY <1>2 DEF FeedInv, StreamInv
  <2>2. shown' \subseteq 1..MaxRows /\ \A k \in shown' : k <= i
    BY <1>2, <1>5, <1>11
  <2>3. \A j \in 1..Len(Tail(b)) : Tail(b)[j] = b[j + 1] /\ j + 1 \in 1..Len(b) /\ 1 < j + 1
    BY <1>5, <1>6
  <2>4. \A j \in 1..Len(Tail(b)) : i < Tail(b)[j]
    BY <1>5, <1>7, <2>3
  <2>5. \A j, k \in 1..Len(Tail(b)) : j < k => Tail(b)[j] < Tail(b)[k]
    BY <1>5, <1>6, <1>7, <2>3
  <2> QED
    BY <1>2, <1>9, <2>1, <2>2, <2>4, <2>5 DEF StreamInv
<1>13. PageTypes'
  BY <1>2, <1>5, <1>8, <1>10 DEF FeedInv, PageTypes
<1>14. LogTypes'
  BY <1>2 DEF FeedInv, LogTypes, log
<1> QED
  BY <1>10, <1>11, <1>12, <1>13, <1>14 DEF FeedInv

LEMMA FeedStep ==
    ASSUME FeedInv, FeedNext \/ UNCHANGED feedVars
    PROVE  FeedInv' /\ Range(page') \cap shown \subseteq Range(page)
<1>1. CASE Tick
  <2>1. LogTypes' /\ UNCHANGED <<stream, browser, drops, shown>>
    BY <1>1, FeedAssumption DEF Tick, FeedInv, LogTypes
  <2> QED
    BY <2>1, PageStays DEF FeedInv, PageTypes
<1>2. ASSUME NEW w \in Writers, ReadClock(w) \/ Insert(w) \/ Commit(w) \/ Rollback(w)
      PROVE  FeedInv' /\ page' = page
  <2>1. LogTypes' /\ UNCHANGED <<stream, browser, drops, shown>>
    BY <1>2, WriterStep
  <2> QED
    BY <2>1, PageStays DEF FeedInv, PageTypes
<1>3. CASE LoadPage
  BY <1>3, LoadPageStep
<1>4. CASE Poll
  BY <1>4, PollStep
<1>5. CASE SendRow
  BY <1>5, SendRowStep
<1>6. CASE Reconnect
  BY <1>6, ReconnectStep
<1>7. CASE Drop
  <2>1. stream' = NoStream /\ drops' = drops + 1 /\ drops < MaxDrops /\ UNCHANGED <<log, browser, shown>>
    BY <1>7 DEF Drop
  <2>2. <<>> \in Seq(1..MaxRows) /\ Len(<<>>) = 0
    OBVIOUS
  <2>3. stream' \in Stream /\ ~stream'.on /\ stream'.batch = <<>>
    BY <2>1, <2>2, FeedAssumption DEF NoStream, Stream
  <2>4. PageTypes' /\ LogTypes' /\ page' = page
    BY <2>1, <2>3, FeedAssumption DEF FeedInv, LogTypes, PageTypes, log, browser
  <2>5. StreamInv'
    BY <2>1, <2>2, <2>3 DEF FeedInv, StreamInv, browser
  <2> QED
    BY <2>4, <2>5 DEF FeedInv
<1>8. CASE ClearLog
  <2>1. /\ rows' = {} /\ drops' = drops + 1 /\ drops < MaxDrops
        /\ UNCHANGED <<clock, read, lastId, createdAt, open, stream, browser, shown>>
    BY <1>8 DEF ClearLog
  <2>2. LogTypes'
    BY <2>1 DEF FeedInv, LogTypes
  <2>3. drops' \in 0..MaxDrops
    BY <2>1, FeedAssumption DEF FeedInv, PageTypes
  <2> QED
    BY <2>1, <2>2, <2>3, PageStays
<1>9. CASE UNCHANGED feedVars
  BY <1>9, PageStays DEF feedVars, log, FeedInv, LogTypes, PageTypes
<1> QED
  BY <1>1, <1>2, <1>3, <1>4, <1>5, <1>6, <1>7, <1>8, <1>9 DEF FeedNext, StreamStep

-----------------------------------------------------------------------------
(* The theorems *)

FreshInv == Undisturbed => ShownInv /\ LogInv

WatchInv == StatusInv /\ FreshInv /\ FeedInv

LEMMA WatchInit == Init => WatchInv
<1> SUFFICES ASSUME Init PROVE WatchInv
  OBVIOUS
<1>1. StatusInv /\ FeedInv
  BY StatusInvInit, FeedInvInit DEF Init
<1>2. row.cert = 1 /\ device.cert = 1 /\ device.task /\ sent = {} /\ seen = {}
  BY DEF Init, StatusInit
<1>3. Len(logged) = 0 /\ Len(queue) = 0 /\ logging = None
  BY DEF Init, StatusInit, queue
<1>4. ShownInv
  BY <1>2 DEF ShownInv
<1>5. LogInv
  BY <1>2, <1>3 DEF LogInv, QueueInv, SeenInv, LoggedInv
<1> QED
  BY <1>1, <1>4, <1>5 DEF WatchInv, FreshInv

\* Faults are only counted up.
LEMMA StillUndisturbed ==
    ASSUME StatusInv, StatusNext \/ UNCHANGED statusVars, Undisturbed'
    PROVE  Undisturbed
<1>1. statusFaults' = statusFaults \/ statusFaults' = statusFaults + 1
  BY DEF StatusNext, SendStatus, UseCounter, DeviceBoots, PublishAgain, SaveState,
         Zigbee2mqttRestarts, ListenerStep, VerifyStatus, StoreStatus, ObserverStep, Observe,
         Overlook, Log, LoseStatus, StatusGivesUp, StoreFails, LogFails, ObserverRestarts,
         ReplaceCertificate, FlashCertificate, Fault, statusVars
<1> QED
  BY <1>1 DEF StatusInv, Undisturbed

LEMMA WatchNext ==
    ASSUME WatchInv, [Next]_vars
    PROVE  WatchInv' /\ [Range(page') \cap shown \subseteq Range(page)]_feedVars
<1>1. StatusNext \/ UNCHANGED statusVars
  BY DEF Next, vars
<1>2. FeedNext \/ UNCHANGED feedVars
  BY DEF Next, vars
<1>3. StatusInv'
  BY <1>1, StatusInvNext DEF WatchInv
<1>4. FreshInv'
  BY <1>1, StillUndisturbed, ShownNext, LogNext DEF WatchInv, FreshInv
<1>5. FeedInv' /\ Range(page') \cap shown \subseteq Range(page)
  BY <1>2, FeedStep DEF WatchInv
<1> QED
  BY <1>3, <1>4, <1>5 DEF WatchInv

\* The variables of both have their types.
THEOREM WatchTypes == Spec => []TypeOK
<1>1. WatchInv => TypeOK
  BY StatusInvTypes, FeedInvTypes DEF WatchInv, TypeOK
<1> QED
  BY <1>1, WatchInit, WatchNext, PTL DEF Spec

\* The version in the row was sent under the counter beside it, whatever replaced the
\* certificate between the check of the signature and the write (status_listener.py:88).
THEOREM OnlySentIsShown == Spec => []ShownWasSent
<1>1. WatchInv => ShownWasSent
  BY DEF WatchInv, StatusInv, ShownWasSent
<1> QED
  BY <1>1, WatchInit, WatchNext, PTL DEF Spec

\* Nothing lost and all delivered, the row has the firmware the device runs, whatever was
\* published again in between (device_registry.py:249).
THEOREM LatestIsShown == Spec => []RunningIsShown
<1>1. ASSUME WatchInv, Undisturbed, Delivered, ~device.task PROVE row.version = device.version
  <2>1. StatusInv /\ ShownInv
    BY <1>1 DEF WatchInv, FreshInv
  <2>2. PICK m \in sent : m.version = device.version /\ \A n \in sent : n.counter <= m.counter
    BY <1>1, <2>1 DEF ShownInv
  <2>3. ~Coming(m)
    <3>1. Len(inbox["listener"]) = 0 /\ verified # m
      BY <1>1, <2>1, NoneIsNot DEF Delivered
    <3> QED
      BY <3>1 DEF Coming
  <2>4. row.counter >= m.counter /\ m.counter \in Nat \ {0} /\ row.counter \in Nat
    BY <2>1, <2>3 DEF ShownInv, StatusInv, Status, Row
  <2>5. PICK n \in sent : n.counter = row.counter /\ n.version = row.version
    BY <2>1, <2>4 DEF StatusInv
  <2>6. n = m
    BY <2>1, <2>2, <2>4, <2>5 DEF ShownInv
  <2> QED
    BY <2>2, <2>5, <2>6
<1>2. WatchInv => RunningIsShown
  BY <1>1 DEF RunningIsShown
<1> QED
  BY <1>2, WatchInit, WatchNext, PTL DEF Spec

\* Nothing lost, the activity log has each S once, in the order in which the device sent
\* them (mqtt_observer.py:84).
THEOREM EachIsLoggedOnce == Spec => []LoggedOnce
<1>1. ASSUME WatchInv, Undisturbed
      PROVE  /\ \A i, j \in DOMAIN logged : i < j => logged[i].counter < logged[j].counter
             /\ Delivered => \A m \in sent : \E i \in DOMAIN logged : logged[i] = m
  <2>1. StatusInv /\ LogInv
    BY <1>1 DEF WatchInv, FreshInv
  <2>2. DOMAIN logged = 1..Len(logged)
    BY <2>1, ElementIs DEF StatusInv
  <2>3. ASSUME Delivered, NEW m \in sent PROVE \E i \in DOMAIN logged : logged[i] = m
    <3>1. Len(queue) = 0 /\ m # logging
      BY <2>1, <2>3, NoneIsNot DEF Delivered, queue
    <3>2. m.counter \in seen
      BY <2>1, <3>1 DEF LogInv, QueueInv, Queued
    <3> QED
      BY <2>1, <2>2, <3>1, <3>2 DEF LogInv, LoggedInv
  <2> QED
    BY <2>1, <2>2, <2>3 DEF LogInv, LoggedInv
<1>2. WatchInv => LoggedOnce
  BY <1>1 DEF LoggedOnce
<1> QED
  BY <1>2, WatchInit, WatchNext, PTL DEF Spec

\* A row that has left the page does not come back on top of newer ones, through broken
\* connections and clearings of the log (live_server_mysql.py:41, activity.py:236).
THEOREM GoneStaysGone == Spec => NoRowReturns
BY WatchInit, WatchNext, PTL DEF Spec, NoRowReturns
=============================================================================
