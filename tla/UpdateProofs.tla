---------------------------- MODULE UpdateProofs ----------------------------
(***************************************************************************)
(* Proofs about FirmwareUpdate: its type correctness, that only a download *)
(* sent to the end is confirmed, and only a verified one while a single    *)
(* CHECK is ever sent, that a device installs the build that its CHECK was *)
(* made for, that an update which nothing disturbs ends confirmed, and that*)
(* the grants are used as GrantPromise says.                               *)
(***************************************************************************)
EXTENDS FirmwareUpdate, SequenceTheorems, TLAPS

-----------------------------------------------------------------------------
(* The inductive invariant *)

\* Grant g has been made, and is for this image.
IsFor(g, image) == g \in 1..made /\ grants[g].offer.image = image

\* The numbers of the grants are those given out.
DispatchInv ==
    /\ sender.pc = "publish" => made # 0
    /\ \A g \in GrantIds : grants[g].state = "none" <=> g > made

\* A grant is used up by a download sent to the end, and confirmed after.
UsedInv ==
    /\ \A g \in GrantIds : grants[g].state = "used" => g \in sent
    /\ confirming # 0 => confirming \in sent

\* The steps before the headers are sent.
Unanswered == {"look", "check", "start", "again", "recheck", "open"}

\* A thread that sends, or an answer under way, is of the image its grant is
\* for, whatever has become of the grant.
RequestGood(q) ==
    /\ q.pc # "idle" => q.grant # 0
    /\ q.pc \in {"open", "sending", "book", "consume"} =>
          IsFor(q.grant, q.image)
    /\ q.answer \in {"ok", "all"} => q.body # 0 /\ IsFor(q.grant, q.image)
    /\ q.pc = "sending" => q.body # 0
    /\ q.pc \in Unanswered => q.answer = "none"
    /\ q.pc \in {"book", "consume"} => q.grant \in sent

RequestInv == \A r \in Requests : RequestGood(requests[r])

\* The device reads what it asked for, and installs it if it is that.
DownloadInv ==
    /\ task.pc # "idle" => task.check # 0
    /\ task.pc # "cleanup" => task.error = "OK"
    /\ connection # NoThread =>
          /\ task.pc \in {"headers", "read"}
          /\ requests[connection].grant = task.check
    /\ task.pc \in {"read", "verify", "install"} =>
          task.body # 0 /\ IsFor(task.check, task.sha256)
    /\ task.pc = "install" => task.body = task.sha256

\* There is no F, in any stage from the device to the row, before a download
\* was verified.
Reporting ==
    \/ task.pc \in {"install", "restart"} \/ otaState = "SUCCESS"
    \/ monitor = "report" \/ \E i \in DOMAIN uplink : uplink[i] # 0
    \/ cached # 0 \/ confirming # 0

VerifyInv == Reporting => verified # {}

ServerInv == GrantsTypeOK /\ DispatchInv /\ UsedInv /\ RequestInv
UpdateInv == TypeOK /\ DispatchInv /\ UsedInv /\ RequestInv /\ DownloadInv
             /\ VerifyInv

\* What the device relies on: the server forgets no grant's image, and a
\* thread keeps its token.
OffersStay ==
    /\ sent \subseteq sent' /\ made <= made'
    /\ \A g \in 1..made : grants'[g].offer = grants[g].offer
TokensStay == \A r \in Requests : requests'[r].grant = requests[r].grant

-----------------------------------------------------------------------------
(* Lemmas about sequences *)

LEMMA AppendIs ==
    ASSUME NEW S, NEW s \in Seq(S), NEW e \in S
    PROVE  /\ Append(s, e) \in Seq(S)
           /\ DOMAIN s = 1..Len(s) /\ Len(s) \in Nat
           /\ DOMAIN Append(s, e) = 1..(Len(s) + 1)
           /\ \A i \in 1..Len(s) : Append(s, e)[i] = s[i]
           /\ Append(s, e)[Len(s) + 1] = e
  OBVIOUS

LEMMA TailIs ==
    ASSUME NEW S, NEW s \in Seq(S), s # <<>>
    PROVE  /\ Head(s) \in S /\ Tail(s) \in Seq(S)
           /\ DOMAIN s = 1..Len(s) /\ Len(s) \in Nat \ {0}
           /\ Head(s) = s[1]
           /\ DOMAIN Tail(s) = 1..(Len(s) - 1)
           /\ \A i \in 1..(Len(s) - 1) : Tail(s)[i] = s[i + 1]
  OBVIOUS

LEMMA EmptyIs == ASSUME NEW S PROVE <<>> \in Seq(S) /\ DOMAIN <<>> = {}
  OBVIOUS

-----------------------------------------------------------------------------
(* The server *)

LEMMA Offers ==
    /\ MaxBuild \in Nat \ {0} /\ MaxGrants \in Nat \ {0}
    /\ FirstBuild \in Builds /\ Builds \subseteq 0..MaxBuild
    /\ NoOffer \in Offer
    /\ \A i, v \in 0..MaxBuild : [image |-> i, version |-> v] \in Offer
  BY StoreAssumption, UpdateAssumption, OtaServiceAssumption, GrantsAssumption
     DEF Builds, NoOffer, Offer

\* A step that leaves the grants, the requests and the confirmation alone.
LEMMA SameGrants ==
    ASSUME UNCHANGED <<grants, made, sent, requests, confirming>>,
           DispatchInv, UsedInv, RequestInv,
           sender'.pc = "publish" => sender.pc = "publish",
           GrantsTypeOK
    PROVE  /\ DispatchInv' /\ UsedInv' /\ RequestInv'
           /\ OffersStay /\ TokensStay
  BY GrantsAssumption
     DEF DispatchInv, UsedInv, RequestInv, RequestGood, IsFor, OffersStay,
         TokensStay, GrantsTypeOK

LEMMA StoreSteps ==
    ASSUME ServerInv, UNCHANGED grantVars, faults' \in 0..MaxFaults,
           \/ PublishStep
           \/ \E b \in Builds : PublishBegins(b)
           \/ \E s \in Scanners : ScanHashes(s) \/ ScanStep(s)
    PROVE  ServerInv' /\ OffersStay /\ TokensStay
  <1>1. StoreTypeOK' 
    <2> USE Offers DEF ServerInv, GrantsTypeOK, StoreTypeOK
    <2> DEFINE Scan == [pc : {"idle", "read", "list", "listed"},
                        found : Offer]
    <2>1. CASE \E b \in Builds : PublishBegins(b)
      <3>1. PICK b \in Builds : PublishBegins(b)
        BY <2>1
      <3>2. publishes' \in 0..MaxPublishes
        BY <3>1, StoreAssumption DEF PublishBegins
      <3>3. QED  BY <3>1, <3>2 DEF PublishBegins
    <2>2. CASE PublishStep
      BY <2>2 DEF PublishStep, PublishBin, PublishRelease, NoPublish
    <2>3. ASSUME NEW s \in Scanners, ScanHashes(s) PROVE StoreTypeOK'
      <3>1. [pc |-> "read", found |-> [image |-> bin, version |-> 0]] \in Scan
        OBVIOUS
      <3>2. QED  BY <2>3, <3>1 DEF ScanHashes
    <2>4. ASSUME NEW s \in Scanners, ScanReads(s) PROVE StoreTypeOK'
      <3>1. scanning[s] \in Scan /\ release \in 0..MaxBuild
        OBVIOUS
      <3>2. [scanning[s] EXCEPT !.pc = "list", !.found.version = release]
               \in Scan
        BY <3>1 DEF Offer
      <3>3. scanning' = [scanning EXCEPT ![s] =
                [scanning[s] EXCEPT !.pc = "list", !.found.version = release]]
        BY <2>4, <3>1 DEF ScanReads
      <3>4. QED  BY <2>4, <3>2, <3>3 DEF ScanReads
    <2>5. ASSUME NEW s \in Scanners, ScanLists(s) PROVE StoreTypeOK'
      <3>1. \A pc \in {"idle", "listed"} : [NoScan EXCEPT !.pc = pc] \in Scan
        BY DEF NoScan
      <3>2. scanning' \in [Scanners -> Scan] /\ listed' \in Offer
        BY <2>5, <3>1 DEF ScanLists
      <3>3. QED  BY <2>5, <3>2 DEF ScanLists
    <2>6. QED  BY <2>1, <2>2, <2>3, <2>4, <2>5 DEF ScanStep
  <1>2. GrantsTypeOK'
    BY <1>1 DEF ServerInv, GrantsTypeOK, grantVars, tables
  <1>3. QED  BY <1>2, SameGrants DEF ServerInv, grantVars, tables

LEMMA NoteTypes ==
    ASSUME rows \in [Builds -> RowStates], NEW i \in 0..MaxBuild,
           NEW state \in RowStates, Note(i, state)
    PROVE  rows' \in [Builds -> RowStates]
  BY DEF Note, Builds

LEMMA SendSteps ==
    ASSUME ServerInv, faults' \in 0..MaxFaults,
           SendLooks \/ SendFindsVersion \/ SendGrants \/ SendPublishes
              \/ SendFails
    PROVE  ServerInv' /\ OffersStay /\ TokensStay /\ confirming' = confirming
  <1> USE DEF ServerInv
  <1>1. CASE SendLooks
    <2>1. /\ UNCHANGED <<grants, made, sent, requests, confirming>>
          /\ sender'.pc = "publish" => sender.pc = "publish"
      BY <1>1 DEF SendLooks, SendOnly, tables, NoSend
    <2>2. scanning' \in [Scanners -> [pc : {"idle", "read", "list", "listed"},
                                      found : Offer]]
      BY <1>1, Offers
         DEF SendLooks, GrantsTypeOK, StoreTypeOK, NoScan
    <2>3. sender' \in [pc : {"idle", "version", "grant", "publish"},
                       offer : Offer]
      BY <1>1, Offers DEF SendLooks, GrantsTypeOK, StoreTypeOK, NoSend
    <2>4. GrantsTypeOK'
      BY <1>1, <2>2, <2>3
         DEF SendLooks, SendOnly, tables, GrantsTypeOK, StoreTypeOK
    <2>5. QED  BY <2>1, <2>4, SameGrants
  <1>2. CASE SendFindsVersion
    <2>1. /\ UNCHANGED <<grants, made, sent, requests, confirming>>
          /\ sender'.pc = "publish" => sender.pc = "publish"
      BY <1>2 DEF SendFindsVersion, SendOnly, tables, NoSend
    <2>2. sender' \in [pc : {"idle", "version", "grant", "publish"},
                       offer : Offer]
      BY <1>2, Offers DEF SendFindsVersion, GrantsTypeOK, StoreTypeOK, NoSend
    <2>3. GrantsTypeOK'
      BY <1>2, <2>2
         DEF SendFindsVersion, SendOnly, tables, GrantsTypeOK, StoreTypeOK
    <2>4. QED  BY <2>1, <2>3, SameGrants
  <1>3. CASE SendGrants
    <2>1. /\ made < MaxGrants /\ made' = made + 1
          /\ sender' = [sender EXCEPT !.pc = "publish"]
          /\ grants' = [grants EXCEPT ![made + 1] =
                           [state |-> "open", offer |-> sender.offer]]
          /\ UNCHANGED <<storeVars, overdue, rows, sent, checks, observed,
                         observing, requests, confirming>>
      BY <1>3 DEF SendGrants
    <2>2. made \in 0..MaxGrants /\ made + 1 \in GrantIds
      BY <2>1, GrantsAssumption DEF GrantsTypeOK, GrantIds
    <2>3. grants' \in [GrantIds -> [state : GrantStates, offer : Offer]]
      BY <2>1, <2>2 DEF GrantsTypeOK, GrantStates
    <2>4. sender' \in [pc : {"idle", "version", "grant", "publish"},
                       offer : Offer]
      BY <2>1 DEF GrantsTypeOK
    <2>5. GrantsTypeOK'
      BY <2>1, <2>2, <2>3, <2>4, GrantsAssumption
         DEF GrantsTypeOK, StoreTypeOK, storeVars
    <2>6. OffersStay /\ TokensStay
      BY <2>1, <2>2, GrantsAssumption
         DEF OffersStay, TokensStay, GrantsTypeOK, GrantIds
    <2>7. DispatchInv' /\ UsedInv'
      BY <2>1, <2>2, GrantsAssumption
         DEF DispatchInv, UsedInv, GrantsTypeOK, GrantIds
    <2>8. \A g, i : IsFor(g, i) => IsFor(g, i)'
      BY <2>1, <2>2, GrantsAssumption DEF IsFor, GrantsTypeOK, GrantIds
    <2>9. RequestInv'
      BY <2>1, <2>8 DEF RequestInv, RequestGood
    <2>10. QED  BY <2>1, <2>5, <2>6, <2>7, <2>9
  <1>4. CASE SendPublishes
    <2>1. /\ UNCHANGED <<grants, made, sent, requests, confirming>>
          /\ sender'.pc = "publish" => sender.pc = "publish"
      BY <1>4 DEF SendPublishes, tables, NoSend
    <2>2. made \in GrantIds
      BY <1>4 DEF SendPublishes, DispatchInv, GrantsTypeOK, GrantIds
    <2>3. checks' \in Seq(GrantIds) /\ observed' \in Seq(GrantIds)
      BY <1>4, <2>2, AppendIs DEF SendPublishes, GrantsTypeOK
    <2>4. sender' \in [pc : {"idle", "version", "grant", "publish"},
                       offer : Offer]
      BY <1>4, Offers DEF SendPublishes, NoSend
    <2>5. GrantsTypeOK'
      BY <1>4, <2>3, <2>4
         DEF SendPublishes, tables, storeVars, GrantsTypeOK, StoreTypeOK
    <2>6. QED  BY <2>1, <2>5, SameGrants
  <1>5. CASE SendFails
    <2>1. /\ UNCHANGED <<grants, made, sent, requests, confirming>>
          /\ sender'.pc = "publish" => sender.pc = "publish"
      BY <1>5 DEF SendFails, tables, NoSend
    <2>2. sender' \in [pc : {"idle", "version", "grant", "publish"},
                       offer : Offer]
      BY <1>5, Offers DEF SendFails, NoSend
    <2>3. GrantsTypeOK'
      BY <1>5, <2>2
         DEF SendFails, tables, storeVars, GrantsTypeOK, StoreTypeOK
    <2>4. QED  BY <2>1, <2>3, SameGrants
  <1>6. QED  BY <1>1, <1>2, <1>3, <1>4, <1>5

LEMMA ObserverSteps ==
    ASSUME ServerInv, faults' \in 0..MaxFaults, ObserverLooks \/ ObserverNotes
    PROVE  ServerInv' /\ OffersStay /\ TokensStay /\ confirming' = confirming
  <1> USE DEF ServerInv
  <1>1. UNCHANGED <<grants, made, sent, requests, confirming, sender>>
    BY DEF ObserverLooks, ObserverNotes, tables
  <1>2. CASE ObserverLooks
    <2>1. observed' \in Seq(GrantIds) /\ observing' \in 0..MaxBuild
      BY <1>2, TailIs DEF ObserverLooks, GrantsTypeOK, StoreTypeOK, Offer
    <2>2. GrantsTypeOK'
      BY <1>2, <2>1
         DEF ObserverLooks, tables, storeVars, GrantsTypeOK, StoreTypeOK
    <2>3. QED  BY <1>1, <2>2, SameGrants
  <1>3. CASE ObserverNotes
    <2>1. rows' \in [Builds -> RowStates]
      BY <1>3, NoteTypes DEF ObserverNotes, GrantsTypeOK, RowStates
    <2>2. observing' \in 0..MaxBuild
      BY <1>3, Offers DEF ObserverNotes
    <2>3. GrantsTypeOK'
      BY <1>3, <2>1, <2>2
         DEF ObserverNotes, storeVars, GrantsTypeOK, StoreTypeOK
    <2>4. QED  BY <1>1, <2>3, SameGrants
  <1>4. QED  BY <1>2, <1>3

-----------------------------------------------------------------------------
(* The HTTPS threads *)

\* A thread goes from one good state to another, and its grant may be noted as
\* sent.
LEMMA RequestStays ==
    ASSUME ServerInv, NEW r \in Requests, NEW q \in Request,
           q.grant = requests[r].grant, requests' = [requests EXCEPT ![r] = q],
           UNCHANGED <<grants, made, confirming>>,
           \/ sent' = sent
           \/ sent' = sent \cup {requests[r].grant} /\ q.grant # 0,
           q.pc # "idle" => q.grant # 0,
           q.pc \in {"open", "sending", "book", "consume"} =>
              IsFor(q.grant, q.image),
           q.answer \in {"ok", "all"} => q.body # 0 /\ IsFor(q.grant, q.image),
           q.pc = "sending" => q.body # 0,
           q.pc \in Unanswered => q.answer = "none",
           q.pc \in {"book", "consume"} => q.grant \in sent',
           UNCHANGED <<storeVars, overdue, sender, checks, observed, observing>>,
           faults' \in 0..MaxFaults, rows' \in [Builds -> RowStates]
    PROVE  ServerInv' /\ OffersStay /\ TokensStay
  <1> USE DEF ServerInv
  <1>1. requests \in [Requests -> Request] /\ sent \subseteq sent'
    BY DEF GrantsTypeOK
  <1>2. requests' \in [Requests -> Request]
    BY <1>1
  <1>3. sent' \subseteq GrantIds
    BY <1>1 DEF GrantsTypeOK, GrantIds, Request
  <1>4. GrantsTypeOK'
    BY <1>2, <1>3 DEF GrantsTypeOK, StoreTypeOK, storeVars
  <1>5. DispatchInv' /\ UsedInv'
    BY <1>1 DEF DispatchInv, UsedInv
  <1>6. RequestGood(q)'
    BY DEF RequestGood, IsFor
  <1>7. \A t \in Requests : t # r => RequestGood(requests[t])'
    BY <1>1 DEF RequestInv, RequestGood, IsFor
  <1>8. RequestInv'
    BY <1>1, <1>6, <1>7 DEF RequestInv
  <1>9. OffersStay /\ TokensStay
    BY <1>1 DEF OffersStay, TokensStay, GrantsTypeOK
  <1>10. QED  BY <1>4, <1>5, <1>8, <1>9

LEMMA RequestSteps ==
    ASSUME ServerInv, faults' \in 0..MaxFaults, NEW r \in Requests,
           RequestStep(r) \/ SendBreaks(r) \/ RequestDies(r)
    PROVE  ServerInv' /\ OffersStay /\ TokensStay /\ confirming' = confirming
  <1> DEFINE p == requests[r]
  <1>1. /\ p \in Request /\ RequestGood(p) /\ rows \in [Builds -> RowStates]
        /\ listed.image \in 0..MaxBuild /\ bin \in 0..MaxBuild /\ bin # 0
    BY Offers DEF ServerInv, GrantsTypeOK, StoreTypeOK, RequestInv, Offer, Builds
  <1>2. CASE Look(r)
    <2>1. PICK q : q = [p EXCEPT !.image = listed.image,
                            !.pc = IF @ = "look" THEN "check" ELSE "recheck"]
      OBVIOUS
    <2>2. /\ requests' = [requests EXCEPT ![r] = q]
          /\ p.pc \in {"look", "again"}
          /\ UNCHANGED <<storeVars, tables, sender, checks, observed,
                         observing, confirming, faults>>
      BY <1>2, <2>1 DEF Look, Step, RequestOnly
    <2>3. /\ q \in Request /\ q.grant = p.grant /\ q.answer = p.answer
          /\ q.pc \in {"check", "recheck"} /\ q.grant # 0
      BY <1>1, <2>1, <2>2 DEF Request, RequestPcs, RequestGood
    <2>4. q.answer = "none"
      BY <1>1, <2>2, <2>3 DEF RequestGood, Unanswered
    <2>5. QED
      BY <1>1, <2>2, <2>3, <2>4, RequestStays DEF tables
  <1>3. CASE Check(r)
    <2>1. PICK q : q = IF Valid(p.grant, p.image)
                       THEN [p EXCEPT !.pc = "start", !.booked = p.image]
                       ELSE [p EXCEPT !.pc = "again"]
      OBVIOUS
    <2>2. /\ requests' = [requests EXCEPT ![r] = q]
          /\ p.pc = "check"
          /\ UNCHANGED <<storeVars, tables, sender, checks, observed,
                         observing, confirming, faults>>
      BY <1>3, <2>1 DEF Check, Step, RequestOnly
    <2>3. /\ q \in Request /\ q.grant = p.grant /\ q.answer = p.answer
          /\ q.pc \in {"start", "again"} /\ q.grant # 0
      BY <1>1, <2>1, <2>2 DEF Request, RequestPcs, RequestGood
    <2>4. q.answer = "none"
      BY <1>1, <2>2, <2>3 DEF RequestGood, Unanswered
    <2>5. QED
      BY <1>1, <2>2, <2>3, <2>4, RequestStays DEF tables
  <1>4. CASE Start(r)
    <2>1. PICK q : q = [p EXCEPT !.pc = "again"]
      OBVIOUS
    <2>2. /\ requests' = [requests EXCEPT ![r] = q]
          /\ p.pc = "start" /\ Note(p.booked, "DOWNLOAD_STARTED")
          /\ UNCHANGED <<storeVars, grants, overdue, made, sent, sender,
                         checks, observed, observing, confirming, faults>>
      BY <1>4, <2>1 DEF Start, Step
    <2>3. /\ q \in Request /\ q.grant = p.grant /\ q.answer = p.answer
          /\ q.pc = "again" /\ q.grant # 0
      BY <1>1, <2>1, <2>2 DEF Request, RequestPcs, RequestGood
    <2>4. q.answer = "none"
      BY <1>1, <2>2, <2>3 DEF RequestGood, Unanswered
    <2>5. rows' \in [Builds -> RowStates]
      BY <1>1, <2>2, NoteTypes DEF Request, RowStates
    <2>6. QED
      BY <1>1, <2>2, <2>3, <2>4, <2>5, RequestStays
  <1>5. CASE Recheck(r)
    <2>1. PICK q : q = IF Valid(p.grant, p.image)
                       THEN [p EXCEPT !.pc = "open"]
                       ELSE [p EXCEPT !.pc = "idle", !.answer = "refused"]
      OBVIOUS
    <2>2. /\ requests' = [requests EXCEPT ![r] = q]
          /\ p.pc = "recheck"
          /\ UNCHANGED <<storeVars, tables, sender, checks, observed,
                         observing, confirming, faults>>
      BY <1>5, <2>1 DEF Recheck, Step, RequestOnly
    <2>3. /\ q \in Request /\ q.grant = p.grant /\ q.image = p.image
          /\ q.grant # 0 /\ p.answer = "none"
          /\ \/ q.pc = "idle" /\ q.answer = "refused"
             \/ q.pc = "open" /\ q.answer = "none" /\ Valid(q.grant, q.image)
      BY <1>1, <2>1, <2>2
         DEF Request, RequestPcs, Answers, RequestGood, Unanswered
    <2>4. Valid(q.grant, q.image) => IsFor(q.grant, q.image)
      BY <2>3 DEF Valid, IsFor, Request, ServerInv, DispatchInv, GrantIds,
                  GrantsTypeOK
    <2>5. /\ q.answer \notin {"ok", "all"}
          /\ \/ sent' = sent
             \/ sent' = sent \cup {requests[r].grant} /\ q.grant # 0
          /\ q.pc # "idle" => q.grant # 0
          /\ q.pc \in {"open", "sending", "book", "consume"} =>
                IsFor(q.grant, q.image)
          /\ q.pc = "sending" => q.body # 0
          /\ q.pc \in Unanswered => q.answer = "none"
          /\ q.pc \in {"book", "consume"} => q.grant \in sent'
      BY <2>2, <2>3, <2>4 DEF Unanswered, tables
    <2>6. QED
      BY <1>1, <2>2, <2>3, <2>5, RequestStays DEF tables
  <1>6. CASE Open(r)
    <2>1. PICK q : q = [p EXCEPT !.pc = "sending", !.body = bin,
                                 !.answer = "ok"]
      OBVIOUS
    <2>2. /\ requests' = [requests EXCEPT ![r] = q]
          /\ p.pc = "open"
          /\ UNCHANGED <<storeVars, tables, sender, checks, observed,
                         observing, confirming, faults>>
      BY <1>6, <2>1 DEF Open, Step, RequestOnly
    <2>3. /\ q \in Request /\ q.grant = p.grant /\ q.image = p.image
          /\ q.grant # 0 /\ q.pc = "sending" /\ q.body # 0
      BY <1>1, <2>1, <2>2 DEF Request, RequestPcs, Answers, RequestGood
    <2>4. IsFor(q.grant, q.image)
      BY <1>1, <2>2, <2>3 DEF RequestGood
    <2>5. q.pc \notin Unanswered
      BY <2>3 DEF Unanswered
    <2>6. QED
      BY <1>1, <2>2, <2>3, <2>4, <2>5, RequestStays DEF tables
  <1>7. CASE SendAll(r)
    <2>1. PICK q : q = [p EXCEPT !.pc = "book", !.answer = "all"]
      OBVIOUS
    <2>2. /\ requests' = [requests EXCEPT ![r] = q]
          /\ p.pc = "sending" /\ sent' = sent \cup {p.grant}
          /\ UNCHANGED <<storeVars, grants, overdue, rows, made, sender,
                         checks, observed, observing, confirming, faults>>
      BY <1>7, <2>1 DEF SendAll, Step
    <2>3. /\ q \in Request /\ q.grant = p.grant /\ q.image = p.image
          /\ q.grant # 0 /\ q.pc = "book" /\ q.body # 0
      BY <1>1, <2>1, <2>2 DEF Request, RequestPcs, Answers, RequestGood
    <2>4. IsFor(q.grant, q.image) /\ q.grant \in sent'
      BY <1>1, <2>2, <2>3 DEF RequestGood
    <2>5. q.pc \notin Unanswered
      BY <2>3 DEF Unanswered
    <2>6. QED
      BY <1>1, <2>2, <2>3, <2>4, <2>5, RequestStays
  <1>8. CASE SendBreaks(r)
    <2>1. PICK pc \in {"fail", "idle"} :
             Step(r, [p EXCEPT !.pc = pc, !.answer = "broken"])
      BY <1>8 DEF SendBreaks
    <2>2. PICK q : q = [p EXCEPT !.pc = pc, !.answer = "broken"]
      OBVIOUS
    <2>3. /\ requests' = [requests EXCEPT ![r] = q]
          /\ p.pc = "sending"
          /\ UNCHANGED <<storeVars, tables, sender, checks, observed,
                         observing, confirming>>
      BY <1>8, <2>1, <2>2 DEF SendBreaks, Step
    <2>4. /\ q \in Request /\ q.grant = p.grant /\ q.answer = "broken"
          /\ q.pc \in {"fail", "idle"} /\ q.grant # 0
      BY <1>1, <2>1, <2>2, <2>3 DEF Request, RequestPcs, Answers, RequestGood
    <2>5. q.pc \notin Unanswered
      BY <2>4 DEF Unanswered
    <2>6. QED
      BY <1>1, <2>3, <2>4, <2>5, RequestStays DEF tables
  <1>9. CASE NoteFailed(r)
    <2>1. PICK q : q = [p EXCEPT !.pc = "idle"]
      OBVIOUS
    <2>2. /\ requests' = [requests EXCEPT ![r] = q]
          /\ p.pc = "fail" /\ Note(p.booked, "DOWNLOAD_FAILED")
          /\ UNCHANGED <<storeVars, grants, overdue, made, sent, sender,
                         checks, observed, observing, confirming, faults>>
      BY <1>9, <2>1 DEF NoteFailed, Step
    <2>3. /\ q \in Request /\ q.grant = p.grant /\ q.image = p.image
          /\ q.answer = p.answer /\ q.body = p.body /\ q.pc = "idle"
      BY <1>1, <2>1, <2>2 DEF Request, RequestPcs
    <2>4. /\ q.answer \in {"ok", "all"} =>
                q.body # 0 /\ IsFor(q.grant, q.image)
          /\ \/ sent' = sent
             \/ sent' = sent \cup {requests[r].grant} /\ q.grant # 0
          /\ q.pc # "idle" => q.grant # 0
          /\ q.pc \in {"open", "sending", "book", "consume"} =>
                IsFor(q.grant, q.image)
          /\ q.pc = "sending" => q.body # 0
          /\ q.pc \in Unanswered => q.answer = "none"
          /\ q.pc \in {"book", "consume"} => q.grant \in sent'
      BY <1>1, <2>2, <2>3 DEF RequestGood, Unanswered
    <2>5. rows' \in [Builds -> RowStates]
      BY <1>1, <2>2, NoteTypes DEF Request, RowStates
    <2>6. QED
      BY <1>1, <2>2, <2>3, <2>4, <2>5, RequestStays
  <1>10. CASE Book(r)
    <2>1. PICK q : q = [p EXCEPT !.pc = "consume"]
      OBVIOUS
    <2>2. /\ requests' = [requests EXCEPT ![r] = q]
          /\ p.pc = "book" /\ Note(p.booked, "DOWNLOAD_COMPLETED")
          /\ UNCHANGED <<storeVars, grants, overdue, made, sent, sender,
                         checks, observed, observing, confirming, faults>>
      BY <1>10, <2>1 DEF Book, Step
    <2>3. /\ q \in Request /\ q.grant = p.grant /\ q.image = p.image
          /\ q.answer = p.answer /\ q.body = p.body /\ q.pc = "consume"
      BY <1>1, <2>1, <2>2 DEF Request, RequestPcs
    <2>4. /\ q.answer \in {"ok", "all"} =>
                q.body # 0 /\ IsFor(q.grant, q.image)
          /\ q.grant # 0 /\ IsFor(q.grant, q.image) /\ q.grant \in sent
          /\ q.pc \notin Unanswered
      BY <1>1, <2>2, <2>3 DEF RequestGood, Unanswered
    <2>5. rows' \in [Builds -> RowStates]
      BY <1>1, <2>2, NoteTypes DEF Request, RowStates
    <2>6. QED
      BY <1>1, <2>2, <2>3, <2>4, <2>5, RequestStays
  <1>11. CASE RequestDies(r)
    <2>1. PICK q : q = [p EXCEPT !.pc = "idle",
                           !.answer = IF @ = "all" THEN @ ELSE "broken"]
      OBVIOUS
    <2>2. /\ requests' = [requests EXCEPT ![r] = q]
          /\ UNCHANGED <<storeVars, tables, sender, checks, observed,
                         observing, confirming>>
      BY <1>11, <2>1 DEF RequestDies, Step
    <2>3. /\ q \in Request /\ q.grant = p.grant /\ q.image = p.image
          /\ q.answer = p.answer \/ q.answer = "broken"
          /\ q.body = p.body /\ q.pc = "idle" /\ sent' = sent
      BY <1>1, <2>1, <2>2 DEF Request, RequestPcs, Answers, tables
    <2>4. /\ q.answer \in {"ok", "all"} =>
                q.body # 0 /\ IsFor(q.grant, q.image)
          /\ \/ sent' = sent
             \/ sent' = sent \cup {requests[r].grant} /\ q.grant # 0
          /\ q.pc # "idle" => q.grant # 0
          /\ q.pc \in {"open", "sending", "book", "consume"} =>
                IsFor(q.grant, q.image)
          /\ q.pc = "sending" => q.body # 0
          /\ q.pc \in Unanswered => q.answer = "none"
          /\ q.pc \in {"book", "consume"} => q.grant \in sent'
      BY <1>1, <2>2, <2>3 DEF RequestGood, Unanswered
    <2>5. QED
      BY <1>1, <2>2, <2>3, <2>4, RequestStays DEF tables
  <1>12. CASE Consume(r)
    <2>1. PICK q : q = [p EXCEPT !.pc = "idle"]
      OBVIOUS
    <2>2. /\ requests' = [requests EXCEPT ![r] = q]
          /\ p.pc = "consume"
          /\ grants' = IF Valid(p.grant, p.image)
                       THEN [grants EXCEPT ![p.grant].state = "used"]
                       ELSE grants
          /\ UNCHANGED <<storeVars, overdue, rows, made, sent, sender,
                         checks, observed, observing, confirming>>
      BY <1>12, <2>1 DEF Consume, Step
    <2>3. /\ q \in Request /\ q.grant = p.grant /\ q.image = p.image
          /\ q.answer = p.answer /\ q.body = p.body /\ q.pc = "idle"
      BY <1>1, <2>1, <2>2 DEF Request, RequestPcs
    <2>4. p.grant \in sent /\ p.grant \in 1..made
      BY <1>1, <2>2 DEF RequestGood, IsFor
    <2>5. /\ grants' \in [GrantIds -> [state : GrantStates, offer : Offer]]
          /\ \A g \in GrantIds : grants'[g].offer = grants[g].offer
          /\ \A g \in GrantIds : g # p.grant => grants'[g] = grants[g]
          /\ grants'[p.grant].state \in {grants[p.grant].state, "used"}
      BY <2>2 DEF ServerInv, GrantsTypeOK, GrantStates
    <2>6. GrantsTypeOK'
      BY <2>2, <2>3, <2>5
         DEF ServerInv, GrantsTypeOK, StoreTypeOK, storeVars
    <2>7. DispatchInv' /\ UsedInv'
      BY <2>2, <2>4, <2>5
         DEF ServerInv, GrantsTypeOK, DispatchInv, UsedInv, GrantIds
    <2>8. \A g, i : IsFor(g, i) => IsFor(g, i)'
      BY <2>2, <2>5 DEF IsFor, ServerInv, GrantsTypeOK, GrantIds
    <2>9. RequestGood(q)'
      BY <1>1, <2>2, <2>3, <2>8 DEF RequestGood, Unanswered
    <2>10. \A t \in Requests : t # r => RequestGood(requests[t])'
      BY <2>2, <2>8 DEF ServerInv, GrantsTypeOK, RequestInv, RequestGood
    <2>11. RequestInv'
      BY <2>2, <2>9, <2>10 DEF ServerInv, GrantsTypeOK, RequestInv
    <2>12. OffersStay /\ TokensStay
      BY <2>2, <2>3, <2>5
         DEF OffersStay, TokensStay, ServerInv, GrantsTypeOK, GrantIds
    <2>13. QED  BY <2>2, <2>6, <2>7, <2>11, <2>12 DEF ServerInv
  <1>13. QED
    BY <1>2, <1>3, <1>4, <1>5, <1>6, <1>7, <1>8, <1>9, <1>10, <1>11, <1>12
       DEF RequestStep

\* A new request, of the device: the thread has another token from now on.
LEMMA GetStep ==
    ASSUME ServerInv, NEW r \in Requests, NEW g \in GrantIds, Get(r, g),
           faults' \in 0..MaxFaults
    PROVE  /\ ServerInv' /\ OffersStay /\ confirming' = confirming
           /\ requests'[r].grant = g
  <1> USE DEF ServerInv
  <1>1. PICK q : q = [NoRequest EXCEPT !.pc = "look", !.grant = g]
    OBVIOUS
  <1>2. /\ requests' = [requests EXCEPT ![r] = q]
        /\ UNCHANGED <<bin, release, listed, publishing, scanning, publishes,
                       grants, overdue, rows, made, sent, sender, checks,
                       observed, observing, confirming>>
    BY <1>1 DEF Get, Step, RequestOnly, storeVars, tables
  <1>3. /\ q \in Request /\ q.grant = g /\ q.grant # 0 /\ q.pc = "look"
        /\ q.answer = "none"
    <2>1. q = [pc |-> "look", grant |-> g, booked |-> 0, image |-> 0,
               body |-> 0, answer |-> "none"]
      BY <1>1 DEF NoRequest
    <2>2. 0 \in 0..MaxBuild /\ g \in 0..MaxGrants /\ g # 0
      BY Offers DEF GrantIds
    <2>3. QED  BY <2>1, <2>2 DEF Request, RequestPcs, Answers
  <1>4. GrantsTypeOK'
    BY <1>2, <1>3 DEF GrantsTypeOK, StoreTypeOK
  <1>5. DispatchInv' /\ UsedInv' /\ OffersStay
    BY <1>2 DEF DispatchInv, UsedInv, OffersStay, GrantsTypeOK
  <1>6. RequestGood(q)'
    BY <1>3 DEF RequestGood, Unanswered
  <1>7. \A t \in Requests : t # r => RequestGood(requests[t])'
    BY <1>2 DEF RequestInv, RequestGood, IsFor, GrantsTypeOK
  <1>8. RequestInv' /\ requests'[r].grant = g
    BY <1>2, <1>3, <1>6, <1>7 DEF RequestInv, GrantsTypeOK
  <1>9. QED  BY <1>2, <1>4, <1>5, <1>8

\* A download is confirmed if it was used up, which is after it was sent.
LEMMA CompletionStep ==
    ASSUME ServerInv, NEW g \in GrantIds, OnCompletion(g),
           faults' \in 0..MaxFaults
    PROVE  ServerInv' /\ OffersStay /\ TokensStay /\ confirming' \in {0, g}
  <1> USE DEF ServerInv
  <1>1. /\ confirming' \in {0, g}
        /\ confirming' # 0 => grants[g].state = "used"
        /\ UNCHANGED <<bin, release, listed, publishing, scanning, publishes,
                       grants, overdue, rows, made, sent, sender, checks,
                       observed, observing, requests>>
    BY DEF OnCompletion, Completed, storeVars, tables
  <1>2. GrantsTypeOK'
    BY <1>1, Offers DEF GrantsTypeOK, StoreTypeOK, GrantIds
  <1>3. UsedInv'
    BY <1>1 DEF UsedInv
  <1>4. DispatchInv' /\ RequestInv'
    BY <1>1 DEF DispatchInv, RequestInv, RequestGood, IsFor
  <1>5. OffersStay /\ TokensStay
    BY <1>1 DEF OffersStay, TokensStay, GrantsTypeOK
  <1>6. QED  BY <1>1, <1>2, <1>3, <1>4, <1>5

LEMMA ConfirmStep ==
    ASSUME ServerInv, NoteConfirmed, faults' \in 0..MaxFaults
    PROVE  ServerInv' /\ OffersStay /\ TokensStay /\ confirming' = 0
  <1> USE DEF ServerInv
  <1>1. /\ confirming \in GrantIds /\ confirming' = 0
        /\ Note(grants[confirming].offer.image, "DEVICE_CONFIRMED")
        /\ UNCHANGED <<bin, release, listed, publishing, scanning, publishes,
                       grants, overdue, made, sent, sender, checks,
                       observed, observing, requests>>
    BY DEF NoteConfirmed, storeVars, GrantsTypeOK, GrantIds
  <1>2. grants[confirming].offer.image \in 0..MaxBuild
    BY <1>1 DEF GrantsTypeOK, Offer
  <1>3. rows' \in [Builds -> RowStates]
    BY <1>1, <1>2, NoteTypes DEF GrantsTypeOK, RowStates
  <1>4. GrantsTypeOK'
    BY <1>1, <1>3, Offers DEF GrantsTypeOK, StoreTypeOK
  <1>5. DispatchInv' /\ RequestInv' /\ UsedInv'
    BY <1>1 DEF DispatchInv, RequestInv, RequestGood, IsFor, UsedInv
  <1>6. OffersStay /\ TokensStay
    BY <1>1 DEF OffersStay, TokensStay, GrantsTypeOK
  <1>7. QED  BY <1>1, <1>4, <1>5, <1>6

-----------------------------------------------------------------------------
(* Time, maintenance and restart *)

LEMMA ExpireStep ==
    ASSUME ServerInv, NEW g \in GrantIds, Expires(g), faults' \in 0..MaxFaults
    PROVE  ServerInv' /\ OffersStay /\ TokensStay /\ confirming' = confirming
  <1>1. GrantsTypeOK'
    BY DEF ServerInv, Expires, storeVars, GrantsTypeOK, StoreTypeOK
  <1>2. UNCHANGED <<grants, made, sent, requests, confirming, sender>>
    BY DEF Expires
  <1>3. QED  BY <1>1, <1>2, SameGrants DEF ServerInv

LEMMA ClearStep ==
    ASSUME ServerInv, NEW target \in {"firmware", "esp", "images"},
           Clear(target), faults' \in 0..MaxFaults
    PROVE  ServerInv' /\ OffersStay /\ TokensStay /\ confirming' = confirming
  <1> USE DEF ServerInv
  <1>1. /\ UNCHANGED <<bin, release, publishing, scanning, publishes, overdue,
                       made, sent, sender, checks, observed, observing,
                       requests, confirming>>
        /\ rows' = [i \in Builds |-> "NONE"]
        /\ listed' \in {NoOffer, listed}
    BY DEF Clear
  <1>2. CASE target = "firmware"
    <2>1. grants' = grants
      BY <1>2 DEF Clear
    <2>2. GrantsTypeOK'
      BY <1>1, <2>1, Offers DEF GrantsTypeOK, StoreTypeOK, RowStates
    <2>3. QED  BY <1>1, <2>1, <2>2, SameGrants
  <1>3. CASE target # "firmware"
    <2>1. grants' = [g \in GrantIds |-> IF grants[g].state = "none"
                        THEN grants[g]
                        ELSE [grants[g] EXCEPT !.state = "deleted"]]
      BY <1>3 DEF Clear
    <2>2. \A g \in GrantIds :
             /\ grants'[g] \in [state : GrantStates, offer : Offer]
             /\ grants'[g].offer = grants[g].offer
             /\ grants'[g].state = IF grants[g].state = "none"
                                   THEN "none" ELSE "deleted"
      BY <2>1 DEF GrantsTypeOK, GrantStates
    <2>3. GrantsTypeOK'
      BY <1>1, <2>1, <2>2, Offers DEF GrantsTypeOK, StoreTypeOK, RowStates
    <2>4. DispatchInv' /\ UsedInv'
      BY <1>1, <2>2 DEF DispatchInv, UsedInv
    <2>5. 1..made \subseteq GrantIds /\ made \in Nat
      BY Offers DEF GrantsTypeOK, GrantIds
    <2>6. \A g, i : IsFor(g, i) => IsFor(g, i)'
      BY <1>1, <2>2, <2>5 DEF IsFor
    <2>7. RequestInv'
      BY <1>1, <2>6 DEF RequestInv, RequestGood
    <2>8. OffersStay /\ TokensStay
      BY <1>1, <2>2, <2>5 DEF OffersStay, TokensStay
    <2>9. QED  BY <1>1, <2>3, <2>4, <2>7, <2>8
  <1>4. QED  BY <1>2, <1>3

LEMMA RestartStep ==
    ASSUME ServerInv, Restart, faults' \in 0..MaxFaults
    PROVE  ServerInv' /\ OffersStay /\ TokensStay /\ confirming' = 0
  <1> USE DEF ServerInv
  <1>1. /\ UNCHANGED <<bin, release, listed, publishes, grants, overdue, rows,
                       made, sent, checks>>
        /\ publishing' = NoPublish /\ scanning' = [s \in Scanners |-> NoScan]
        /\ sender' = NoSend /\ observed' = <<>> /\ observing' = 0
        /\ confirming' = 0
        /\ requests' = [r \in Requests |->
               [requests[r] EXCEPT !.pc = "idle",
                   !.answer = IF @ \in {"all", "refused"} THEN @ ELSE "broken"]]
    BY DEF Restart, StoreStops, tables
  <1>2. /\ publishing' \in [pc : {"idle", "bin", "release"}, build : Builds]
        /\ scanning' \in [Scanners ->
               [pc : {"idle", "read", "list", "listed"}, found : Offer]]
        /\ sender' \in [pc : {"idle", "version", "grant", "publish"},
                         offer : Offer]
    BY <1>1, Offers DEF NoPublish, NoScan, NoSend
  <1>3. ASSUME NEW r \in Requests
        PROVE  /\ requests'[r] \in Request
               /\ requests'[r].grant = requests[r].grant
               /\ requests'[r].image = requests[r].image
               /\ requests'[r].body = requests[r].body
               /\ requests'[r].pc = "idle"
               /\ requests'[r].answer = requests[r].answer
                     \/ requests'[r].answer = "broken"
    BY <1>1 DEF GrantsTypeOK, Request, RequestPcs, Answers
  <1>4. requests' \in [Requests -> Request]
    BY <1>1, <1>3
  <1>5. observed' \in Seq(GrantIds)
    BY <1>1, EmptyIs
  <1>6. GrantsTypeOK'
    <2>1. 0 \in 0..MaxBuild /\ 0 \in 0..MaxGrants
      BY Offers
    <2>2. StoreTypeOK'
      BY <1>1, <1>2 DEF GrantsTypeOK, StoreTypeOK
    <2>3. QED  BY <1>1, <1>2, <1>4, <1>5, <2>1, <2>2 DEF GrantsTypeOK
  <1>7. DispatchInv' /\ UsedInv'
    BY <1>1 DEF DispatchInv, UsedInv, NoSend
  <1>8. ASSUME NEW r \in Requests PROVE RequestGood(requests[r])'
    <2>1. RequestGood(requests[r])
      BY DEF RequestInv
    <2>2. requests'[r].answer \in {"ok", "all"} =>
             requests'[r].body # 0
             /\ IsFor(requests[r].grant, requests[r].image)'
      BY <1>1, <1>3, <2>1 DEF RequestGood, IsFor
    <2>3. requests'[r].pc = "idle"
      BY <1>3
    <2>4. QED  BY <2>2, <2>3 DEF RequestGood, Unanswered
  <1>9. OffersStay /\ TokensStay
    <2>1. made \in 0..MaxGrants /\ made' = made /\ sent' = sent
      BY <1>1 DEF GrantsTypeOK
    <2>2. made <= made'
      BY <2>1, Offers
    <2>3. \A g \in 1..made : grants'[g].offer = grants[g].offer
      BY <1>1
    <2>4. QED  BY <1>3, <2>1, <2>2, <2>3 DEF OffersStay, TokensStay
  <1>10. QED  BY <1>1, <1>6, <1>7, <1>8, <1>9 DEF RequestInv
-----------------------------------------------------------------------------
(* The device *)

\* An F is on its way.
Announced == \E i \in DOMAIN uplink : uplink[i] # 0

LEMMA FrameIs ==
    ASSUME uplink \in Seq(0..MaxChecks), NEW f \in 0..MaxChecks,
           uplink' = Append(uplink, f)
    PROVE  /\ uplink' \in Seq(0..MaxChecks)
           /\ Announced' => Announced \/ f # 0
  <1>1. /\ DOMAIN uplink = 1..Len(uplink) /\ Len(uplink) \in Nat
        /\ DOMAIN uplink' = 1..(Len(uplink) + 1)
        /\ \A i \in 1..Len(uplink) : uplink'[i] = uplink[i]
        /\ uplink'[Len(uplink) + 1] = f
    BY AppendIs
  <1>2. Announced' => Announced \/ f # 0
    BY <1>1 DEF Announced
  <1>3. QED  BY <1>2, AppendIs

LEMMA FrameGone ==
    ASSUME uplink \in Seq(0..MaxChecks), uplink # <<>>, uplink' = Tail(uplink)
    PROVE  /\ uplink' \in Seq(0..MaxChecks) /\ Head(uplink) \in 0..MaxChecks
           /\ Announced' => Announced
           /\ Head(uplink) # 0 => Announced
  <1>1. /\ Head(uplink) \in 0..MaxChecks /\ Tail(uplink) \in Seq(0..MaxChecks)
        /\ DOMAIN uplink = 1..Len(uplink) /\ Len(uplink) \in Nat \ {0}
        /\ Head(uplink) = uplink[1]
        /\ DOMAIN uplink' = 1..(Len(uplink) - 1)
        /\ \A i \in 1..(Len(uplink) - 1) : uplink'[i] = uplink[i + 1]
    BY TailIs
  <1>2. Announced' => Announced
    BY <1>1 DEF Announced
  <1>3. Head(uplink) # 0 => Announced
    BY <1>1 DEF Announced
  <1>4. QED  BY <1>1, <1>2, <1>3

LEMMA ChecksAre ==
    /\ MaxChecks \in Nat \ {0} /\ MaxContent \in Nat \ {0}
    /\ Checks = GrantIds /\ MaxChecks = MaxGrants /\ MaxContent = MaxBuild
    /\ 0 \in 0..MaxChecks /\ 0 \in 0..MaxContent /\ IdleTask \in Task
    /\ Checks \subseteq 0..MaxChecks /\ 1..MaxContent \subseteq 0..MaxContent
  BY OtaServiceAssumption, UpdateAssumption
     DEF Checks, GrantIds, IdleTask, Task, TaskPcs, Errors

LEMMA StatusStep ==
    ASSUME OtaTypeOK, NEW new \in Statuses, SetStatus(new)
    PROVE  /\ status' \in Statuses /\ uplink' \in Seq(0..MaxChecks)
           /\ Announced' => Announced
  <1>1. CASE status = new
    BY <1>1 DEF SetStatus, OtaTypeOK, Announced
  <1>2. CASE status # new
    <2>1. uplink' = Append(uplink, 0) /\ status' = new
      BY <1>2 DEF SetStatus
    <2>2. QED  BY <2>1, FrameIs, ChecksAre DEF OtaTypeOK
  <1>3. QED  BY <1>1, <1>2

\* What the rest of the device sees of a CHECK task.
LEMMA CheckSteps ==
    ASSUME OtaTypeOK, NEW c \in Checks,
           \/ CheckArrives(c) \/ CheckTaskStep(c) \/ CheckFails(c)
           \/ \E v \in 0..MaxBuild : Authenticate(c, v)
    PROVE  /\ OtaTypeOK' /\ UNCHANGED <<task, monitor, boot>>
           /\ otaState' = "SUCCESS" => otaState = "SUCCESS"
           /\ Announced' => Announced
  <1> USE DEF OtaTypeOK
  <1>1. ASSUME NEW pc \in CheckPcs, CheckStep(c, pc)
        PROVE  checkTasks' \in [Checks -> CheckPcs]
    BY <1>1 DEF CheckStep
  <1>2. {"none", "auth", "config", "grant", "announce", "request"} \subseteq
           CheckPcs
        /\ {"FW_SKIPPED", "FW_UPDATE_STARTED", "FW_UPDATE_ERROR"} \subseteq
           Statuses
        /\ {"PENDING"} \subseteq OtaStates
    BY DEF CheckPcs, Statuses, OtaStates
  <1>3. CASE CheckArrives(c)
    <2>1. checkTasks' \in [Checks -> CheckPcs]
      BY <1>1, <1>2, <1>3 DEF CheckArrives
    <2>2. QED  BY <1>3, <2>1 DEF CheckArrives, otaFlash, Announced
  <1>4. ASSUME NEW v \in 0..MaxBuild, Authenticate(c, v)
        PROVE  /\ OtaTypeOK' /\ UNCHANGED <<task, monitor, boot>>
               /\ otaState' = "SUCCESS" => otaState = "SUCCESS"
               /\ Announced' => Announced
    <2>1. checkTasks' \in [Checks -> CheckPcs]
      BY <1>1, <1>2, <1>4 DEF Authenticate
    <2>2. UNCHANGED <<otaFlash, queue, taskVars, otaState, monitorVars>>
      BY <1>4 DEF Authenticate
    <2>3. SetStatus("FW_SKIPPED") \/ UNCHANGED <<status, uplink>>
      BY <1>4 DEF Authenticate
    <2>4. /\ status' \in Statuses /\ uplink' \in Seq(0..MaxChecks)
          /\ Announced' => Announced
      BY <1>2, <2>3, StatusStep DEF Announced
    <2>5. QED  BY <2>1, <2>2, <2>4 DEF otaFlash, taskVars, monitorVars
  <1>5. CASE StoreConfig(c)
    <2>1. checkTasks' \in [Checks -> CheckPcs]
      BY <1>1, <1>2, <1>5 DEF StoreConfig
    <2>2. QED
      BY <1>5, <2>1, ChecksAre
         DEF StoreConfig, taskVars, monitorVars, Announced
  <1>6. CASE StoreGrant(c)
    <2>1. checkTasks' \in [Checks -> CheckPcs]
      BY <1>1, <1>2, <1>6 DEF StoreGrant
    <2>2. QED
      BY <1>6, <2>1, ChecksAre
         DEF StoreGrant, taskVars, monitorVars, Announced
  <1>7. CASE Announce(c)
    <2>1. checkTasks' \in [Checks -> CheckPcs]
      BY <1>1, <1>2, <1>7 DEF Announce
    <2>2. /\ status' \in Statuses /\ uplink' \in Seq(0..MaxChecks)
          /\ Announced' => Announced
      BY <1>2, <1>7, StatusStep DEF Announce
    <2>3. QED
      BY <1>7, <2>1, <2>2 DEF Announce, otaFlash, taskVars, monitorVars
  <1>8. CASE RequestDownload(c)
    <2>1. checkTasks' \in [Checks -> CheckPcs]
      BY <1>1, <1>2, <1>8 DEF RequestDownload
    <2>2. /\ UNCHANGED <<otaFlash, taskVars, monitorVars>>
          /\ \/ SetStatus("FW_UPDATE_ERROR") /\ UNCHANGED <<queue, otaState>>
             \/ queue' = c /\ otaState' = "PENDING"
                /\ UNCHANGED <<status, uplink>>
      BY <1>8 DEF RequestDownload
    <2>3. /\ status' \in Statuses /\ uplink' \in Seq(0..MaxChecks)
          /\ Announced' => Announced
      BY <1>2, <2>2, StatusStep DEF Announced
    <2>4. /\ queue' \in 0..MaxChecks /\ otaState' \in OtaStates
          /\ otaState' = "SUCCESS" => otaState = "SUCCESS"
      BY <1>2, <2>2, ChecksAre
    <2>5. QED
      BY <2>1, <2>2, <2>3, <2>4 DEF otaFlash, taskVars, monitorVars
  <1>9. CASE CheckFails(c)
    <2>1. checkTasks' \in [Checks -> CheckPcs]
      BY <1>1, <1>2, <1>9 DEF CheckFails
    <2>2. /\ status' \in Statuses /\ uplink' \in Seq(0..MaxChecks)
          /\ Announced' => Announced
      BY <1>2, <1>9, StatusStep DEF CheckFails
    <2>3. QED
      BY <1>9, <2>1, <2>2 DEF CheckFails, otaFlash, taskVars, monitorVars
  <1>10. QED
    BY <1>3, <1>4, <1>5, <1>6, <1>7, <1>8, <1>9 DEF CheckTaskStep

LEMMA StatusTypes ==
    ASSUME OtaTypeOK, NEW state \in OtaStates
    PROVE  StatusOf(state) \in Statuses
  <1>1. CASE state = "FAILED"
    BY <1>1 DEF StatusOf, Statuses, OtaTypeOK
  <1>2. CASE state # "FAILED"
    BY <1>2 DEF StatusOf, Statuses, OtaTypeOK
  <1>3. QED  BY <1>1, <1>2

LEMMA MonitorSteps ==
    ASSUME OtaTypeOK, MonitorStep
    PROVE  /\ OtaTypeOK' /\ UNCHANGED <<task, otaState, boot>>
           /\ monitor' = "report" => otaState = "SUCCESS"
           /\ Announced' => Announced \/ monitor = "report"
  <1> USE DEF OtaTypeOK
  <1>1. CASE MonitorSees
    <2>1. /\ seen' = otaState
          /\ monitor' = IF otaState = "SUCCESS" THEN "report" ELSE "idle"
          /\ SetStatus(StatusOf(otaState))
          /\ UNCHANGED <<checkTasks, queue, taskVars, otaState, otaFlash>>
      BY <1>1 DEF MonitorSees
    <2>2. PICK new : new = StatusOf(otaState)
      OBVIOUS
    <2>3. new \in Statuses /\ SetStatus(new)
      BY <2>1, <2>2, StatusTypes
    <2>4. /\ status' \in Statuses /\ uplink' \in Seq(0..MaxChecks)
          /\ Announced' => Announced
      BY <2>3, StatusStep
    <2>5. QED  BY <2>1, <2>4 DEF taskVars, otaFlash
  <1>2. CASE MonitorReports
    <2>1. UNCHANGED <<checkVars, taskVars, otaState, seen, status, fw, boot,
                      config>>
      BY <1>2 DEF MonitorReports
    <2>2. CASE activeGrant = 0
      BY <1>2, <2>1, <2>2
         DEF MonitorReports, checkVars, taskVars, Announced
    <2>3. CASE activeGrant # 0
      <3>1. uplink' = Append(uplink, activeGrant) /\ monitor' = "clear"
            /\ monitor = "report"
        BY <1>2, <2>3 DEF MonitorReports
      <3>2. uplink' \in Seq(0..MaxChecks)
        BY <3>1, AppendIs
      <3>3. QED  BY <2>1, <3>1, <3>2 DEF checkVars, taskVars
    <2>4. QED  BY <2>2, <2>3
  <1>3. CASE MonitorClears
    BY <1>3, ChecksAre DEF MonitorClears, taskVars, Announced
  <1>4. QED  BY <1>1, <1>2, <1>3 DEF MonitorStep

\* The steps of the download that keep its CHECK, its SHA256 and its body.
LEMMA DownloadMoves ==
    ASSUME OtaTypeOK,
           \/ ConnectWifi \/ StartDownload \/ SendGet \/ GetRefused \/ ReadEnds
           \/ Verify \/ Install \/ TaskFails,
           task.pc = "install" => task.body # 0
    PROVE  /\ OtaTypeOK' /\ UNCHANGED <<uplink, monitor>>
           /\ task.pc # "idle" /\ task'.check = task.check
           /\ task'.sha256 = task.sha256 /\ task'.body = task.body
           /\ task'.pc # "cleanup" => task'.error = task.error
           /\ task'.pc = "headers" => task.pc = "get"
           /\ task'.pc # "read"
           /\ task'.pc = "verify" => task.pc = "read"
           /\ task'.pc = "install" =>
                 task.pc = "verify" /\ task.body = task.sha256
           /\ task'.pc = "restart" => task.pc = "install"
           /\ otaState' = "SUCCESS" =>
                 \/ otaState = "SUCCESS" \/ task.pc = "install"
                 \/ task.pc = "verify" /\ task'.error = task.error
           /\ boot' # boot => task.pc = "install" /\ boot' = task.body
  <1> USE DEF OtaTypeOK
  <1> DEFINE Moved(pc, error) ==
        task' = [task EXCEPT !.pc = pc, !.error = error]
  <1>1. ASSUME NEW pc \in TaskPcs, NEW error \in Errors, Moved(pc, error)
        PROVE  /\ task' \in Task /\ task'.check = task.check
               /\ task'.sha256 = task.sha256 /\ task'.body = task.body
               /\ task'.pc = pc /\ task'.error = error
    BY <1>1 DEF Task
  <1>2. /\ task.error \in Errors /\ "other" \in Errors
        /\ "INVALID_CRC" \in Errors
        /\ TaskPcs = {"idle", "scan", "connect", "get", "headers", "read",
                      "verify", "install", "restart", "cleanup"}
        /\ {"CONNECTING_WIFI", "DOWNLOADING", "VERIFYING", "SUCCESS"}
              \subseteq OtaStates
    BY DEF Task, Errors, TaskPcs, OtaStates
  <1>3. \A pc : task' = [task EXCEPT !.pc = pc] => Moved(pc, task.error)
    BY DEF Task
  <1> HIDE DEF Moved
  <1>4. CASE ConnectWifi
    <2>1. /\ task.pc = "scan" /\ otaState' = "CONNECTING_WIFI"
          /\ Moved("connect", task.error)
      BY <1>3, <1>4 DEF ConnectWifi
    <2>2. QED
      BY <1>1, <1>2, <1>4, <2>1 DEF ConnectWifi, TaskOnly, checkVars, monitorVars
  <1>5. CASE StartDownload
    <2>1. /\ task.pc = "connect" /\ otaState' = "DOWNLOADING"
          /\ Moved("get", task.error)
      BY <1>3, <1>5 DEF StartDownload
    <2>2. QED
      BY <1>1, <1>2, <1>5, <2>1
         DEF StartDownload, TaskOnly, checkVars, monitorVars
  <1>6. CASE SendGet
    <2>1. task.pc = "get" /\ otaState' = otaState
          /\ Moved("headers", task.error)
      BY <1>3, <1>6 DEF SendGet
    <2>2. QED
      BY <1>1, <1>2, <1>6, <2>1 DEF SendGet, TaskOnly, checkVars, monitorVars
  <1>7. CASE GetRefused
    <2>1. task.pc = "headers" /\ otaState' = otaState
          /\ Moved("cleanup", "other")
      BY <1>7 DEF GetRefused, Moved
    <2>2. QED
      BY <1>1, <1>2, <1>7, <2>1
         DEF GetRefused, TaskOnly, checkVars, monitorVars
  <1>8. CASE ReadEnds
    <2>1. /\ task.pc = "read" /\ otaState' = "VERIFYING"
          /\ Moved("verify", task.error)
      BY <1>3, <1>8 DEF ReadEnds
    <2>2. QED
      BY <1>1, <1>2, <1>8, <2>1 DEF ReadEnds, TaskOnly, checkVars, monitorVars
  <1>9. CASE Verify
    <2>1. /\ task.pc = "verify" /\ TaskOnly
          /\ \/ otaState' = otaState /\ Moved("cleanup", "INVALID_CRC")
             \/ otaState' = "SUCCESS" /\ Moved("cleanup", task.error)
             \/ /\ otaState' = otaState /\ Moved("install", task.error)
                /\ task.body = task.sha256
      BY <1>3, <1>9 DEF Verify, Moved
    <2>2. UNCHANGED <<checkVars, running, lastError, monitorVars, status, fw,
                      boot, uplink>>
      BY <2>1 DEF TaskOnly
    <2>3. CASE otaState' = otaState /\ Moved("cleanup", "INVALID_CRC")
      BY <1>1, <1>2, <2>1, <2>2, <2>3 DEF checkVars, monitorVars
    <2>4. CASE otaState' = "SUCCESS" /\ Moved("cleanup", task.error)
      BY <1>1, <1>2, <2>1, <2>2, <2>4 DEF checkVars, monitorVars
    <2>5. CASE /\ otaState' = otaState /\ Moved("install", task.error)
               /\ task.body = task.sha256
      BY <1>1, <1>2, <2>1, <2>2, <2>5 DEF checkVars, monitorVars
    <2>6. QED  BY <2>1, <2>3, <2>4, <2>5
  <1>10. CASE Install
    <2>1. /\ task.pc = "install" /\ otaState' = "SUCCESS"
          /\ Moved("restart", task.error) /\ boot' = task.body
          /\ UNCHANGED <<checkVars, running, lastError, monitorVars, status, fw,
                         uplink>>
      BY <1>3, <1>10 DEF Install
    <2>2. boot' \in 1..MaxContent
      BY <2>1, ChecksAre DEF Task
    <2>3. QED  BY <1>1, <1>2, <2>1, <2>2 DEF checkVars, monitorVars
  <1>11. CASE TaskFails
    <2>1. /\ task.pc \in {"connect", "get", "headers", "read", "install"}
          /\ otaState' = otaState /\ Moved("cleanup", "other")
      BY <1>11 DEF TaskFails, Moved
    <2>2. QED
      BY <1>1, <1>2, <1>11, <2>1 DEF TaskFails, TaskOnly, checkVars, monitorVars
  <1>12. QED
    BY <1>4, <1>5, <1>6, <1>7, <1>8, <1>9, <1>10, <1>11

\* A request is taken from the queue.
LEMMA ReceiveStep ==
    ASSUME OtaTypeOK, TaskReceives
    PROVE  /\ OtaTypeOK' /\ UNCHANGED <<uplink, monitor, boot>>
           /\ task.pc = "idle"
           /\ \/ task' = task
              \/ /\ task'.pc = "scan" /\ task'.check # 0
                 /\ task'.error = "OK"
           /\ otaState' = "SUCCESS" => otaState = "SUCCESS"
  <1> USE DEF OtaTypeOK
  <1>1. /\ task.pc = "idle" /\ queue # 0 /\ queue' = 0
        /\ UNCHANGED <<checkTasks, config, activeGrant, monitorVars, status, fw,
                       boot, uplink>>
        /\ \/ /\ config = queue /\ running' = TRUE /\ lastError' = "OK"
              /\ task' = [IdleTask EXCEPT !.pc = "scan", !.check = config]
              /\ otaState' = otaState
           \/ /\ otaState' = "FAILED" /\ lastError' = "other"
              /\ running' = FALSE /\ task' = task
    BY DEF TaskReceives, LoadedConfig
  <1>2. 0 \in 0..MaxChecks /\ "OK" \in Errors /\ "other" \in Errors
        /\ "FAILED" \in OtaStates
    BY ChecksAre DEF Errors, OtaStates
  <1>3. CASE /\ config = queue /\ running' = TRUE /\ lastError' = "OK"
             /\ task' = [IdleTask EXCEPT !.pc = "scan", !.check = config]
             /\ otaState' = otaState
    <2>1. /\ task' \in Task /\ task'.pc = "scan" /\ task'.check = config
          /\ task'.error = "OK"
      BY <1>3, ChecksAre DEF IdleTask, Task, TaskPcs, Errors
    <2>2. QED  BY <1>1, <1>2, <1>3, <2>1 DEF monitorVars
  <1>4. CASE /\ otaState' = "FAILED" /\ lastError' = "other"
             /\ running' = FALSE /\ task' = task
    BY <1>1, <1>2, <1>4 DEF monitorVars
  <1>5. QED  BY <1>1, <1>3, <1>4

\* The headers and the first block of the body.
LEMMA HeadersStep ==
    ASSUME OtaTypeOK, NEW sha256 \in 0..MaxBuild, NEW body \in 0..MaxBuild,
           ReadHeaders(sha256, body)
    PROVE  /\ OtaTypeOK' /\ UNCHANGED <<uplink, monitor, boot, otaState>>
           /\ task.pc = "headers" /\ task'.check = task.check
           /\ \/ /\ task'.pc = "read" /\ task'.sha256 = sha256
                 /\ task'.body = body /\ task'.error = task.error
              \/ task'.pc = "cleanup"
  <1> USE DEF OtaTypeOK
  <1>1. /\ task.pc = "headers"
        /\ \/ task' = [task EXCEPT !.pc = "read", !.sha256 = sha256,
                                   !.body = body]
           \/ task' = [task EXCEPT !.pc = "cleanup", !.error = "INVALID_VERSION"]
        /\ UNCHANGED <<checkVars, running, lastError, monitorVars, status, fw,
                       boot, uplink, otaState>>
    BY DEF ReadHeaders, TaskOnly
  <1>2. /\ task' \in Task /\ task'.check = task.check
        /\ \/ /\ task'.pc = "read" /\ task'.sha256 = sha256
              /\ task'.body = body /\ task'.error = task.error
           \/ task'.pc = "cleanup"
    BY <1>1, ChecksAre DEF Task, TaskPcs, Errors
  <1>3. QED  BY <1>1, <1>2 DEF checkVars, monitorVars

LEMMA CleanupStep ==
    ASSUME OtaTypeOK, Cleanup
    PROVE  /\ OtaTypeOK' /\ UNCHANGED <<uplink, monitor, boot>>
           /\ task.pc = "cleanup" /\ task' = IdleTask
           /\ otaState' = "SUCCESS" => otaState = "SUCCESS"
  <1> USE DEF OtaTypeOK
  <1>1. /\ task.pc = "cleanup" /\ task' = IdleTask /\ running' = FALSE
        /\ \/ UNCHANGED <<otaState, lastError>>
           \/ otaState' = "FAILED" /\ lastError' = task.error
        /\ UNCHANGED <<checkVars, monitorVars, status, fw, boot, uplink>>
    BY DEF Cleanup
  <1>2. task.error \in Errors /\ "FAILED" \in OtaStates
    BY DEF Task, OtaStates
  <1>3. QED  BY <1>1, <1>2, ChecksAre DEF checkVars, monitorVars

LEMMA BootStep ==
    ASSUME OtaTypeOK, Boot
    PROVE  /\ OtaTypeOK' /\ boot' = boot /\ task' = IdleTask
           /\ monitor' = "idle" /\ otaState' = "IDLE"
           /\ Announced' => Announced
  <1> USE DEF OtaTypeOK
  <1>1. uplink' \in Seq(0..MaxChecks) /\ (Announced' => Announced)
    BY FrameIs, ChecksAre DEF Boot
  <1>2. checkTasks' \in [Checks -> CheckPcs]
    BY DEF Boot, CheckPcs
  <1>3. QED
    BY <1>1, <1>2, ChecksAre DEF Boot, OtaStates, Errors, Statuses
-----------------------------------------------------------------------------
(* The whole *)

LEMMA FaultTypes ==
    ASSUME faults \in 0..MaxFaults,
           faults' = faults \/ \E kind \in AllFaultKinds : Fault(kind)
    PROVE  faults' \in 0..MaxFaults
  BY GrantsAssumption DEF Fault

LEMMA HistoryTypes ==
    ASSUME clean \in BOOLEAN, KeepsHistory
    PROVE  clean' \in BOOLEAN /\ verified' = verified
  <1>1. clean' = (clean /\ faults' = faults) /\ verified' = verified
    BY DEF KeepsHistory
  <1>2. QED  BY <1>1, Zenon

LEMMA StillFor ==
    ASSUME OffersStay, made \in 0..MaxGrants, made' \in 0..MaxGrants,
           NEW g, NEW i, IsFor(g, i)
    PROVE  IsFor(g, i)'
  BY Offers DEF OffersStay, IsFor

\* What the server does: the device's half of the invariant stays.
LEMMA ServerKeeps ==
    ASSUME UpdateInv, ServerInv', OffersStay, TokensStay,
           UNCHANGED <<otaVars, connection, cached, verified>>,
           clean' \in BOOLEAN, confirming' # 0 => Reporting
    PROVE  UpdateInv' /\ boot' = boot
  <1> USE DEF UpdateInv
  <1>1. UNCHANGED <<checkTasks, queue, task, running, otaState, lastError, seen,
                    monitor, status, config, activeGrant, fw, boot, uplink,
                    connection, cached, verified>>
    BY DEF otaVars, otaRam, otaFlash
  <1>2. OtaTypeOK'
    BY <1>1 DEF TypeOK, OtaTypeOK
  <1>3. TypeOK'
    BY <1>1, <1>2 DEF TypeOK, ServerInv
  <1>4. \A g, i : IsFor(g, i) => IsFor(g, i)'
    <2>1. made \in 0..MaxGrants /\ made' \in 0..MaxGrants
      BY <1>3 DEF TypeOK, GrantsTypeOK
    <2>2. QED  BY <2>1, StillFor
  <1>5. connection # NoThread => connection \in Requests
    BY DEF TypeOK
  <1>6. DownloadInv'
    BY <1>1, <1>4, <1>5 DEF DownloadInv, TokensStay
  <1>7. VerifyInv'
    BY <1>1 DEF VerifyInv, Reporting
  <1>8. QED  BY <1>1, <1>3, <1>6, <1>7 DEF ServerInv

LEMMA ServerOnlyKeeps ==
    ASSUME UpdateInv, ServerInv', OffersStay, TokensStay, ServerOnly,
           confirming' # 0 => Reporting
    PROVE  UpdateInv' /\ boot' = boot
  BY HistoryTypes, ServerKeeps DEF ServerOnly, UpdateInv, TypeOK

LEMMA ServerOf ==
    ASSUME UpdateInv
    PROVE  ServerInv /\ faults \in 0..MaxFaults /\ clean \in BOOLEAN
           /\ (confirming # 0 => Reporting)
  BY DEF UpdateInv, ServerInv, TypeOK, GrantsTypeOK, Reporting

LEMMA KindsAre ==
    AllFaultKinds = {"server", "network", "device", "repeat", "time",
                     "maintenance"}
  BY DEF AllFaultKinds

LEMMA ServerSteps ==
    ASSUME UpdateInv,
           \/ Publishing \/ OpenPage \/ User \/ Sending \/ Failing \/ Observing
           \/ Confirming \/ Restarting
           \/ \E b \in Builds : Publisher(b)
           \/ \E s \in Scanners : Scanning(s)
           \/ \E r \in Requests : Serving(r) \/ Dying(r) \/ Breaking(r)
           \/ \E g \in GrantIds : Expiring(g)
           \/ \E target \in {"firmware", "esp", "images"} : Maintaining(target)
    PROVE  UpdateInv' /\ boot' = boot
  <1> USE ServerOf, FaultTypes, KindsAre
  <1>1. ASSUME \/ PublishStep
               \/ \E b \in Builds : PublishBegins(b)
               \/ \E s \in Scanners : ScanHashes(s) \/ ScanStep(s),
               UNCHANGED <<grantVars, faults>>
        PROVE  ServerInv' /\ OffersStay /\ TokensStay
               /\ (confirming' # 0 => Reporting)
    BY <1>1, StoreSteps DEF grantVars
  <1>2. CASE Publishing
    BY <1>1, <1>2, ServerOnlyKeeps DEF Publishing
  <1>3. CASE OpenPage
    BY <1>1, <1>3, ServerOnlyKeeps DEF OpenPage, Scanners
  <1>4. CASE User
    <2>1. /\ ScanHashes("send") /\ UNCHANGED <<grantVars, faults>>
          /\ UNCHANGED <<otaVars, connection, cached, verified>>
      BY <1>4 DEF User
    <2>2. clean' \in BOOLEAN
      <3>1. clean' = (AtRest /\ scanning["page"].pc = "idle"
                        /\ bin = release /\ bin > fw)
        BY <1>4 DEF User
      <3>2. QED  BY <3>1, Zenon
    <2>3. QED  BY <1>1, <2>1, <2>2, ServerKeeps DEF Scanners
  <1>5. ASSUME NEW b \in Builds, Publisher(b)
        PROVE  UpdateInv' /\ boot' = boot
    BY <1>1, <1>5, ServerKeeps DEF Publisher
  <1>6. ASSUME NEW s \in Scanners, Scanning(s)
        PROVE  UpdateInv' /\ boot' = boot
    BY <1>1, <1>6, ServerOnlyKeeps DEF Scanning
  <1>7. CASE Sending
    <2>1. faults' = faults
      BY <1>7 DEF Sending, SendLooks, SendFindsVersion, SendOnly, SendGrants,
                  SendPublishes
    <2>2. QED  BY <1>7, <2>1, SendSteps, ServerOnlyKeeps DEF Sending
  <1>8. CASE Failing
    BY <1>8, SendSteps, ServerOnlyKeeps DEF Failing, SendFails
  <1>9. CASE Observing
    <2>1. faults' = faults
      BY <1>9 DEF Observing, ObserverLooks, ObserverNotes
    <2>2. QED  BY <1>9, <2>1, ObserverSteps, ServerOnlyKeeps DEF Observing
  <1>10. CASE Confirming
    <2>1. faults' = faults
      BY <1>10 DEF Confirming, NoteConfirmed
    <2>2. QED  BY <1>10, <2>1, ConfirmStep, ServerOnlyKeeps DEF Confirming
  <1>11. CASE Restarting
    BY <1>11, RestartStep, ServerOnlyKeeps DEF Restarting
  <1>12. ASSUME NEW r \in Requests, Serving(r)
         PROVE  UpdateInv' /\ boot' = boot
    <2>1. faults' = faults
      BY <1>12 DEF Serving, RequestStep, Look, Check, Start, Recheck, Open,
                   SendAll, NoteFailed, Book, Consume, RequestOnly
    <2>2. QED  BY <1>12, <2>1, RequestSteps, ServerOnlyKeeps DEF Serving
  <1>13. ASSUME NEW r \in Requests, Dying(r)
         PROVE  UpdateInv' /\ boot' = boot
    BY <1>13, RequestSteps, ServerOnlyKeeps DEF Dying, RequestDies
  <1>14. ASSUME NEW r \in Requests, Breaking(r)
         PROVE  UpdateInv' /\ boot' = boot
    <2>1. faults' \in 0..MaxFaults
      BY <1>14 DEF Breaking
    <2>2. QED  BY <1>14, <2>1, RequestSteps, ServerOnlyKeeps DEF Breaking
  <1>15. ASSUME NEW g \in GrantIds, Expiring(g)
         PROVE  UpdateInv' /\ boot' = boot
    BY <1>15, ExpireStep, ServerOnlyKeeps DEF Expiring
  <1>16. ASSUME NEW target \in {"firmware", "esp", "images"},
                Maintaining(target)
         PROVE  UpdateInv' /\ boot' = boot
    BY <1>16, ClearStep, ServerOnlyKeeps DEF Maintaining
  <1>17. QED
    BY <1>2, <1>3, <1>4, <1>5, <1>6, <1>7, <1>8, <1>9, <1>10, <1>11, <1>12,
       <1>13, <1>14, <1>15, <1>16

\* What the network does, and the tasks of the device beside the download.
LEMMA QuietKeeps ==
    ASSUME UpdateInv, ServerInv', OffersStay, TokensStay, OtaTypeOK',
           UNCHANGED <<task, boot, verified>>,
           connection' \in {connection, NoThread},
           cached' \in 0..MaxGrants, clean' \in BOOLEAN, Reporting' => Reporting
    PROVE  UpdateInv' /\ boot' = boot
  <1> USE DEF UpdateInv
  <1>1. TypeOK'
    BY DEF TypeOK, ServerInv
  <1>2. \A g, i : IsFor(g, i) => IsFor(g, i)'
    <2>1. made \in 0..MaxGrants /\ made' \in 0..MaxGrants
      BY <1>1 DEF TypeOK, GrantsTypeOK
    <2>2. QED  BY <2>1, StillFor
  <1>3. connection # NoThread => connection \in Requests
    BY DEF TypeOK
  <1>4. DownloadInv'
    BY <1>2, <1>3 DEF DownloadInv, TokensStay
  <1>5. VerifyInv'
    BY DEF VerifyInv
  <1>6. QED  BY <1>1, <1>4, <1>5 DEF ServerInv

LEMMA SameServer ==
    ASSUME UpdateInv, UNCHANGED CheckVars, checks' \in Seq(GrantIds),
           faults' \in 0..MaxFaults
    PROVE  ServerInv' /\ OffersStay /\ TokensStay /\ confirming' = confirming
  <1>1. UNCHANGED <<bin, release, listed, publishing, scanning, publishes,
                    grants, overdue, rows, made, sent, sender, observed,
                    observing, requests, confirming>>
    BY DEF CheckVars, storeVars, tables
  <1>2. GrantsTypeOK'
    BY <1>1 DEF UpdateInv, TypeOK, GrantsTypeOK, StoreTypeOK
  <1>3. QED  BY <1>1, <1>2, SameGrants DEF ServerInv, UpdateInv, TypeOK

LEMMA SameServerVars ==
    ASSUME UpdateInv, UNCHANGED <<storeVars, grantVars>>,
           faults' \in 0..MaxFaults
    PROVE  ServerInv' /\ OffersStay /\ TokensStay /\ confirming' = confirming
  <1>1. UNCHANGED CheckVars /\ checks' = checks
    BY DEF CheckVars, grantVars
  <1>2. checks' \in Seq(GrantIds)
    BY <1>1 DEF UpdateInv, TypeOK, GrantsTypeOK
  <1>3. QED  BY <1>1, <1>2, SameServer

LEMMA ReportingIs ==
    Reporting <=>
        \/ task.pc \in {"install", "restart"} \/ otaState = "SUCCESS"
        \/ monitor = "report" \/ Announced
        \/ cached # 0 \/ confirming # 0
  BY DEF Reporting, Announced

LEMMA NetworkSteps ==
    ASSUME UpdateInv,
           \/ CheckDelivered \/ CheckLost \/ StatusArrives \/ CompletionArrives
           \/ CachedCompletionArrives \/ FrameLost \/ ConnectionDies
           \/ \E g \in GrantIds : CheckRepeated(g)
    PROVE  UpdateInv' /\ boot' = boot
  <1> USE ServerOf, FaultTypes, KindsAre, HistoryTypes
  <1>1. /\ OtaTypeOK /\ connection \in Requests \cup {NoThread}
        /\ cached \in 0..MaxGrants /\ checks \in Seq(GrantIds)
        /\ uplink \in Seq(0..MaxChecks)
        /\ 0 \in 0..MaxGrants
    BY ChecksAre DEF UpdateInv, TypeOK, GrantsTypeOK, OtaTypeOK
  <1>2. CASE CheckDelivered
    <2>1. /\ checks # <<>> /\ checks' = Tail(checks)
          /\ CheckArrives(Head(checks))
          /\ UNCHANGED CheckVars /\ faults' = faults
          /\ UNCHANGED <<connection, cached>> /\ KeepsHistory
      BY <1>2 DEF CheckDelivered, CheckTaken, SameLinks
    <2>2. PICK c : c = Head(checks)
      OBVIOUS
    <2>3. c \in GrantIds /\ checks' \in Seq(GrantIds)
      BY <1>1, <2>1, <2>2, TailIs
    <2>4. ServerInv' /\ OffersStay /\ TokensStay /\ confirming' = confirming
      BY <2>1, <2>3, SameServer
    <2>5. /\ OtaTypeOK' /\ UNCHANGED <<task, monitor, boot>>
          /\ otaState' = "SUCCESS" => otaState = "SUCCESS"
          /\ Announced' => Announced
      BY <1>1, <2>1, <2>2, <2>3, CheckSteps, ChecksAre
    <2>6. Reporting' => Reporting
      BY <2>1, <2>4, <2>5 DEF Reporting, Announced
    <2>7. QED  BY <1>1, <2>1, <2>4, <2>5, <2>6, QuietKeeps
  <1>3. CASE CheckLost
    <2>1. /\ checks # <<>> /\ checks' = Tail(checks)
          /\ UNCHANGED CheckVars /\ Fault("network")
          /\ UNCHANGED <<connection, cached, otaVars>> /\ KeepsHistory
      BY <1>3 DEF CheckLost, CheckTaken, SameLinks
    <2>2. checks' \in Seq(GrantIds)
      BY <1>1, <2>1, TailIs
    <2>3. ServerInv' /\ OffersStay /\ TokensStay /\ confirming' = confirming
      BY <2>1, <2>2, SameServer
    <2>4. QED  BY <2>1, <2>3, ServerKeeps
  <1>4. ASSUME NEW g \in GrantIds, CheckRepeated(g)
        PROVE  UpdateInv' /\ boot' = boot
    <2>1. /\ CheckArrives(g) /\ UNCHANGED <<storeVars, grantVars>>
          /\ Fault("repeat") /\ UNCHANGED <<connection, cached>>
          /\ KeepsHistory
      BY <1>4 DEF CheckRepeated, SameLinks, DeviceOnly
    <2>2. ServerInv' /\ OffersStay /\ TokensStay /\ confirming' = confirming
      BY <2>1, SameServerVars
    <2>3. /\ OtaTypeOK' /\ UNCHANGED <<task, monitor, boot>>
          /\ otaState' = "SUCCESS" => otaState = "SUCCESS"
          /\ Announced' => Announced
      BY <1>1, <2>1, CheckSteps, ChecksAre
    <2>4. Reporting' => Reporting
      BY <2>1, <2>2, <2>3 DEF Reporting, Announced
    <2>5. QED  BY <1>1, <2>1, <2>2, <2>3, <2>4, QuietKeeps
  <1>5. ASSUME FrameTaken
        PROVE  /\ OtaTypeOK' /\ UNCHANGED <<task, boot, otaState, monitor>>
               /\ connection' = connection
               /\ Announced' => Announced
               /\ Head(uplink) \in 0..MaxGrants
               /\ Head(uplink) # 0 => Announced /\ Head(uplink) \in GrantIds
    <2>1. /\ uplink # <<>> /\ uplink' = Tail(uplink)
          /\ UNCHANGED <<otaRam, otaFlash, connection>>
      BY <1>5 DEF FrameTaken
    <2>2. /\ uplink' \in Seq(0..MaxChecks) /\ Head(uplink) \in 0..MaxChecks
          /\ Announced' => Announced
          /\ Head(uplink) # 0 => Announced
      BY <1>1, <2>1, FrameGone
    <2>3. OtaTypeOK'
      BY <1>1, <2>1, <2>2 DEF OtaTypeOK, otaRam, otaFlash
    <2>4. QED  BY <2>1, <2>2, <2>3, ChecksAre DEF otaRam, otaFlash, GrantIds
  <1>6. CASE StatusArrives
    <2>1. /\ FrameTaken /\ cached' = 0 /\ UNCHANGED <<storeVars, grantVars>>
          /\ faults' = faults /\ KeepsHistory
      BY <1>6 DEF StatusArrives
    <2>2. ServerInv' /\ OffersStay /\ TokensStay /\ confirming' = confirming
      BY <2>1, SameServerVars
    <2>3. Reporting' => Reporting
      BY <1>5, <2>1, <2>2 DEF Reporting, Announced
    <2>4. QED  BY <1>1, <1>5, <2>1, <2>2, <2>3, QuietKeeps
  <1>7. CASE CompletionArrives
    <2>1. /\ FrameTaken /\ Head(uplink) # 0 /\ OnCompletion(Head(uplink))
          /\ cached' = Head(uplink) /\ KeepsHistory
          /\ faults' = faults \/ Fault("time")
      BY <1>7 DEF CompletionArrives
    <2>2. PICK g : g = Head(uplink)
      OBVIOUS
    <2>3. g \in GrantIds /\ OnCompletion(g) /\ Announced
          /\ cached' \in 0..MaxGrants
      BY <1>5, <2>1, <2>2
    <2>4. ServerInv' /\ OffersStay /\ TokensStay
      BY <2>1, <2>3, CompletionStep
    <2>5. Reporting
      BY <2>3, ReportingIs
    <2>6. QED  BY <1>5, <2>1, <2>3, <2>4, <2>5, QuietKeeps
  <1>8. CASE CachedCompletionArrives
    <2>1. /\ cached # 0 /\ OnCompletion(cached) /\ faults' = faults
          /\ ServerOnly
      BY <1>8 DEF CachedCompletionArrives
    <2>2. PICK g : g = cached
      OBVIOUS
    <2>3. g \in GrantIds /\ OnCompletion(g)
      BY <1>1, <2>1, <2>2, ChecksAre DEF GrantIds
    <2>4. ServerInv' /\ OffersStay /\ TokensStay
      BY <2>1, <2>3, CompletionStep
    <2>5. Reporting
      BY <2>1, ReportingIs
    <2>6. QED  BY <2>1, <2>4, <2>5, ServerOnlyKeeps
  <1>9. CASE FrameLost
    <2>1. /\ FrameTaken /\ UNCHANGED <<storeVars, grantVars, cached>>
          /\ Fault("network") /\ KeepsHistory
      BY <1>9 DEF FrameLost
    <2>2. ServerInv' /\ OffersStay /\ TokensStay /\ confirming' = confirming
      BY <2>1, SameServerVars
    <2>3. Reporting' => Reporting
      BY <1>5, <2>1, <2>2 DEF Reporting, Announced
    <2>4. QED  BY <1>1, <1>5, <2>1, <2>2, <2>3, QuietKeeps
  <1>10. CASE ConnectionDies
    <2>1. /\ connection' = NoThread /\ UNCHANGED <<storeVars, grantVars>>
          /\ Fault("network") /\ UNCHANGED <<otaVars, cached>>
          /\ KeepsHistory
      BY <1>10 DEF ConnectionDies, DeviceOnly
    <2>2. ServerInv' /\ OffersStay /\ TokensStay /\ confirming' = confirming
      BY <2>1, SameServerVars
    <2>3. UNCHANGED <<checkTasks, queue, task, running, otaState, lastError,
                      seen, monitor, status, config, activeGrant, fw, boot,
                      uplink>>
      BY <2>1 DEF otaVars, otaRam, otaFlash
    <2>4. OtaTypeOK' /\ (Reporting' => Reporting)
      BY <1>1, <2>1, <2>2, <2>3 DEF OtaTypeOK, Reporting
    <2>5. QED  BY <1>1, <2>1, <2>2, <2>3, <2>4, QuietKeeps
  <1>11. QED
    BY <1>2, <1>3, <1>4, <1>6, <1>7, <1>8, <1>9, <1>10

\* The build that is installed is the one the CHECK was made for.
Installs == boot' # boot => boot' = grants[task.check].offer.image

LEMMA Whole ==
    ASSUME UpdateInv, ServerInv', OtaTypeOK', cached' = cached,
           connection' \in Requests \cup {NoThread}, verified' \subseteq GrantIds,
           clean' \in BOOLEAN, DownloadInv', VerifyInv'
    PROVE  UpdateInv'
  BY DEF UpdateInv, TypeOK, ServerInv

\* What the device does by itself, or with an answer that is there.
LEMMA DeviceSteps ==
    ASSUME UpdateInv,
           \/ \E c \in Checks : CheckTask(c) \/ CheckTaskFails(c)
           \/ Monitoring \/ CleaningUp \/ Rebooting \/ Crashing \/ Unlucky
           \/ Downloading
           \/ \E r \in Requests : Refused(r) \/ Accepted(r) \/ Received(r)
    PROVE  UpdateInv' /\ Installs
  <1> USE ServerOf, FaultTypes, KindsAre, HistoryTypes
  <1>1. /\ OtaTypeOK /\ connection \in Requests \cup {NoThread}
        /\ cached \in 0..MaxGrants /\ verified \subseteq GrantIds
        /\ DownloadInv /\ VerifyInv
    BY DEF UpdateInv, TypeOK
  <1>2. UNCHANGED <<storeVars, grantVars>>
        /\ (faults' = faults \/ \E kind \in AllFaultKinds : Fault(kind))
    BY DEF CheckTask, CheckTaskFails, Monitoring, CleaningUp, Rebooting,
           Crashing, Unlucky, Downloading, Refused, Accepted, Received,
           DeviceOnly, Disconnects
  <1>3. /\ ServerInv' /\ OffersStay /\ TokensStay /\ confirming' = confirming
        /\ UNCHANGED <<grants, made, requests>>
    BY <1>2, SameServerVars DEF grantVars, tables
  <1>4. CASE \E c \in Checks : CheckTask(c) \/ CheckTaskFails(c)
    <2>1. PICK c \in Checks : CheckTask(c) \/ CheckTaskFails(c)
      BY <1>4
    <2>2. grants[c].offer.version \in 0..MaxBuild
      BY ChecksAre DEF UpdateInv, TypeOK, GrantsTypeOK, Offer
    <2>3. \/ CheckTaskStep(c) \/ CheckFails(c)
          \/ \E v \in 0..MaxBuild : Authenticate(c, v)
      BY <2>1, <2>2 DEF CheckTask, CheckTaskFails
    <2>4. UNCHANGED <<connection, cached>> /\ KeepsHistory
      BY <2>1 DEF CheckTask, CheckTaskFails, SameLinks, DeviceOnly
    <2>5. /\ OtaTypeOK' /\ UNCHANGED <<task, monitor, boot>>
          /\ otaState' = "SUCCESS" => otaState = "SUCCESS"
          /\ Announced' => Announced
      BY <1>1, <2>3, CheckSteps
    <2>6. Reporting' => Reporting
      BY <1>3, <2>4, <2>5 DEF Reporting, Announced
    <2>7. QED  BY <1>1, <1>3, <2>4, <2>5, <2>6, QuietKeeps DEF Installs
  <1>5. CASE Monitoring
    <2>1. /\ MonitorStep /\ UNCHANGED <<connection, cached>>
          /\ KeepsHistory
      BY <1>5 DEF Monitoring, SameLinks, DeviceOnly
    <2>2. /\ OtaTypeOK' /\ UNCHANGED <<task, otaState, boot>>
          /\ monitor' = "report" => otaState = "SUCCESS"
          /\ Announced' => Announced \/ monitor = "report"
      BY <1>1, <2>1, MonitorSteps
    <2>3. Reporting' => Reporting
      BY <1>3, <2>1, <2>2 DEF Reporting, Announced
    <2>4. QED  BY <1>1, <1>3, <2>1, <2>2, <2>3, QuietKeeps DEF Installs
  <1>6. CASE CleaningUp
    <2>1. Cleanup /\ UNCHANGED <<connection, cached>> /\ KeepsHistory
      BY <1>6 DEF CleaningUp, SameLinks, DeviceOnly
    <2>2. /\ OtaTypeOK' /\ UNCHANGED <<uplink, monitor, boot>>
          /\ task.pc = "cleanup" /\ task' = IdleTask
          /\ otaState' = "SUCCESS" => otaState = "SUCCESS"
      BY <1>1, <2>1, CleanupStep
    <2>3. DownloadInv'
      BY <1>1, <2>1, <2>2 DEF DownloadInv, IdleTask
    <2>4. VerifyInv'
      BY <1>1, <1>3, <2>1, <2>2 DEF VerifyInv, Reporting, IdleTask
    <2>5. QED  BY <1>1, <1>3, <2>1, <2>2, <2>3, <2>4, Whole DEF Installs
  <1>7. CASE Rebooting \/ Crashing
    <2>1. /\ Boot /\ connection' = NoThread /\ cached' = cached
          /\ KeepsHistory
      BY <1>7 DEF Rebooting, Crashing, Disconnects, DeviceOnly, EspRestart
    <2>2. /\ OtaTypeOK' /\ boot' = boot /\ task' = IdleTask
          /\ monitor' = "idle" /\ otaState' = "IDLE"
          /\ Announced' => Announced
      BY <1>1, <2>1, BootStep
    <2>3. DownloadInv'
      BY <2>1, <2>2 DEF DownloadInv, IdleTask
    <2>4. VerifyInv'
      BY <1>1, <1>3, <2>1, <2>2 DEF VerifyInv, Reporting, Announced, IdleTask
    <2>5. QED  BY <1>1, <1>3, <2>1, <2>2, <2>3, <2>4, Whole DEF Installs
  <1>8. ASSUME \/ ConnectWifi \/ StartDownload \/ GetRefused \/ ReadEnds
               \/ Verify \/ Install \/ TaskFails,
               cached' = cached,
               \/ connection' = NoThread
               \/ /\ connection' = connection
                  /\ task.pc \notin {"headers", "read"},
               clean' \in BOOLEAN,
               verified' = IF task.pc = "verify" /\ task'.error = "OK"
                           THEN verified \cup {task.check} ELSE verified
        PROVE  UpdateInv' /\ Installs
    <2>1. task.pc = "install" => task.body # 0
      BY <1>1 DEF DownloadInv
    <2>2. /\ OtaTypeOK' /\ UNCHANGED <<uplink, monitor>>
          /\ task.pc # "idle" /\ task'.check = task.check
          /\ task'.sha256 = task.sha256 /\ task'.body = task.body
          /\ task'.pc # "cleanup" => task'.error = task.error
          /\ task'.pc # "read"
          /\ task'.pc = "verify" => task.pc = "read"
          /\ task'.pc = "install" =>
                task.pc = "verify" /\ task.body = task.sha256
          /\ task'.pc = "restart" => task.pc = "install"
          /\ otaState' = "SUCCESS" =>
                \/ otaState = "SUCCESS" \/ task.pc = "install"
                \/ task.pc = "verify" /\ task'.error = task.error
          /\ boot' # boot => task.pc = "install" /\ boot' = task.body
      BY <1>1, <1>8, <2>1, DownloadMoves
    <2>3. connection' = NoThread
      BY <1>1, <1>8 DEF DownloadInv
    <2>4. \A g, i : IsFor(g, i)' <=> IsFor(g, i)
      BY <1>3 DEF IsFor
    <2>5. task.pc # "cleanup"
      BY <1>8 DEF ConnectWifi, StartDownload, GetRefused, ReadEnds, Verify,
                  Install, TaskFails
    <2>6. DownloadInv'
      BY <1>1, <2>2, <2>3, <2>4, <2>5 DEF DownloadInv
    <2>7. task.check \in GrantIds
      <3>1. task.check \in 0..MaxChecks
        BY <1>1 DEF OtaTypeOK, Task
      <3>2. QED  BY <1>1, <2>2, <3>1, ChecksAre DEF DownloadInv, Checks
    <2>8. verified \subseteq verified' /\ verified' \subseteq GrantIds
      BY <1>1, <1>8, <2>7
    <2>9. task.pc = "verify" /\ task'.error = task.error => verified' # {}
      BY <1>1, <1>8 DEF DownloadInv
    <2>10. VerifyInv'
      <3>1. Reporting' =>
               \/ Reporting
               \/ task.pc = "verify" /\ task'.error = task.error
        <4>1. UNCHANGED <<cached, confirming, monitor, uplink>>
          BY <1>3, <1>8, <2>2
        <4>2. task'.pc \in {"install", "restart"} =>
                 \/ task.pc = "install"
                 \/ task.pc = "verify" /\ task'.error = task.error
          BY <2>2
        <4>3. otaState' = "SUCCESS" =>
                 \/ Reporting
                 \/ task.pc = "verify" /\ task'.error = task.error
          BY <2>2 DEF Reporting
        <4>4. \/ cached' # 0 \/ confirming' # 0 \/ monitor' = "report"
              \/ \E i \in DOMAIN uplink' : uplink'[i] # 0
              => Reporting
          BY <4>1 DEF Reporting
        <4>5. task.pc = "install" => Reporting
          BY DEF Reporting
        <4>6. QED  BY <4>2, <4>3, <4>4, <4>5 DEF Reporting
      <3>2. QED  BY <1>1, <2>8, <2>9, <3>1 DEF VerifyInv
    <2>11. Installs
      BY <1>1, <2>2 DEF Installs, DownloadInv, IsFor
    <2>12. QED
      BY <1>1, <1>3, <1>8, <2>2, <2>3, <2>6, <2>8, <2>10, <2>11, Whole
  <1>9. CASE Unlucky
    <2>1. /\ TaskFails /\ connection' = NoThread /\ cached' = cached
          /\ KeepsHistory
          /\ task.pc # "verify"
      BY <1>9 DEF Unlucky, Disconnects, DeviceOnly, TaskFails
    <2>2. clean' \in BOOLEAN /\ verified' = verified
      BY <2>1
    <2>3. QED  BY <1>8, <2>1, <2>2
  <1>10. ASSUME NEW r \in Requests, Refused(r) \/ Received(r)
         PROVE  UpdateInv' /\ Installs
    <2>1. /\ connection' = NoThread /\ cached' = cached /\ KeepsHistory
          /\ GetRefused \/ ReadEnds \/ TaskFails
          /\ task.pc # "verify"
      BY <1>10 DEF Refused, Received, Disconnects, DeviceOnly, GetRefused,
                   ReadEnds, TaskFails
    <2>2. clean' \in BOOLEAN /\ verified' = verified
      BY <2>1
    <2>3. QED  BY <1>8, <2>1, <2>2
  <1>11. CASE Downloading
    <2>1. /\ DownloadStep /\ UNCHANGED <<connection, cached>>
          /\ clean' = (clean /\ faults' = faults)
          /\ verified' = IF task.pc = "verify" /\ task'.error = "OK"
                         THEN verified \cup {task.check} ELSE verified
      BY <1>11 DEF Downloading, SameLinks
    <2>2. clean' \in BOOLEAN
      BY <2>1, Zenon
    <2>3. CASE TaskReceives
      <3>1. /\ OtaTypeOK' /\ UNCHANGED <<uplink, monitor, boot>>
            /\ task.pc = "idle"
            /\ \/ task' = task
               \/ /\ task'.pc = "scan" /\ task'.check # 0
                  /\ task'.error = "OK"
            /\ otaState' = "SUCCESS" => otaState = "SUCCESS"
        BY <1>1, <2>3, ReceiveStep
      <3>2. verified' = verified
        BY <2>1, <3>1
      <3>3. DownloadInv'
        BY <1>1, <1>3, <2>1, <3>1 DEF DownloadInv
      <3>4. VerifyInv'
        BY <1>1, <1>3, <2>1, <3>1, <3>2 DEF VerifyInv, Reporting
      <3>5. QED
        BY <1>1, <1>3, <2>1, <2>2, <3>1, <3>2, <3>3, <3>4, Whole DEF Installs
    <2>4. CASE ConnectWifi \/ StartDownload \/ Verify \/ Install
      <3>1. task.pc \notin {"headers", "read"}
        BY <2>4 DEF ConnectWifi, StartDownload, Verify, Install
      <3>2. QED  BY <1>8, <2>1, <2>2, <2>4, <3>1
    <2>5. QED  BY <2>1, <2>3, <2>4 DEF DownloadStep
  <1>12. ASSUME NEW r \in Requests, Accepted(r)
         PROVE  UpdateInv' /\ Installs
    <2>1. /\ connection = r /\ requests[r].answer \in {"ok", "all"}
          /\ ReadHeaders(requests[r].image, requests[r].body)
          /\ connection' = IF task'.pc = "read" THEN r ELSE NoThread
          /\ cached' = cached /\ KeepsHistory
      BY <1>12 DEF Accepted, Answered, DeviceOnly
    <2>2. PICK sha256, body : /\ sha256 = requests[r].image
                              /\ body = requests[r].body
      OBVIOUS
    <2>3. /\ sha256 \in 0..MaxBuild /\ body \in 0..MaxBuild /\ body # 0
          /\ IsFor(requests[r].grant, sha256)
      BY <2>1, <2>2 DEF ServerInv, GrantsTypeOK, Request, RequestInv,
                        RequestGood
    <2>4. /\ OtaTypeOK' /\ UNCHANGED <<uplink, monitor, boot, otaState>>
          /\ task.pc = "headers" /\ task'.check = task.check
          /\ \/ /\ task'.pc = "read" /\ task'.sha256 = sha256
                /\ task'.body = body /\ task'.error = task.error
             \/ task'.pc = "cleanup"
      BY <1>1, <2>1, <2>2, <2>3, HeadersStep
    <2>5. r # NoThread
      BY UpdateAssumption
    <2>6. requests[r].grant = task.check /\ task.check # 0
      BY <1>1, <2>1, <2>4, <2>5 DEF DownloadInv
    <2>7. IsFor(task.check, sha256)'
      BY <1>3, <2>3, <2>4, <2>6 DEF IsFor
    <2>8. DownloadInv'
      <3>1. CASE task'.pc = "cleanup"
        BY <2>1, <2>4, <2>6, <3>1 DEF DownloadInv
      <3>2. CASE task'.pc = "read"
        BY <1>1, <1>3, <2>1, <2>3, <2>4, <2>6, <2>7, <3>2
           DEF DownloadInv
      <3>3. QED  BY <2>4, <3>1, <3>2
    <2>9. VerifyInv'
      BY <1>1, <1>3, <2>1, <2>4 DEF VerifyInv, Reporting
    <2>10. QED
      BY <1>1, <1>3, <2>1, <2>4, <2>8, <2>9, Whole DEF Installs
  <1>13. QED
    BY <1>4, <1>5, <1>6, <1>7, <1>9, <1>10, <1>11, <1>12

LEMMA RequestingStep ==
    ASSUME UpdateInv, NEW r \in Requests, Requesting(r)
    PROVE  UpdateInv' /\ Installs
  <1> USE ServerOf, FaultTypes, KindsAre, HistoryTypes
  <1>1. /\ OtaTypeOK /\ cached \in 0..MaxGrants /\ verified \subseteq GrantIds
        /\ DownloadInv /\ VerifyInv
    BY DEF UpdateInv, TypeOK
  <1>2. /\ SendGet /\ Get(r, task.check) /\ connection' = r /\ cached' = cached
        /\ faults' = faults \/ Fault("time")
        /\ KeepsHistory
    BY DEF Requesting
  <1>3. clean' \in BOOLEAN /\ verified' = verified
    BY <1>2
  <1>4. task.pc # "cleanup" /\ task'.pc = "headers" /\ otaState' = otaState
        /\ task.pc # "install" /\ task.pc # "idle"
    BY <1>1, <1>2 DEF SendGet, OtaTypeOK, Task
  <1>5. /\ OtaTypeOK' /\ UNCHANGED <<uplink, monitor>>
        /\ task'.check = task.check
        /\ task'.pc # "cleanup" => task'.error = task.error
        /\ boot' = boot
    BY <1>1, <1>2, <1>4, DownloadMoves
  <1>6. PICK g : g = task.check
    OBVIOUS
  <1>7. g \in GrantIds /\ Get(r, g)
    <2>1. g \in 0..MaxChecks /\ g # 0
      BY <1>1, <1>4, <1>6 DEF OtaTypeOK, Task, DownloadInv
    <2>2. QED  BY <1>2, <1>6, <2>1, ChecksAre DEF GrantIds
  <1>8. /\ ServerInv' /\ confirming' = confirming /\ requests'[r].grant = g
    BY <1>2, <1>7, GetStep
  <1>9. DownloadInv'
    BY <1>1, <1>2, <1>4, <1>5, <1>6, <1>7, <1>8, ChecksAre
       DEF DownloadInv, GrantIds
  <1>10. VerifyInv'
    BY <1>1, <1>2, <1>3, <1>4, <1>5, <1>8 DEF VerifyInv, Reporting
  <1>11. QED
    BY <1>1, <1>2, <1>3, <1>5, <1>8, <1>9, <1>10, Whole DEF Installs

LEMMA UpdateStarts == Init => UpdateInv
  <1> SUFFICES ASSUME Init PROVE UpdateInv
    OBVIOUS
  <1>1. fw \in 1..MaxContent
    BY Offers, ChecksAre DEF Init, Builds
  <1>2. OtaTypeOK
    BY <1>1, ChecksAre, EmptyIs
       DEF Init, OtaInit, OtaTypeOK, CheckPcs, OtaStates, Errors, Statuses
  <1>3. StoreTypeOK
    <2>1. 0 \in 0..MaxPublishes
      BY StoreAssumption
    <2>2. [image |-> FirstBuild, version |-> FirstBuild] \in Offer
      BY Offers
    <2>3. QED
      BY <2>1, <2>2, Offers
         DEF Init, GrantsInit, StoreInit, StoreTypeOK, NoPublish, NoScan
  <1>4. NoRequest \in Request
    BY Offers DEF NoRequest, Request, RequestPcs, Answers
  <1>5. GrantsTypeOK
    <2>1. 0 \in 0..MaxGrants /\ 0 \in 0..MaxBuild /\ 0 \in 0..MaxFaults
      BY Offers, GrantsAssumption
    <2>2. grants \in [GrantIds -> [state : GrantStates, offer : Offer]]
          /\ rows \in [Builds -> RowStates]
          /\ sender \in [pc : {"idle", "version", "grant", "publish"},
                         offer : Offer]
      BY Offers DEF Init, GrantsInit, GrantStates, RowStates, NoSend
    <2>3. QED
      BY <1>3, <1>4, <2>1, <2>2, EmptyIs DEF Init, GrantsInit, GrantsTypeOK
  <1>6. TypeOK
    <2>1. cached \in 0..MaxGrants /\ connection \in Requests \cup {NoThread}
          /\ verified \subseteq GrantIds
      BY Offers DEF Init
    <2>2. clean \in BOOLEAN
      <3>1. clean = FALSE
        BY DEF Init
      <3>2. QED  BY <3>1
    <2>3. QED  BY <1>2, <1>5, <2>1, <2>2 DEF TypeOK
  <1>7. DispatchInv /\ UsedInv
    BY Offers
       DEF Init, GrantsInit, DispatchInv, UsedInv, NoSend, GrantIds
  <1>8. RequestInv
    BY DEF Init, GrantsInit, RequestInv, RequestGood, NoRequest, Unanswered
  <1>9. DownloadInv
    BY DEF Init, OtaInit, DownloadInv, IdleTask
  <1>10. VerifyInv
    BY EmptyIs
       DEF Init, OtaInit, GrantsInit, VerifyInv, Reporting, IdleTask
  <1>11. QED  BY <1>6, <1>7, <1>8, <1>9, <1>10 DEF UpdateInv

LEMMA UpdateKept == UpdateInv /\ [Next]_vars => UpdateInv' /\ Installs
  <1> SUFFICES ASSUME UpdateInv, [Next]_vars PROVE UpdateInv' /\ Installs
    OBVIOUS
  <1>1. CASE System
    BY <1>1, ServerSteps, NetworkSteps, DeviceSteps, RequestingStep
       DEF System, Installs
  <1>2. CASE Environment
    BY <1>2, ServerSteps, NetworkSteps DEF Environment, Installs
  <1>3. CASE Failures
    BY <1>3, ServerSteps, NetworkSteps, DeviceSteps DEF Failures, Installs
  <1>4. CASE UNCHANGED vars
    <2>1. UNCHANGED <<storeVars, grantVars, faults, otaVars, connection, cached,
                      verified, clean>>
      BY <1>4 DEF vars
    <2>2. ServerInv' /\ OffersStay /\ TokensStay /\ confirming' = confirming
      BY <2>1, SameServerVars, ServerOf
    <2>3. clean' \in BOOLEAN
      BY <2>1, ServerOf
    <2>4. QED  BY <2>1, <2>2, <2>3, ServerKeeps, ServerOf DEF Installs
  <1>5. QED  BY <1>1, <1>2, <1>3, <1>4 DEF Next

LEMMA UpdateAlways == Spec => []UpdateInv /\ [][Installs]_vars
  <1>1. Init => UpdateInv
    BY UpdateStarts
  <1>2. UpdateInv /\ [Next]_vars => UpdateInv' /\ Installs
    BY UpdateKept
  <1>3. QED  BY <1>1, <1>2, PTL DEF Spec

-----------------------------------------------------------------------------
(* Theorems *)

\* Every variable of the update has a value of its type, and no index of the
\* tables is ever out of range.
THEOREM UpdateTypes == Spec => []TypeOK
  <1>1. UpdateInv => TypeOK
    BY DEF UpdateInv
  <1>2. QED  BY <1>1, UpdateAlways, PTL

\* The server accepts F only for a grant whose BIN it has sent to the end,
\* whatever threads, restarts, repeated CHECKs and old frames do
\* (confirm_completed_download_b64, consume_dispatch_token).
THEOREM OnlySentIsConfirmed == Spec => []ConfirmedWasSent
  <1>1. UpdateInv => ConfirmedWasSent
    BY DEF UpdateInv, UsedInv, ConfirmedWasSent
  <1>2. QED  BY <1>1, UpdateAlways, PTL

\* The device sets the boot partition to the build that its CHECK was made
\* for, whatever is published meanwhile and however many CHECKs there are
\* (OTAHandler.do_GET, ota_service.c ota_task).
THEOREM OfferedIsInstalled == Spec => InstalledWasOffered
  <1>1. Installs => (boot' # boot => boot' = grants[task.check].offer.image)
    BY DEF Installs
  <1>2. QED  BY <1>1, UpdateAlways, PTL DEF InstalledWasOffered

\* While one CHECK at most is sent, its F is accepted only after the device
\* has verified the BIN.  With two this is false: F names the grant stored by
\* then (zigbee_ota_report_download_complete).
THEOREM VerifiedIfAlone ==
    ASSUME MaxGrants = 1
    PROVE  Spec => []ConfirmedWasVerified
  <1>1. UpdateInv => ConfirmedWasVerified
    <2> SUFFICES ASSUME UpdateInv, confirming # 0
                 PROVE  confirming \in verified
      BY DEF ConfirmedWasVerified
    <2>1. verified # {}
      BY DEF UpdateInv, VerifyInv, Reporting
    <2>2. verified \subseteq {1} /\ confirming \in 0..1
      BY DEF UpdateInv, TypeOK, GrantsTypeOK, GrantIds
    <2>3. PICK g \in verified : TRUE
      BY <2>1
    <2>4. g = 1 /\ confirming = 1
      BY <2>2, <2>3
    <2>5. QED  BY <2>3, <2>4
  <1>2. QED  BY <1>1, UpdateAlways, PTL

-----------------------------------------------------------------------------
(* An undisturbed update: what the server has come to *)

\* The dispatch has no grant yet.
Dispatching ==
    scanning["send"].pc # "idle" \/ sender.pc \in {"version", "grant"}

Newest == [image |-> bin, version |-> bin]

\* The two files are of one build, every scan finds it, and the dispatch
\* offers it.
StoreClean ==
    /\ publishing.pc = "idle" /\ bin = release
    /\ \A s \in Scanners :
          /\ scanning[s].pc \in {"read", "list"} =>
                scanning[s].found.image = bin
          /\ scanning[s].pc = "list" => scanning[s].found.version = bin
    /\ scanning["send"].pc \notin {"read", "list"} => listed = Newest
    /\ scanning["send"].pc # "idle" => sender.pc = "idle"
    /\ sender.pc # "idle" => sender.offer = Newest

\* The dispatch has its grant, for that build, in time.
Granted == /\ ~Dispatching /\ made # 0 /\ made \notin overdue
           /\ grants[made].offer = Newest

AllIdle == \A r \in Requests : requests[r].pc = "idle"

\* Nobody has asked for the BIN.
Unasked == AllIdle /\ grants[made].state = "open"

\* No CHECK is on its way or still to be noted.
Noted == checks = <<>> /\ observed = <<>> /\ observing = 0

RowDone == rows[bin] \in {"DOWNLOAD_COMPLETED", "DEVICE_CONFIRMED"}

\* Thread r alone is busy, with the grant, and the transfer is booked.
OnlyRequest(r) ==
    /\ r \in Requests /\ \A t \in Requests : t # r => requests[t].pc = "idle"
    /\ requests[r].pc # "idle" => requests[r].grant = made

\* It has not sent the BIN.
Answering(r) ==
    /\ OnlyRequest(r) /\ grants[made].state = "open"
    /\ requests[r].pc \in Unanswered \cup {"sending"}
    /\ requests[r].pc \notin {"look", "check"} => requests[r].booked = bin
    /\ requests[r].pc \notin {"look", "again"} => requests[r].image = bin

\* It has.
Transferred(r) ==
    /\ OnlyRequest(r) /\ requests[r].pc \in {"book", "consume", "idle"}
    /\ requests[r].pc # "idle" =>
          /\ requests[r].image = bin /\ requests[r].booked = bin
          /\ grants[made].state = "open"
    /\ requests[r].pc # "book" => RowDone
    /\ requests[r].pc = "idle" => grants[made].state = "used"

\* What the device may see of the answer.
AnswerIs(r) ==
    IF requests[r].pc \in Unanswered THEN requests[r].answer = "none"
    ELSE /\ requests[r].answer =
               IF requests[r].pc = "sending" THEN "ok" ELSE "all"
         /\ requests[r].body = bin /\ requests[r].image = bin

\* The row says that the device has confirmed the image, or is about to.
ConfirmedSoon ==
    /\ AllIdle /\ grants[made].state = "used" /\ RowDone
    /\ \/ rows[bin] = "DEVICE_CONFIRMED"
       \/ confirming # 0 /\ grants[confirming].offer.image = bin

-----------------------------------------------------------------------------
(* What the device has come to *)

Unchecked == \A c \in Checks : checkTasks[c] = "none"
NoF == ~Announced

Resting ==
    /\ Unchecked /\ queue = 0 /\ task.pc = "idle" /\ monitor = "idle"
    /\ seen = otaState /\ uplink = <<>> /\ fw < bin /\ connection = NoThread

\* The CHECK, up to the request that it makes.
ChecksIt ==
    /\ made \in Checks /\ checkTasks[made] # "none"
    /\ \A c \in Checks : c # made => checkTasks[c] = "none"
    /\ checkTasks[made] \in {"grant", "announce", "request"} => config = made
    /\ checkTasks[made] \in {"announce", "request"} => activeGrant = made
    /\ queue = 0 /\ task.pc = "idle" /\ seen = otaState

\* The request, up to GET.
LoadsIt ==
    /\ Unchecked /\ config = made /\ activeGrant = made
    /\ \/ queue = made /\ task.pc = "idle" /\ otaState = "PENDING"
       \/ /\ queue = 0 /\ task.check = made
          /\ \/ task.pc = "scan" /\ otaState = "PENDING"
             \/ task.pc = "connect" /\ otaState = "CONNECTING_WIFI"
             \/ task.pc = "get" /\ otaState = "DOWNLOADING"

Downloads == Unchecked /\ queue = 0

ReadsIt ==
    /\ Downloads /\ activeGrant = made /\ fw < bin
    /\ monitor = "idle" /\ NoF
    /\ task.pc \in {"headers", "read"}
    /\ otaState = "DOWNLOADING" /\ seen = "DOWNLOADING"
    /\ task.pc = "read" =>
          /\ task.sha256 = bin /\ task.body = bin
          /\ requests[connection].answer \in {"ok", "all"}

VerifiesIt ==
    /\ activeGrant = made /\ monitor = "idle" /\ NoF
    /\ task.pc \in {"verify", "install"}
    /\ task.pc = "install" => ~DryRun
    /\ otaState = "VERIFYING" /\ seen # "SUCCESS"
    /\ task.sha256 = bin /\ task.body = bin

\* F is on its way, or has come.
Told ==
    /\ \A i \in DOMAIN uplink : uplink[i] \in {0, made}
    /\ ConfirmedSoon \/ \E i \in DOMAIN uplink : uplink[i] = made

\* The download has succeeded, and the monitor reports it.
SucceedsIt ==
    /\ otaState = "SUCCESS" /\ task.error = "OK"
    /\ IF DryRun THEN task.pc \in {"cleanup", "idle"}
       ELSE task.pc = "restart" /\ boot = bin
    /\ \/ seen # "SUCCESS" /\ monitor = "idle" /\ NoF /\ activeGrant = made
       \/ /\ seen = "SUCCESS" /\ status = "FW_UPDATE_COMPLETE"
          /\ \/ monitor = "report" /\ NoF /\ activeGrant = made
             \/ monitor # "report" /\ Told

RunsIt ==
    /\ ~DryRun /\ fw = bin /\ task.pc = "idle"
    /\ otaState = "IDLE" /\ seen = "IDLE" /\ monitor = "idle" /\ Told

-----------------------------------------------------------------------------
(* The phases of an undisturbed update *)

Dispatches == Dispatching /\ Noted /\ AllIdle /\ Resting
Publishes == Granted /\ sender.pc = "publish" /\ Noted /\ Unasked /\ Resting
Delivers ==
    Granted /\ sender.pc = "idle" /\ checks = <<made>> /\ Unasked /\ Resting
Asks ==
    /\ Granted /\ sender.pc = "idle" /\ checks = <<>> /\ Unasked
    /\ monitor = "idle" /\ NoF /\ fw < bin /\ connection = NoThread
    /\ ChecksIt \/ LoadsIt
Fetches ==
    /\ Granted /\ sender.pc = "idle" /\ Noted /\ ReadsIt
    /\ Answering(connection) \/ Transferred(connection)
    /\ AnswerIs(connection)
Ends ==
    /\ Granted /\ sender.pc = "idle" /\ Noted /\ Downloads
    /\ connection = NoThread /\ \E r \in Requests : Transferred(r)
    /\ VerifiesIt \/ SucceedsIt \/ RunsIt

Phases == Dispatches \/ Publishes \/ Delivers \/ Asks \/ Fetches \/ Ends

\* What holds of every update, undisturbed or not.
BaseInv == /\ overdue \subseteq 1..made
           /\ running <=> task.pc # "idle"

CleanInv == clean => StoreClean /\ Phases

-----------------------------------------------------------------------------
(* The server's steps in it *)

\* A step that none of the phases is about.
LEMMA PhasesStay ==
    ASSUME UNCHANGED <<bin, overdue, made, grants, rows, sender, checks,
                       observed, observing, requests, confirming, otaVars,
                       connection>>,
           Dispatching' <=> Dispatching, Phases
    PROVE  Phases'
  <1> USE DEF otaVars, otaRam, otaFlash
  <1>1. Granted' = Granted
    BY DEF Granted, Newest
  <1>2. AllIdle' = AllIdle /\ Unasked' = Unasked /\ Noted' = Noted
    BY DEF AllIdle, Unasked, Noted
  <1>3. \A r : OnlyRequest(r)' = OnlyRequest(r)
    BY DEF OnlyRequest
  <1>4. RowDone' = RowDone
    BY DEF RowDone
  <1>5. \A r : Transferred(r)' = Transferred(r)
    BY <1>3, <1>4 DEF Transferred
  <1>6. Answering(connection)' = Answering(connection)
        /\ AnswerIs(connection)' = AnswerIs(connection)
    BY <1>3 DEF Answering, AnswerIs
  <1>7. NoF' = NoF /\ Unchecked' = Unchecked /\ Told' = Told
    BY <1>2, <1>4 DEF NoF, Announced, Unchecked, Told, ConfirmedSoon
  <1>8. Resting' = Resting /\ ChecksIt' = ChecksIt /\ LoadsIt' = LoadsIt
    BY <1>7 DEF Resting, ChecksIt, LoadsIt
  <1>9. Downloads' = Downloads /\ ReadsIt' = ReadsIt
    BY <1>7 DEF Downloads, ReadsIt
  <1>10. VerifiesIt' = VerifiesIt /\ SucceedsIt' = SucceedsIt /\ RunsIt' = RunsIt
    BY <1>7 DEF VerifiesIt, SucceedsIt, RunsIt
  <1>11. Ends' = Ends
    BY <1>1, <1>2, <1>5, <1>9, <1>10 DEF Ends
  <1>12. Fetches' = Fetches
    BY <1>1, <1>2, <1>5, <1>6, <1>9 DEF Fetches
  <1>13. QED
    BY <1>1, <1>2, <1>7, <1>8, <1>11, <1>12
       DEF Phases, Dispatches, Publishes, Delivers, Asks

LEMMA ScansKeepClean ==
    ASSUME UpdateInv, StoreClean, Phases,
           UNCHANGED <<grantVars, otaVars, connection>>,
           ScanHashes("page") \/ \E s \in Scanners : ScanStep(s)
    PROVE  StoreClean' /\ Phases'
  <1>1. /\ scanning \in [Scanners -> [pc : {"idle", "read", "list", "listed"},
                                      found : Offer]]
        /\ release \in Builds
    BY DEF UpdateInv, TypeOK, GrantsTypeOK, StoreTypeOK
  <1>2. "page" \in Scanners /\ "send" \in Scanners
    BY DEF Scanners
  <1>3. StoreClean' /\ (Dispatching' <=> Dispatching) /\ bin' = bin
    <2> USE <1>1, <1>2 DEF StoreClean, Dispatching, Newest, grantVars
    <2>1. CASE ScanHashes("page")
      BY <2>1 DEF ScanHashes
    <2>2. ASSUME NEW s \in Scanners, ScanReads(s)
          PROVE  StoreClean' /\ (Dispatching' <=> Dispatching) /\ bin' = bin
      <3>1. /\ scanning'[s].pc = "list" /\ scanning'[s].found.version = release
            /\ scanning'[s].found.image = scanning[s].found.image
            /\ \A t \in Scanners : t # s => scanning'[t] = scanning[t]
        BY <2>2 DEF ScanReads, Offer
      <3>2. QED  BY <2>2, <3>1 DEF ScanReads
    <2>3. ASSUME NEW s \in Scanners, ScanLists(s)
          PROVE  StoreClean' /\ (Dispatching' <=> Dispatching) /\ bin' = bin
      <3>1. /\ scanning'[s].pc = IF s = "send" THEN "listed" ELSE "idle"
            /\ \A t \in Scanners : t # s => scanning'[t] = scanning[t]
        BY <2>3 DEF ScanLists, NoScan
      <3>2. scanning[s].found = Newest
        BY <2>3 DEF ScanLists, Offer
      <3>3. QED  BY <2>3, <3>1, <3>2 DEF ScanLists
    <2>4. QED  BY <2>1, <2>2, <2>3 DEF ScanStep
  <1>4. QED  BY <1>3, PhasesStay DEF grantVars, tables

\* The dispatch: get_image, _firmware_for_code, create_ota_check_grant and the
\* publish.
LEMMA SendingKeepsClean ==
    ASSUME UpdateInv, BaseInv, StoreClean, Phases, UNCHANGED <<otaVars, connection>>,
           SendLooks \/ SendFindsVersion \/ SendGrants \/ SendPublishes
    PROVE  StoreClean' /\ Phases'
  <1> USE DEF otaVars, otaRam, otaFlash, storeVars, tables
  <1>1. /\ scanning \in [Scanners -> [pc : {"idle", "read", "list", "listed"},
                                      found : Offer]]
        /\ sender \in [pc : {"idle", "version", "grant", "publish"},
                       offer : Offer]
        /\ made \in 0..MaxGrants /\ bin \in Builds
        /\ grants \in [GrantIds -> [state : GrantStates, offer : Offer]]
    BY DEF UpdateInv, TypeOK, GrantsTypeOK, StoreTypeOK
  <1>2. "page" \in Scanners /\ "send" \in Scanners
    BY DEF Scanners
  <1>3. bin # 0 /\ MaxGrants \in Nat
    BY <1>1, Offers DEF Builds
  <1>4. UNCHANGED <<Resting, AllIdle>>
    BY DEF SendLooks, SendFindsVersion, SendGrants, SendPublishes, SendOnly,
           Resting, AllIdle, Unchecked
  <1>5. CASE SendLooks
    <2>1. scanning["send"].pc = "listed" /\ sender.pc = "idle"
          /\ listed = Newest
      BY <1>5 DEF SendLooks, StoreClean
    <2>2. sender' = [pc |-> "version", offer |-> Newest]
          /\ scanning' = [scanning EXCEPT !["send"] = NoScan]
          /\ UNCHANGED <<bin, release, listed, publishing, checks, observed,
                         observing>>
      BY <1>3, <1>5, <2>1 DEF SendLooks, SendOnly, NoOffer, Newest
    <2>3. StoreClean'
      BY <1>1, <1>2, <2>1, <2>2 DEF StoreClean, NoScan, Newest
    <2>4. Dispatches
      BY <2>1 DEF Phases, Publishes, Delivers, Asks, Fetches, Ends, Granted,
                  Dispatching
    <2>5. Dispatches'
      BY <1>4, <2>2, <2>4 DEF Dispatches, Dispatching, Noted
    <2>6. QED  BY <2>3, <2>5 DEF Phases
  <1>6. CASE SendFindsVersion
    <2>1. sender.pc = "version" /\ sender.offer = Newest /\ listed = Newest
      BY <1>6 DEF SendFindsVersion, StoreClean
    <2>2. sender' = [pc |-> "grant", offer |-> Newest]
          /\ UNCHANGED <<scanning, bin, release, listed, publishing, checks,
                         observed, observing>>
      BY <1>6, <2>1 DEF SendFindsVersion, SendOnly
    <2>3. StoreClean'
      BY <2>1, <2>2 DEF StoreClean, Newest
    <2>4. Dispatches
      BY <2>1 DEF Phases, Publishes, Delivers, Asks, Fetches, Ends, Granted,
                  Dispatching
    <2>5. Dispatches'
      BY <1>4, <2>2, <2>4 DEF Dispatches, Dispatching, Noted
    <2>6. QED  BY <2>3, <2>5 DEF Phases
  <1>7. CASE SendGrants
    <2>1. sender.pc = "grant" /\ sender.offer = Newest /\ made < MaxGrants
          /\ scanning["send"].pc = "idle"
      BY <1>7 DEF SendGrants, StoreClean
    <2>2. /\ made' = made + 1
          /\ grants' = [grants EXCEPT ![made + 1] =
                            [state |-> "open", offer |-> Newest]]
          /\ sender' = [sender EXCEPT !.pc = "publish"]
          /\ UNCHANGED <<scanning, bin, release, listed, publishing, checks,
                         observed, observing, overdue>>
      BY <1>7, <2>1 DEF SendGrants
    <2>3. made + 1 \in GrantIds /\ made + 1 # 0 /\ made + 1 \notin overdue
      BY <1>1, <1>3, <2>1 DEF GrantIds, BaseInv
    <2>4. StoreClean'
      BY <1>1, <2>1, <2>2 DEF StoreClean, Newest
    <2>5. Dispatches
      BY <2>1 DEF Phases, Publishes, Delivers, Asks, Fetches, Ends, Granted,
                  Dispatching
    <2>6. Granted' /\ sender'.pc = "publish" /\ grants'[made'].state = "open"
      BY <1>1, <2>1, <2>2, <2>3 DEF Granted, Dispatching, Newest
    <2>7. Publishes'
      BY <1>4, <2>2, <2>5, <2>6 DEF Dispatches, Publishes, Noted, Unasked
    <2>8. QED  BY <2>4, <2>7 DEF Phases
  <1>8. CASE SendPublishes
    <2>1. sender.pc = "publish"
      BY <1>8 DEF SendPublishes
    <2>2. Publishes
      BY <2>1 DEF Phases, Dispatches, Delivers, Asks, Fetches, Ends,
                  Dispatching, StoreClean
    <2>3. /\ checks' = <<made>> /\ sender'.pc = "idle"
          /\ UNCHANGED <<scanning, bin, release, listed, publishing, overdue,
                         made, grants>>
      BY <1>8, <2>2 DEF SendPublishes, NoSend, Publishes, Noted
    <2>4. StoreClean'
      BY <2>3 DEF StoreClean, Newest
    <2>5. Granted' /\ Unasked'
      BY <1>4, <2>2, <2>3
         DEF Publishes, Granted, Dispatching, Unasked, Newest
    <2>6. Delivers'
      BY <1>4, <2>2, <2>3, <2>5 DEF Publishes, Delivers
    <2>7. QED  BY <2>4, <2>6 DEF Phases
  <1>9. QED  BY <1>5, <1>6, <1>7, <1>8

\* The observer may note the CHECK until the device asks for the BIN.
LEMMA ObservingKeepsClean ==
    ASSUME StoreClean, Phases, UNCHANGED <<otaVars, connection>>,
           ObserverLooks \/ ObserverNotes
    PROVE  StoreClean' /\ Phases'
  <1> USE DEF otaVars, otaRam, otaFlash, storeVars, tables
  <1>1. observed # <<>> \/ observing # 0
    BY DEF ObserverLooks, ObserverNotes
  <1>2. UNCHANGED <<storeVars, sender, checks, overdue, made, grants, requests>>
    BY DEF ObserverLooks, ObserverNotes
  <1>3. StoreClean'
    BY <1>2 DEF StoreClean, Newest
  <1>4. Granted' = Granted /\ Unasked' = Unasked /\ NoF' = NoF
    BY <1>2 DEF Granted, Dispatching, Newest, Unasked, AllIdle, NoF, Announced
  <1>5. Resting' = Resting /\ ChecksIt' = ChecksIt /\ LoadsIt' = LoadsIt
    BY <1>2 DEF Resting, ChecksIt, LoadsIt, Unchecked
  <1>6. Delivers \/ Asks
    BY <1>1 DEF Phases, Dispatches, Publishes, Fetches, Ends, Noted
  <1>7. Delivers' \/ Asks'
    BY <1>2, <1>4, <1>5, <1>6 DEF Delivers, Asks
  <1>8. QED  BY <1>3, <1>7 DEF Phases

\* A confirmation of whatever grant takes nothing back.
LEMMA RowsKeepClean ==
    ASSUME StoreClean, Phases,
           UNCHANGED <<storeVars, overdue, made, grants, sender, checks,
                       observed, observing, requests, otaVars, connection>>,
           RowDone => RowDone', ConfirmedSoon => ConfirmedSoon'
    PROVE  StoreClean' /\ Phases'
  <1> USE DEF otaVars, otaRam, otaFlash, storeVars
  <1>1. StoreClean'
    BY DEF StoreClean, Newest
  <1>2. /\ Granted' = Granted /\ AllIdle' = AllIdle /\ Unasked' = Unasked
        /\ Noted' = Noted /\ Dispatching' = Dispatching
    BY DEF Granted, Dispatching, Newest, AllIdle, Unasked, Noted
  <1>3. \A r : OnlyRequest(r)' = OnlyRequest(r)
    BY DEF OnlyRequest
  <1>4. \A r : Transferred(r) => Transferred(r)'
    BY <1>3 DEF Transferred
  <1>5. Answering(connection)' = Answering(connection)
        /\ AnswerIs(connection)' = AnswerIs(connection)
    BY <1>3 DEF Answering, AnswerIs
  <1>6. NoF' = NoF /\ Unchecked' = Unchecked /\ (Told => Told')
    BY DEF NoF, Announced, Unchecked, Told
  <1>7. Resting' = Resting /\ ChecksIt' = ChecksIt /\ LoadsIt' = LoadsIt
    BY <1>6 DEF Resting, ChecksIt, LoadsIt
  <1>8. Downloads' = Downloads /\ ReadsIt' = ReadsIt
    BY <1>6 DEF Downloads, ReadsIt
  <1>9. /\ VerifiesIt' = VerifiesIt
        /\ SucceedsIt => SucceedsIt'
        /\ RunsIt => RunsIt'
    BY <1>6 DEF VerifiesIt, SucceedsIt, RunsIt
  <1>10. Ends => Ends'
    BY <1>2, <1>4, <1>8, <1>9 DEF Ends
  <1>11. Fetches => Fetches'
    BY <1>2, <1>4, <1>5, <1>8 DEF Fetches
  <1>12. QED
    BY <1>1, <1>2, <1>6, <1>7, <1>10, <1>11
       DEF Phases, Dispatches, Publishes, Delivers, Asks

\* The MQTT thread: F is looked at and the row written, also for an old F.
LEMMA ConfirmingKeepsClean ==
    ASSUME UpdateInv, StoreClean, Phases,
           \/ NoteConfirmed
           \/ OnCompletion(cached) /\ UNCHANGED <<uplink, faults>>,
           UNCHANGED <<otaVars, connection>>
    PROVE  StoreClean' /\ Phases'
  <1> USE DEF storeVars, tables
  <1>1. rows \in [Builds -> RowStates] /\ bin \in Builds
    BY DEF UpdateInv, TypeOK, GrantsTypeOK, StoreTypeOK
  <1>2. UNCHANGED <<storeVars, overdue, made, grants, sender, checks,
                    observed, observing, requests>>
    BY DEF NoteConfirmed, OnCompletion
  <1>3. RowDone => RowDone'
    BY <1>1, <1>2 DEF RowDone, NoteConfirmed, Note, OnCompletion
  <1>4. ConfirmedSoon => ConfirmedSoon'
    <2>1. CASE NoteConfirmed
      <3>1. grants[confirming].offer.image = bin
              => rows'[bin] = "DEVICE_CONFIRMED"
        BY <1>1, <2>1, Offers DEF NoteConfirmed, Note, Builds
      <3>2. rows[bin] = "DEVICE_CONFIRMED" => rows'[bin] = "DEVICE_CONFIRMED"
        BY <1>1, <2>1 DEF NoteConfirmed, Note
      <3>3. QED
        BY <1>2, <1>3, <3>1, <3>2 DEF ConfirmedSoon, AllIdle
    <2>2. CASE OnCompletion(cached)
      BY <1>2, <1>3, <2>2 DEF ConfirmedSoon, AllIdle, OnCompletion
    <2>3. QED  BY <2>1, <2>2
  <1>5. QED  BY <1>2, <1>3, <1>4, RowsKeepClean

\* The thread that has the token passes both looks and sends the BIN.
LEMMA AnsweringMoves ==
    ASSUME UpdateInv, StoreClean, Granted, NEW r \in Requests,
           Answering(r), AnswerIs(r), RequestStep(r)
    PROVE  (Answering(r)' \/ Transferred(r)') /\ AnswerIs(r)'
  <1> DEFINE q == requests[r]
             Goal == (Answering(r)' \/ Transferred(r)') /\ AnswerIs(r)'
             Good(p) ==
                /\ p.grant = made /\ p.pc # "look"
                /\ p.booked = bin \/ p.pc = "check"
                /\ p.image = bin \/ p.pc = "again"
                /\ \/ p.pc \in Unanswered /\ p.answer = "none"
                   \/ /\ p.image = bin /\ p.body = bin
                      /\ \/ p.pc = "sending" /\ p.answer = "ok"
                         \/ p.pc = "book" /\ p.answer = "all"
  <1>1. /\ requests \in [Requests -> Request] /\ q \in Request
        /\ bin \in 0..MaxBuild
    BY Offers DEF UpdateInv, TypeOK, GrantsTypeOK, StoreTypeOK
  <1>2. listed.image = bin /\ grants[made].offer.image = bin
        /\ made \notin overdue
    BY DEF StoreClean, Granted, Dispatching, Newest
  <1>3. q.pc \in Unanswered \cup {"sending"} /\ grants[made].state = "open"
        /\ q.grant = made /\ Valid(made, bin)
        /\ \A t \in Requests : t # r => requests[t].pc = "idle"
    BY <1>2 DEF Answering, Unanswered, OnlyRequest, Valid
  <1>4. ASSUME NEW p, requests' = [requests EXCEPT ![r] = p],
               UNCHANGED <<bin, made, grants>>, Good(p)
        PROVE  Goal
    <2>1. requests'[r] = p /\ OnlyRequest(r)'
      BY <1>1, <1>3, <1>4 DEF OnlyRequest
    <2>2. CASE p.pc = "book"
      BY <1>3, <1>4, <2>1, <2>2 DEF Transferred, AnswerIs, Unanswered
    <2>3. CASE p.pc # "book"
      BY <1>3, <1>4, <2>1, <2>3 DEF Answering, AnswerIs, Unanswered
    <2>4. QED  BY <2>2, <2>3
  <1> USE <1>1, <1>2, <1>3 DEF Step, RequestOnly, storeVars, tables, Request
  <1>5. CASE Look(r)
    <2> DEFINE p == [q EXCEPT !.image = listed.image,
                              !.pc = IF @ = "look" THEN "check" ELSE "recheck"]
    <2>1. /\ requests' = [requests EXCEPT ![r] = p]
          /\ q.pc \in {"look", "again"} /\ UNCHANGED <<bin, made, grants>>
      BY <1>5 DEF Look
    <2>2. Good(p)
      BY <2>1 DEF Answering, AnswerIs, Unanswered
    <2> HIDE DEF p, Good
    <2>3. QED  BY <1>4, <2>1, <2>2
  <1>6. CASE Check(r)
    <2> DEFINE p == [q EXCEPT !.pc = "start", !.booked = q.image]
    <2>1. /\ requests' = [requests EXCEPT ![r] = p] /\ q.image = bin
          /\ q.pc = "check" /\ UNCHANGED <<bin, made, grants>>
      BY <1>6 DEF Check, Answering
    <2>2. Good(p)
      BY <2>1 DEF Answering, AnswerIs, Unanswered
    <2> HIDE DEF p, Good
    <2>3. QED  BY <1>4, <2>1, <2>2
  <1>7. CASE Start(r)
    <2> DEFINE p == [q EXCEPT !.pc = "again"]
    <2>1. /\ requests' = [requests EXCEPT ![r] = p]
          /\ q.pc = "start" /\ UNCHANGED <<bin, made, grants>>
      BY <1>7 DEF Start
    <2>2. Good(p)
      BY <2>1 DEF Answering, AnswerIs, Unanswered
    <2> HIDE DEF p, Good
    <2>3. QED  BY <1>4, <2>1, <2>2
  <1>8. CASE Recheck(r)
    <2> DEFINE p == [q EXCEPT !.pc = "open"]
    <2>1. /\ requests' = [requests EXCEPT ![r] = p] /\ q.image = bin
          /\ q.pc = "recheck" /\ UNCHANGED <<bin, made, grants>>
      BY <1>8 DEF Recheck, Answering
    <2>2. Good(p)
      BY <2>1 DEF Answering, AnswerIs, Unanswered
    <2> HIDE DEF p, Good
    <2>3. QED  BY <1>4, <2>1, <2>2
  <1>9. CASE Open(r)
    <2> DEFINE p == [q EXCEPT !.pc = "sending", !.body = bin, !.answer = "ok"]
    <2>1. /\ requests' = [requests EXCEPT ![r] = p]
          /\ q.pc = "open" /\ UNCHANGED <<bin, made, grants>>
      BY <1>9 DEF Open
    <2>2. Good(p)
      BY <2>1 DEF Answering, AnswerIs, Unanswered
    <2> HIDE DEF p, Good
    <2>3. QED  BY <1>4, <2>1, <2>2
  <1>10. CASE SendAll(r)
    <2> DEFINE p == [q EXCEPT !.pc = "book", !.answer = "all"]
    <2>1. /\ requests' = [requests EXCEPT ![r] = p]
          /\ q.pc = "sending" /\ UNCHANGED <<bin, made, grants>>
      BY <1>10 DEF SendAll
    <2>2. Good(p)
      BY <2>1 DEF Answering, AnswerIs, Unanswered
    <2> HIDE DEF p, Good
    <2>3. QED  BY <1>4, <2>1, <2>2
  <1>11. ~NoteFailed(r) /\ ~Book(r) /\ ~Consume(r)
    BY DEF NoteFailed, Book, Consume, Unanswered
  <1>12. QED
    BY <1>5, <1>6, <1>7, <1>8, <1>9, <1>10, <1>11 DEF RequestStep

\* The thread that has sent it books the transfer and uses the grant up.
LEMMA BookingMoves ==
    ASSUME UpdateInv, Granted, NEW r \in Requests,
           Transferred(r), RequestStep(r)
    PROVE  Transferred(r)' /\ (AnswerIs(r) => AnswerIs(r)')
  <1> DEFINE q == requests[r]
  <1>1. /\ requests \in [Requests -> Request] /\ q \in Request
        /\ rows \in [Builds -> RowStates] /\ bin \in Builds
        /\ grants \in [GrantIds -> [state : GrantStates, offer : Offer]]
        /\ made \in GrantIds
    BY DEF UpdateInv, TypeOK, GrantsTypeOK, StoreTypeOK, Granted, GrantIds
  <1>2. q.pc \in {"book", "consume"}
    BY DEF Transferred, RequestStep, Look, Check, Start, Recheck, Open,
           SendAll, NoteFailed, Book, Consume
  <1>3. /\ q.grant = made /\ q.image = bin /\ q.booked = bin
        /\ grants[made].state = "open" /\ Valid(made, bin)
        /\ \A t \in Requests : t # r => requests[t].pc = "idle"
    BY <1>2 DEF Transferred, OnlyRequest, Valid, Granted, Newest
  <1> USE <1>1, <1>2, <1>3 DEF Step, storeVars, Request
  <1>4. CASE Book(r)
    <2>1. /\ requests' = [requests EXCEPT ![r].pc = "consume"]
          /\ UNCHANGED <<bin, made, grants>>
          /\ rows' = [rows EXCEPT ![bin] = "DOWNLOAD_COMPLETED"]
      BY <1>4, Offers DEF Book, Note, Builds
    <2>2. OnlyRequest(r)' /\ RowDone'
      BY <2>1 DEF OnlyRequest, RowDone
    <2>3. QED  BY <2>1, <2>2, <1>4 DEF Transferred, AnswerIs, Unanswered, Book
  <1>5. CASE Consume(r)
    <2>1. /\ requests' = [requests EXCEPT ![r].pc = "idle"]
          /\ UNCHANGED <<bin, made, rows>>
          /\ grants' = [grants EXCEPT ![made].state = "used"]
          /\ q.pc = "consume"
      BY <1>5 DEF Consume
    <2>2. OnlyRequest(r)' /\ RowDone'
      BY <2>1 DEF OnlyRequest, RowDone, Transferred
    <2>3. grants'[made'].state = "used"
      BY <2>1
    <2>4. QED  BY <2>1, <2>2, <2>3 DEF Transferred, AnswerIs, Unanswered
  <1>6. QED
    BY <1>4, <1>5
       DEF RequestStep, Look, Check, Start, Recheck, Open, SendAll, NoteFailed

\* An HTTPS thread, whichever it is.
LEMMA ServingKeepsClean ==
    ASSUME UpdateInv, StoreClean, Phases, UNCHANGED <<otaVars, connection>>,
           NEW r \in Requests, RequestStep(r)
    PROVE  StoreClean' /\ Phases'
  <1> USE DEF otaVars, otaRam, otaFlash, storeVars, tables
  <1>1. /\ requests[r].pc # "idle"
        /\ UNCHANGED <<storeVars, overdue, made, sender, checks, observed,
                       observing, confirming>>
    BY DEF RequestStep, Look, Check, Start, Recheck, Open, SendAll, NoteFailed,
           Book, Consume, RequestOnly
  <1>2. StoreClean'
    BY <1>1 DEF StoreClean, Newest
  <1>3. OffersStay /\ made \in 0..MaxGrants /\ faults' \in 0..MaxFaults
    <2>1. faults' = faults
      BY DEF RequestStep, Look, Check, Start, Recheck, Open, SendAll,
             NoteFailed, Book, Consume, RequestOnly
    <2>2. faults' \in 0..MaxFaults /\ made \in 0..MaxGrants
      BY <2>1 DEF UpdateInv, TypeOK, GrantsTypeOK
    <2>3. QED  BY <2>2, RequestSteps, ServerOf
  <1>4. Granted => Granted'
    BY <1>1, <1>3 DEF Granted, Dispatching, Newest, OffersStay
  <1>5. Noted' = Noted /\ NoF' = NoF /\ Unchecked' = Unchecked
    BY <1>1 DEF Noted, NoF, Announced, Unchecked
  <1>6. ~AllIdle
    BY <1>1 DEF AllIdle
  <1>7. Fetches \/ Ends
    BY <1>6 DEF Phases, Dispatches, Publishes, Delivers, Asks, Unasked
  <1>8. CASE Fetches
    <2>1. connection = r
      BY <1>1, <1>8 DEF Fetches, Answering, Transferred, OnlyRequest
    <2>2. (Answering(r)' \/ Transferred(r)') /\ AnswerIs(r)'
      BY <1>8, <2>1, AnsweringMoves, BookingMoves DEF Fetches
    <2>3. task.pc = "read" => requests'[r].answer \in {"ok", "all"}
      <3>1. task.pc = "read" =>
               requests[r].pc \notin Unanswered \/ requests[r].answer # "none"
        BY <1>8, <2>1 DEF Fetches, ReadsIt
      <3>2. task.pc = "read" => requests[r].pc \notin Unanswered
        BY <1>8, <2>1 DEF Fetches, ReadsIt, AnswerIs
      <3>3. requests[r].pc \notin Unanswered => requests'[r].pc \notin Unanswered
        <4>1. requests \in [Requests -> Request]
          BY DEF UpdateInv, TypeOK, GrantsTypeOK
        <4>2. QED
          BY <4>1
             DEF RequestStep, Look, Check, Start, Recheck, Open, SendAll, Step,
                 NoteFailed, Book, Consume, Unanswered, Request
      <3>4. QED  BY <2>2, <3>2, <3>3 DEF AnswerIs
    <2>4. ReadsIt'
      BY <1>1, <1>5, <1>8, <2>1, <2>3 DEF Fetches, ReadsIt, Downloads
    <2>5. Fetches'
      BY <1>1, <1>4, <1>5, <1>8, <2>1, <2>2, <2>4 DEF Fetches
    <2>6. QED  BY <1>2, <2>5 DEF Phases
  <1>9. CASE Ends
    <2>1. Transferred(r)
      BY <1>1, <1>9 DEF Ends, Transferred, OnlyRequest
    <2>2. Transferred(r)'
      BY <1>9, <2>1, BookingMoves DEF Ends
    <2>3. Told => Told'
      BY <1>1, <1>6 DEF Told, ConfirmedSoon
    <2>4. /\ VerifiesIt => VerifiesIt'
          /\ SucceedsIt => SucceedsIt'
          /\ RunsIt => RunsIt'
      BY <1>1, <1>5, <2>3 DEF VerifiesIt, SucceedsIt, RunsIt
    <2>5. Ends'
      BY <1>1, <1>4, <1>5, <1>9, <2>2, <2>4 DEF Ends, Downloads
    <2>6. QED  BY <1>2, <2>5 DEF Phases
  <1>10. QED  BY <1>7, <1>8, <1>9

-----------------------------------------------------------------------------
(* The network in it *)

\* A T behind what was sent.
LEMMA ToldStays ==
    ASSUME OtaTypeOK, UNCHANGED <<grantVars, bin>>,
           uplink' = uplink \/ uplink' = Append(uplink, 0)
    PROVE  /\ Told => Told'
           /\ Announced' => Announced
  <1>1. ConfirmedSoon' = ConfirmedSoon /\ made' = made
    BY DEF ConfirmedSoon, AllIdle, RowDone, grantVars, tables
  <1>2. CASE uplink' = uplink
    BY <1>1, <1>2 DEF Told, Announced
  <1>3. CASE uplink' = Append(uplink, 0)
    <2>1. /\ DOMAIN uplink = 1..Len(uplink) /\ Len(uplink) \in Nat
          /\ DOMAIN uplink' = 1..(Len(uplink) + 1)
          /\ \A i \in 1..Len(uplink) : uplink'[i] = uplink[i]
          /\ uplink'[Len(uplink) + 1] = 0
      BY <1>3, AppendIs, ChecksAre DEF OtaTypeOK
    <2>2. Told => Told'
      BY <1>1, <2>1 DEF Told
    <2>3. QED  BY <2>1, <2>2 DEF Announced
  <1>4. QED  BY <1>2, <1>3

\* The F of the grant behind what was sent.
LEMMA ToldNow ==
    ASSUME OtaTypeOK, NoF, made \in Checks, uplink' = Append(uplink, made),
           made' = made
    PROVE  Told'
  <1>1. /\ DOMAIN uplink = 1..Len(uplink) /\ Len(uplink) \in Nat
        /\ DOMAIN uplink' = 1..(Len(uplink) + 1)
        /\ \A i \in 1..Len(uplink) : uplink'[i] = uplink[i]
        /\ uplink'[Len(uplink) + 1] = made
    BY AppendIs, ChecksAre DEF OtaTypeOK
  <1>2. QED  BY <1>1 DEF Told, NoF, Announced

\* C reaches the device.
LEMMA DeliveryKeepsClean ==
    ASSUME UpdateInv, StoreClean, Phases, CheckDelivered
    PROVE  StoreClean' /\ Phases'
  <1> USE DEF otaVars, otaRam, otaFlash, storeVars, tables
  <1>1. /\ checks # <<>> /\ checks' = Tail(checks)
        /\ CheckArrives(Head(checks))
        /\ UNCHANGED <<storeVars, tables, sender, observed, observing, requests,
                       confirming, connection>>
    BY DEF CheckDelivered, CheckTaken, CheckVars, SameLinks
  <1>2. StoreClean'
    BY <1>1 DEF StoreClean, Newest
  <1>3. Delivers
    BY <1>1 DEF Phases, Dispatches, Publishes, Asks, Fetches, Ends, Noted
  <1>4. made \in Checks
    BY <1>3, ChecksAre DEF Delivers, Granted, UpdateInv, TypeOK, GrantsTypeOK, GrantIds
  <1>5. checks' = <<>> /\ CheckArrives(made)
    BY <1>1, <1>3 DEF Delivers
  <1>6. Granted' /\ Unasked'
    BY <1>1, <1>3 DEF Delivers, Granted, Dispatching, Newest, Unasked, AllIdle
  <1>7. checkTasks \in [Checks -> CheckPcs]
    BY DEF UpdateInv, TypeOK, OtaTypeOK
  <1>8. ChecksIt'
    BY <1>1, <1>3, <1>4, <1>5, <1>7
       DEF Delivers, Resting, Unchecked, ChecksIt, CheckArrives, CheckStep
  <1>9. NoF'
    BY <1>3, <1>5, EmptyIs DEF Delivers, Resting, NoF, Announced, CheckArrives
  <1>10. Asks'
    BY <1>1, <1>3, <1>5, <1>6, <1>8, <1>9
       DEF Delivers, Asks, Resting, CheckArrives
  <1>11. QED  BY <1>2, <1>10 DEF Phases

\* A frame arrives that is not the F of the grant, or it is and is accepted.
LEMMA FramesKeepClean ==
    ASSUME UpdateInv, StoreClean, Phases, FrameTaken,
           UNCHANGED <<storeVars, tables, sender, checks, observed, observing,
                       requests>>,
           \/ Head(uplink) = 0 /\ confirming' = confirming
           \/ Head(uplink) # 0 /\ OnCompletion(Head(uplink)) /\ Booked
    PROVE  StoreClean' /\ Phases'
  <1> USE DEF otaRam, otaFlash, storeVars, tables
  <1>1. uplink \in Seq(0..MaxChecks)
    BY DEF UpdateInv, TypeOK, OtaTypeOK
  <1>2. uplink # <<>> /\ uplink' = Tail(uplink)
        /\ UNCHANGED <<otaRam, otaFlash, connection>>
    BY DEF FrameTaken
  <1>3. /\ Announced' => Announced
        /\ Head(uplink) # 0 => Announced
    BY <1>1, <1>2, FrameGone
  <1>4. StoreClean'
    BY DEF StoreClean, Newest
  <1>5. /\ Granted' = Granted /\ AllIdle' = AllIdle /\ Unasked' = Unasked
        /\ Noted' = Noted
    BY DEF Granted, Dispatching, Newest, AllIdle, Unasked, Noted
  <1>6. \A r : Transferred(r)' = Transferred(r)
    BY DEF Transferred, OnlyRequest, RowDone
  <1>7. Answering(connection)' = Answering(connection)
        /\ AnswerIs(connection)' = AnswerIs(connection)
    BY <1>2 DEF Answering, AnswerIs, OnlyRequest
  <1>8. Asks \/ Fetches \/ Ends
    BY <1>2 DEF Phases, Dispatches, Publishes, Delivers, Resting
  <1>9. CASE Asks
    <2>1. ChecksIt' = ChecksIt /\ LoadsIt' = LoadsIt
      BY <1>2 DEF ChecksIt, LoadsIt, Unchecked
    <2>2. Asks'
      BY <1>2, <1>3, <1>5, <1>9, <2>1 DEF Asks, NoF
    <2>3. QED  BY <1>4, <2>2 DEF Phases
  <1>10. CASE Fetches
    <2>1. ReadsIt'
      BY <1>2, <1>3, <1>10
         DEF Fetches, ReadsIt, Downloads, Unchecked, NoF
    <2>2. Fetches'
      BY <1>2, <1>5, <1>6, <1>7, <1>10, <2>1 DEF Fetches
    <2>3. QED  BY <1>4, <2>2 DEF Phases
  <1>11. CASE Ends
    <2>1. /\ DOMAIN uplink = 1..Len(uplink) /\ Len(uplink) \in Nat \ {0}
          /\ Head(uplink) = uplink[1]
          /\ DOMAIN uplink' = 1..(Len(uplink) - 1)
          /\ \A i \in 1..(Len(uplink) - 1) : uplink'[i] = uplink[i + 1]
      BY <1>1, <1>2, TailIs
    <2>2. made # 0
      BY <1>11 DEF Ends, Granted
    <2>3. Told => Told'
      <3> SUFFICES ASSUME Told PROVE Told'
        OBVIOUS
      <3>1. \A i \in DOMAIN uplink' : uplink'[i] \in {0, made}
        BY <2>1 DEF Told
      <3>2. ConfirmedSoon => ConfirmedSoon'
        <4>1. confirming' = confirming \/ confirming = 0
          BY DEF OnCompletion
        <4>2. UNCHANGED <<rows, bin, made, grants>>
          OBVIOUS
        <4>3. QED  BY <1>5, <4>1, <4>2 DEF ConfirmedSoon, RowDone
      <3>3. CASE Head(uplink) = 0
        <4>1. ASSUME NEW i \in DOMAIN uplink, uplink[i] = made PROVE Told'
          <5>1. i - 1 \in DOMAIN uplink' /\ uplink'[i - 1] = made
            BY <2>1, <2>2, <3>3, <4>1
          <5>2. QED  BY <3>1, <5>1 DEF Told
        <4>2. QED  BY <3>1, <3>2, <4>1 DEF Told
      <3>4. CASE Head(uplink) # 0
        <4>1. Head(uplink) = made /\ OnCompletion(made) /\ Booked
          BY <2>1, <3>4 DEF Told
        <4>2. AllIdle /\ grants[made].state = "used" /\ RowDone
          BY <1>11, <4>1
             DEF Ends, Transferred, OnlyRequest, AllIdle, Booked
        <4>3. grants[made].offer.image = bin
          BY <1>11 DEF Ends, Granted, Newest
        <4>4. ConfirmedSoon'
          BY <1>5, <2>2, <4>1, <4>2, <4>3
             DEF ConfirmedSoon, OnCompletion, Completed, RowDone
        <4>5. QED  BY <3>1, <4>4 DEF Told
      <3>5. QED  BY <3>3, <3>4
    <2>4. /\ VerifiesIt => VerifiesIt'
          /\ SucceedsIt => SucceedsIt'
          /\ RunsIt => RunsIt'
      BY <1>2, <1>3, <2>3 DEF VerifiesIt, SucceedsIt, RunsIt, NoF
    <2>5. Ends'
      BY <1>2, <1>5, <1>6, <1>11, <2>4 DEF Ends, Downloads, Unchecked
    <2>6. QED  BY <1>4, <2>5 DEF Phases
  <1>12. QED  BY <1>8, <1>9, <1>10, <1>11

-----------------------------------------------------------------------------
(* The device's steps in it *)

\* ota_check_task, which accepts the CHECK.
LEMMA CheckingKeepsClean ==
    ASSUME UpdateInv, BaseInv, StoreClean, Phases, NEW c \in Checks,
           CheckTaskStep(c) \/ Authenticate(c, grants[c].offer.version),
           UNCHANGED <<storeVars, grantVars, connection>>
    PROVE  StoreClean' /\ Phases'
  <1> USE DEF otaVars, otaRam, otaFlash, storeVars, tables, grantVars, taskVars,
              monitorVars
  <1>1. checkTasks \in [Checks -> CheckPcs] /\ OtaTypeOK
    BY DEF UpdateInv, TypeOK, OtaTypeOK
  <1>2. checkTasks[c] # "none"
    BY DEF CheckTaskStep, StoreConfig, StoreGrant, Announce, RequestDownload,
           Authenticate
  <1>3. StoreClean'
    BY DEF StoreClean, Newest
  <1>4. ~Unchecked
    BY <1>2 DEF Unchecked
  <1>5. Asks /\ ChecksIt
    BY <1>4 DEF Phases, Dispatches, Publishes, Delivers, Asks, Fetches, Ends,
                Resting, ReadsIt, Downloads, LoadsIt
  <1>6. c = made /\ ~running
    BY <1>2, <1>5 DEF ChecksIt, BaseInv
  <1>7. Granted' /\ Unasked'
    BY <1>5 DEF Asks, Granted, Dispatching, Newest, Unasked, AllIdle
  <1>8. grants[made].offer.version > fw
    BY <1>5 DEF Asks, Granted, Newest
  <1>9. UNCHANGED <<task, seen, monitor, fw>>
    BY DEF CheckTaskStep, StoreConfig, StoreGrant, Announce, RequestDownload,
           Authenticate
  <1>10. NoF'
    <2>1. uplink' = uplink \/ uplink' = Append(uplink, 0)
      BY DEF CheckTaskStep, StoreConfig, StoreGrant, Announce, RequestDownload,
             Authenticate, SetStatus
    <2>2. Announced' => Announced
      BY <1>1, <2>1, ToldStays
    <2>3. QED  BY <1>5, <2>2 DEF Asks, NoF
  <1>11. ChecksIt' \/ LoadsIt'
    <2> USE <1>1, <1>5, <1>6, <1>9 DEF ChecksIt, CheckStep
    <2>1. CASE Authenticate(c, grants[c].offer.version)
      BY <1>8, <2>1 DEF Authenticate
    <2>2. CASE StoreConfig(c)
      BY <2>2 DEF StoreConfig
    <2>3. CASE StoreGrant(c)
      BY <2>3 DEF StoreGrant
    <2>4. CASE Announce(c)
      BY <2>4 DEF Announce
    <2>5. CASE RequestDownload(c)
      <3>1. Unchecked' /\ queue' = made /\ otaState' = "PENDING"
            /\ UNCHANGED <<config, activeGrant>>
        BY <2>5 DEF RequestDownload, Unchecked
      <3>2. QED  BY <2>5, <3>1 DEF RequestDownload, LoadsIt
    <2>6. QED  BY <2>1, <2>2, <2>3, <2>4, <2>5 DEF CheckTaskStep
  <1>12. Asks'
    BY <1>5, <1>7, <1>9, <1>10, <1>11 DEF Asks
  <1>13. QED  BY <1>3, <1>12 DEF Phases

\* ota_task, up to GET and from the end of the body.
LEMMA DownloadingKeepsClean ==
    ASSUME UpdateInv, StoreClean, Phases, DownloadStep,
           UNCHANGED <<storeVars, grantVars, connection>>
    PROVE  StoreClean' /\ Phases'
  <1> USE DEF otaVars, otaRam, otaFlash, storeVars, tables, grantVars, taskVars,
              monitorVars, checkVars, TaskOnly
  <1>1. task \in Task
    BY DEF UpdateInv, TypeOK, OtaTypeOK
  <1>2. StoreClean'
    BY DEF StoreClean, Newest
  <1>3. UNCHANGED <<checkTasks, config, activeGrant, seen, monitor, status, fw,
                    uplink>>
    BY DEF DownloadStep, TaskReceives, ConnectWifi, StartDownload, Verify,
           Install
  <1>4. /\ Granted' = Granted /\ Unasked' = Unasked /\ Noted' = Noted
        /\ NoF' = NoF /\ Unchecked' = Unchecked /\ Told' = Told
    <2>1. ConfirmedSoon' = ConfirmedSoon
      BY DEF ConfirmedSoon, AllIdle, RowDone
    <2>2. QED
      BY <1>3, <2>1 DEF Granted, Dispatching, Newest, Unasked, AllIdle, Noted,
                        NoF, Announced, Unchecked, Told
  <1>5. \A r : Transferred(r)' = Transferred(r)
    BY DEF Transferred, OnlyRequest, RowDone
  <1>6. CASE TaskReceives \/ ConnectWifi \/ StartDownload
    <2>1. Asks /\ LoadsIt
      BY <1>6 DEF TaskReceives, ConnectWifi, StartDownload, Phases, Dispatches,
                  Publishes, Delivers, Asks, Fetches, Ends, Resting, ChecksIt,
                  ReadsIt, VerifiesIt, SucceedsIt, RunsIt, Downloads
    <2>2. made # 0
      BY <2>1 DEF Asks, Granted
    <2>3. LoadsIt'
      <3>1. CASE TaskReceives
        BY <1>3, <1>4, <2>1, <2>2, <3>1
           DEF TaskReceives, LoadedConfig, LoadsIt, IdleTask
      <3>2. CASE ConnectWifi \/ StartDownload
        BY <1>1, <1>3, <1>4, <2>1, <2>2, <3>2
           DEF ConnectWifi, StartDownload, LoadsIt, Task
      <3>3. QED  BY <1>6, <3>1, <3>2
    <2>4. Asks'
      BY <1>3, <1>4, <2>1, <2>3 DEF Asks
    <2>5. QED  BY <1>2, <2>4 DEF Phases
  <1>7. CASE Verify \/ Install
    <2>1. Ends /\ VerifiesIt
      BY <1>7 DEF Verify, Install, Phases, Dispatches, Publishes, Delivers,
                  Asks, Fetches, Ends, Resting, ChecksIt, LoadsIt, ReadsIt,
                  SucceedsIt, RunsIt
    <2>2. task.error = "OK"
      BY <2>1 DEF VerifiesIt, UpdateInv, DownloadInv
    <2>3. VerifiesIt' \/ SucceedsIt'
      <3>1. CASE Verify
        BY <1>1, <1>3, <1>4, <2>1, <2>2, <3>1
           DEF Verify, VerifiesIt, SucceedsIt, Task
      <3>2. CASE Install
        BY <1>1, <1>3, <1>4, <2>1, <2>2, <3>2
           DEF Install, VerifiesIt, SucceedsIt, Task
      <3>3. QED  BY <1>7, <3>1, <3>2
    <2>4. Downloads'
      BY <1>4, <1>7, <2>1 DEF Ends, Downloads, Verify, Install
    <2>5. Ends'
      BY <1>3, <1>4, <1>5, <2>1, <2>3, <2>4 DEF Ends
    <2>6. QED  BY <1>2, <2>5 DEF Phases
  <1>8. QED  BY <1>6, <1>7 DEF DownloadStep

\* The end of ota_task, the monitor and the restart.
LEMMA ReportingKeepsClean ==
    ASSUME UpdateInv, StoreClean, Phases, Cleanup \/ MonitorStep \/ EspRestart,
           UNCHANGED <<storeVars, grantVars>>,
           connection' # connection => connection' = NoThread /\ EspRestart
    PROVE  StoreClean' /\ Phases'
  <1> USE DEF otaVars, otaRam, otaFlash, storeVars, tables, grantVars, taskVars,
              monitorVars, checkVars
  <1>1. task \in Task /\ OtaTypeOK /\ made \in 0..MaxGrants
    BY DEF UpdateInv, TypeOK, OtaTypeOK, GrantsTypeOK
  <1>2. StoreClean'
    BY DEF StoreClean, Newest
  <1>3. Granted' = Granted /\ Unasked' = Unasked /\ Noted' = Noted
    BY DEF Granted, Dispatching, Newest, Unasked, AllIdle, Noted
  <1>4. \A r : Transferred(r)' = Transferred(r)
    BY DEF Transferred, OnlyRequest, RowDone
  <1>5. uplink' = uplink \/ uplink' = Append(uplink, 0)
            => (NoF => NoF') /\ (Told => Told')
    BY <1>1, ToldStays DEF NoF
  <1>6. CASE Cleanup
    <2>1. Ends /\ SucceedsIt
      BY <1>6 DEF Cleanup, Phases, Dispatches, Publishes, Delivers, Asks,
                  Fetches, Ends, Resting, ChecksIt, LoadsIt, ReadsIt,
                  VerifiesIt, RunsIt
    <2>2. /\ UNCHANGED <<otaState, checkTasks, queue, seen, monitor, status,
                         activeGrant, fw, boot, uplink>>
          /\ task' = IdleTask /\ task.pc = "cleanup"
      BY <1>6, <2>1 DEF Cleanup, SucceedsIt
    <2>3. SucceedsIt' /\ Downloads'
      BY <1>5, <2>1, <2>2
         DEF SucceedsIt, IdleTask, Ends, Downloads, Unchecked
    <2>4. Ends'
      BY <1>3, <1>4, <1>6, <2>1, <2>3 DEF Ends, Cleanup, EspRestart
    <2>5. QED  BY <1>2, <2>4 DEF Phases
  <1>7. CASE MonitorSees
    <2>1. /\ otaState # seen /\ seen' = otaState /\ monitor = "idle"
          /\ monitor' = IF otaState = "SUCCESS" THEN "report" ELSE "idle"
          /\ UNCHANGED <<otaState, checkTasks, queue, task, config, activeGrant,
                         fw, boot>>
      BY <1>7 DEF MonitorSees
    <2>2. /\ uplink' = uplink \/ uplink' = Append(uplink, 0)
          /\ otaState = "SUCCESS" => status' = "FW_UPDATE_COMPLETE"
      BY <1>7 DEF MonitorSees, SetStatus, StatusOf
    <2>3. connection' = connection
      BY <1>7, <2>1 DEF EspRestart, Boot, IdleTask
    <2>4. CASE Asks
      <3>1. LoadsIt /\ otaState # "SUCCESS"
        BY <2>1, <2>4 DEF Asks, ChecksIt, LoadsIt
      <3>2. LoadsIt'
        BY <2>1, <3>1 DEF LoadsIt, Unchecked
      <3>3. Asks'
        BY <1>3, <1>5, <2>1, <2>2, <2>3, <2>4, <3>1, <3>2 DEF Asks
      <3>4. QED  BY <1>2, <3>3 DEF Phases
    <2>5. CASE Ends
      <3>1. VerifiesIt' \/ SucceedsIt'
        BY <1>5, <2>1, <2>2, <2>5
           DEF Ends, VerifiesIt, SucceedsIt, RunsIt
      <3>2. Ends'
        BY <1>3, <1>4, <2>1, <2>3, <2>5, <3>1 DEF Ends, Downloads, Unchecked
      <3>3. QED  BY <1>2, <3>2 DEF Phases
    <2>6. QED
      BY <2>1, <2>4, <2>5 DEF Phases, Dispatches, Publishes, Delivers, Fetches,
                              Resting, ReadsIt
  <1>8. CASE MonitorReports \/ MonitorClears
    <2>1. /\ UNCHANGED <<otaState, checkTasks, queue, task, seen, status, fw,
                         boot>>
          /\ monitor \in {"report", "clear"} /\ connection' = connection
      BY <1>8 DEF MonitorReports, MonitorClears, EspRestart, Boot
    <2>2. Ends /\ SucceedsIt
      BY <2>1 DEF Phases, Dispatches, Publishes, Delivers, Asks, Fetches, Ends,
                  Resting, ReadsIt, VerifiesIt, RunsIt
    <2>3. made \in Checks
      BY <1>1, <2>2, ChecksAre DEF Ends, Granted, GrantIds
    <2>4. SucceedsIt'
      <3>1. CASE MonitorReports
        <4>1. NoF /\ activeGrant = made /\ seen = "SUCCESS"
              /\ status = "FW_UPDATE_COMPLETE"
          BY <2>2, <3>1 DEF SucceedsIt, MonitorReports
        <4>2. monitor' = "clear" /\ uplink' = Append(uplink, made)
          BY <2>2, <3>1, <4>1 DEF MonitorReports, Ends, Granted
        <4>3. Told'
          BY <1>1, <2>3, <4>1, <4>2, ToldNow
        <4>4. QED  BY <2>1, <2>2, <4>1, <4>2, <4>3 DEF SucceedsIt
      <3>2. CASE MonitorClears
        BY <1>5, <2>1, <2>2, <3>2 DEF SucceedsIt, MonitorClears
      <3>3. QED  BY <1>8, <3>1, <3>2
    <2>5. Ends'
      BY <1>3, <1>4, <2>1, <2>2, <2>4 DEF Ends, Downloads, Unchecked
    <2>6. QED  BY <1>2, <2>5 DEF Phases
  <1>9. CASE EspRestart
    <2>1. Ends /\ SucceedsIt
      BY <1>9 DEF EspRestart, Phases, Dispatches, Publishes, Delivers, Asks,
                  Fetches, Ends, Resting, ChecksIt, LoadsIt, ReadsIt,
                  VerifiesIt, RunsIt
    <2>2. ~DryRun /\ boot = bin /\ Told
      BY <1>9, <2>1 DEF EspRestart, SucceedsIt
    <2>3. /\ fw' = boot /\ task'.pc = "idle" /\ otaState' = "IDLE"
          /\ seen' = "IDLE" /\ monitor' = "idle" /\ Downloads'
          /\ uplink' = Append(uplink, 0)
      BY <1>9 DEF EspRestart, Boot, IdleTask, Downloads, Unchecked
    <2>4. RunsIt'
      BY <1>5, <2>2, <2>3 DEF RunsIt
    <2>5. Ends'
      BY <1>3, <1>4, <2>1, <2>3, <2>4 DEF Ends
    <2>6. QED  BY <1>2, <2>5 DEF Phases
  <1>10. QED  BY <1>6, <1>7, <1>8, <1>9 DEF MonitorStep

\* The GET and what the device sees of its answer.
LEMMA AskingKeepsClean ==
    ASSUME UpdateInv, StoreClean, Phases, NEW r \in Requests,
           SendGet, Get(r, task.check), connection' = r,
           Prompt, observed = <<>>, observing = 0
    PROVE  StoreClean' /\ Phases'
  <1> USE DEF otaVars, otaRam, otaFlash, storeVars, tables, taskVars,
              monitorVars, checkVars, TaskOnly, RequestOnly
  <1>1. task \in Task /\ requests \in [Requests -> Request]
    BY DEF UpdateInv, TypeOK, OtaTypeOK, GrantsTypeOK
  <1>2. StoreClean'
    BY DEF StoreClean, Newest, Get
  <1>3. Asks /\ LoadsIt /\ task.pc = "get"
    BY DEF SendGet, Phases, Dispatches, Publishes, Delivers, Asks, Fetches,
           Ends, Resting, ChecksIt, ReadsIt, VerifiesIt, SucceedsIt, RunsIt
  <1>4. /\ task.check = made /\ otaState = "DOWNLOADING" /\ queue = 0
        /\ activeGrant = made /\ Unchecked /\ seen = "DOWNLOADING"
    BY <1>3 DEF LoadsIt, Prompt
  <1>5. /\ task' = [task EXCEPT !.pc = "headers"]
        /\ requests' = [requests EXCEPT ![r] =
                            [NoRequest EXCEPT !.pc = "look", !.grant = made]]
        /\ UNCHANGED <<checkTasks, config, activeGrant, queue, otaState, seen,
                       monitor, status, fw, boot, uplink, bin, made, grants,
                       overdue, sender, scanning, checks, observed, observing>>
    BY <1>4 DEF SendGet, Get, Step
  <1>6. ReadsIt'
    BY <1>1, <1>3, <1>4, <1>5
       DEF Asks, ReadsIt, Downloads, Unchecked, NoF, Announced, Task
  <1>7. /\ requests'[r].pc = "look" /\ requests'[r].grant = made
        /\ requests'[r].answer = "none"
        /\ \A t \in Requests : t # r => requests'[t] = requests[t]
    BY <1>1, <1>5 DEF NoRequest
  <1>8. Answering(r)' /\ AnswerIs(r)'
    BY <1>3, <1>5, <1>7
       DEF Asks, Unasked, AllIdle, Answering, AnswerIs, OnlyRequest, Unanswered
  <1>9. Granted' /\ Noted' /\ sender'.pc = "idle"
    BY <1>3, <1>5 DEF Asks, Granted, Dispatching, Newest, Noted
  <1>10. Fetches'
    BY <1>6, <1>8, <1>9 DEF Fetches
  <1>11. QED  BY <1>2, <1>10 DEF Phases

\* What the device sees of the answer: it is never refused.
LEMMA AnswersKeepClean ==
    ASSUME UpdateInv, StoreClean, Phases, NEW r \in Requests,
           Refused(r) \/ Accepted(r) \/ Received(r)
    PROVE  StoreClean' /\ Phases'
  <1> USE DEF otaVars, otaRam, otaFlash, storeVars, tables, grantVars, taskVars,
              monitorVars, checkVars, TaskOnly
  <1>1. task \in Task /\ r # NoThread
    BY UpdateAssumption DEF UpdateInv, TypeOK, OtaTypeOK
  <1>2. connection = r /\ UNCHANGED <<storeVars, grantVars>>
    BY DEF Refused, Accepted, Received, Answered, Disconnects, DeviceOnly
  <1>3. StoreClean'
    BY <1>2 DEF StoreClean, Newest
  <1>4. Fetches
    BY <1>1, <1>2 DEF Phases, Dispatches, Publishes, Delivers, Asks, Ends,
                      Resting
  <1>5. /\ AnswerIs(r) /\ (Answering(r) \/ Transferred(r)) /\ ReadsIt
        /\ Granted' = Granted /\ Noted' = Noted
    BY <1>2, <1>4 DEF Fetches, Granted, Dispatching, Newest, Noted
  <1>6. /\ Transferred(r)' = Transferred(r) /\ Answering(r)' = Answering(r)
        /\ AnswerIs(r)' = AnswerIs(r)
    BY <1>2 DEF Transferred, OnlyRequest, RowDone, Answering, AnswerIs
  <1>7. requests[r].answer \notin {"refused", "broken"}
    BY <1>5 DEF AnswerIs
  <1>8. requests[r].answer \in {"ok", "all"} =>
           requests[r].body = bin /\ requests[r].image = bin
    BY <1>5 DEF AnswerIs
  <1>9. ~Refused(r)
    BY <1>7 DEF Refused, Answered
  <1>10. CASE Accepted(r)
    <2>1. /\ requests[r].answer \in {"ok", "all"}
          /\ ReadHeaders(bin, bin)
          /\ connection' = IF task'.pc = "read" THEN r ELSE NoThread
      BY <1>8, <1>10 DEF Accepted, Answered
    <2>2. bin # fw
      <3>1. fw \in 1..MaxContent /\ bin \in Builds
        BY DEF UpdateInv, TypeOK, OtaTypeOK, GrantsTypeOK, StoreTypeOK
      <3>2. fw \in Int /\ bin \in Int
        BY <3>1 DEF Builds
      <3>3. QED  BY <1>5, <3>2 DEF ReadsIt
    <2>3. /\ task' = [task EXCEPT !.pc = "read", !.sha256 = bin, !.body = bin]
          /\ UNCHANGED <<checkTasks, config, activeGrant, queue, otaState, seen,
                         monitor, status, fw, boot, uplink>>
      BY <2>1, <2>2 DEF ReadHeaders
    <2>4. /\ connection' = r /\ task'.pc = "read" /\ task'.sha256 = bin
          /\ task'.body = bin
      BY <1>1, <2>1, <2>3 DEF Task
    <2>5. ReadsIt'
      BY <1>2, <1>5, <2>1, <2>3, <2>4
         DEF ReadsIt, Downloads, Unchecked, NoF, Announced
    <2>6. Fetches'
      BY <1>2, <1>4, <1>5, <1>6, <2>4, <2>5 DEF Fetches
    <2>7. QED  BY <1>3, <2>6 DEF Phases
  <1>11. CASE Received(r)
    <2>1. requests[r].answer = "all" /\ ReadEnds /\ connection' = NoThread
      BY <1>7, <1>11 DEF Received, Answered, Disconnects
    <2>2. Transferred(r)
      BY <1>5, <2>1 DEF AnswerIs, Answering
    <2>3. /\ task' = [task EXCEPT !.pc = "verify"] /\ otaState' = "VERIFYING"
          /\ task.pc = "read"
          /\ UNCHANGED <<checkTasks, config, activeGrant, queue, seen,
                         monitor, status, fw, boot, uplink>>
      BY <2>1 DEF ReadEnds
    <2>4. VerifiesIt' /\ Downloads'
      BY <1>1, <1>2, <1>5, <2>3
         DEF ReadsIt, VerifiesIt, Downloads, Unchecked, NoF, Announced, Task
    <2>5. Ends'
      BY <1>2, <1>4, <1>5, <1>6, <2>1, <2>2, <2>4 DEF Fetches, Ends
    <2>6. QED  BY <1>3, <2>5 DEF Phases
  <1>12. QED  BY <1>9, <1>10, <1>11

-----------------------------------------------------------------------------
(* What the phases need of the updates before *)

\* A grant expires after it is made (download_grants.expires_at).
LEMMA GrantsGrow ==
    ASSUME UpdateInv, BaseInv, [Next]_vars
    PROVE  overdue' \subseteq 1..made'
  <1>1. /\ overdue \subseteq 1..made /\ made \in 0..MaxGrants /\ MaxGrants \in Nat
        /\ overdue \subseteq GrantIds
        /\ \A g \in GrantIds : grants[g].state = "none" <=> g > made
    BY GrantsAssumption
       DEF BaseInv, UpdateInv, DispatchInv, TypeOK, GrantsTypeOK
  <1>2. CASE UNCHANGED <<made, overdue>>
    BY <1>1, <1>2
  <1>3. CASE Sending
    <2>1. UNCHANGED overdue /\ (made' = made \/ made' = made + 1)
      BY <1>3
         DEF Sending, SendLooks, SendFindsVersion, SendGrants, SendPublishes,
             SendOnly, tables
    <2>2. 1..made \subseteq 1..made'
      BY <1>1, <2>1
    <2>3. QED  BY <1>1, <2>1, <2>2
  <1>4. ASSUME NEW g \in GrantIds, Expiring(g) PROVE overdue' \subseteq 1..made'
    <2>1. overdue' = overdue \cup {g} /\ made' = made /\ grants[g].state = "open"
      BY <1>4 DEF Expiring, Expires
    <2>2. g \in 1..made
      BY <1>1, <2>1 DEF GrantIds
    <2>3. QED  BY <1>1, <2>1, <2>2
  <1>5. CASE System
    <2>1. CASE Sending
      BY <1>3, <2>1
    <2>2. CASE ~Sending
      <3>1. CASE \/ Publishing \/ Observing \/ Confirming
                 \/ \E s \in Scanners : Scanning(s)
        BY <1>2, <3>1
           DEF Publishing, Observing, Confirming, Scanning, ObserverLooks,
               ObserverNotes, NoteConfirmed, grantVars, tables
      <3>2. ASSUME NEW r \in Requests, Serving(r)
            PROVE  overdue' \subseteq 1..made'
        BY <1>2, <3>2
           DEF Serving, RequestStep, Look, Check, Start, Recheck, Open, SendAll,
               NoteFailed, Book, Consume, RequestOnly, tables
      <3>3. ASSUME NEW r \in Requests,
                   Breaking(r) \/ Requesting(r) \/ Refused(r) \/ Accepted(r)
                     \/ Received(r)
            PROVE  overdue' \subseteq 1..made'
        BY <1>2, <3>3
           DEF Breaking, SendBreaks, Requesting, Get, RequestOnly, Refused,
               Accepted, Received, Disconnects, DeviceOnly, grantVars, tables
      <3>4. CASE \/ CheckDelivered \/ StatusArrives \/ CompletionArrives
                 \/ \E c \in Checks : CheckTask(c)
                 \/ Downloading \/ CleaningUp \/ Monitoring \/ Rebooting
        BY <1>2, <3>4
           DEF CheckDelivered, CheckVars, StatusArrives, CompletionArrives,
               OnCompletion, CheckTask, Downloading, CleaningUp, Monitoring,
               Rebooting, Disconnects, DeviceOnly, grantVars, tables
      <3>5. QED  BY <1>5, <2>2, <3>1, <3>2, <3>3, <3>4 DEF System
    <2>3. QED  BY <2>1, <2>2
  <1>6. CASE Environment
    BY <1>2, <1>6
       DEF Environment, User, OpenPage, CachedCompletionArrives, OnCompletion,
           Publisher, grantVars, tables
  <1>7. CASE Failures
    <2>1. CASE \E g \in GrantIds : Expiring(g)
      BY <1>4, <2>1
    <2>2. CASE \/ Failing \/ Restarting \/ CheckLost \/ FrameLost
               \/ ConnectionDies \/ Unlucky \/ Crashing
      BY <1>2, <2>2
         DEF Failing, SendFails, Restarting, Restart, CheckLost, CheckVars,
             FrameLost, ConnectionDies, Unlucky, Crashing, Disconnects,
             DeviceOnly, grantVars, tables
    <2>3. CASE \/ \E r \in Requests : Dying(r)
               \/ \E g \in GrantIds : CheckRepeated(g)
               \/ \E target \in {"firmware", "esp", "images"} :
                     Maintaining(target)
               \/ \E c \in Checks : CheckTaskFails(c)
      BY <1>2, <2>3
         DEF Dying, RequestDies, CheckRepeated, Maintaining, Clear,
             CheckTaskFails, DeviceOnly, grantVars, tables
    <2>4. QED  BY <1>7, <2>1, <2>2, <2>3 DEF Failures
  <1>8. CASE UNCHANGED vars
    BY <1>2, <1>8 DEF vars, grantVars, tables
  <1>9. QED  BY <1>5, <1>6, <1>7, <1>8 DEF Next

\* s_running is true while ota_task works (ota_service.c).
LEMMA RunningIsTask ==
    ASSUME UpdateInv, BaseInv, [Next]_vars
    PROVE  running' <=> task'.pc # "idle"
  <1> USE DEF otaVars, otaRam, otaFlash, taskVars, monitorVars, checkVars
  <1>0. /\ running <=> task.pc # "idle"
        /\ task \in Task
    BY DEF BaseInv, UpdateInv, TypeOK, OtaTypeOK
  <1>1. CASE UNCHANGED <<running, task>>
    BY <1>0, <1>1
  <1>2. CASE Boot
    BY <1>2 DEF Boot, IdleTask
  <1>3. CASE Cleanup
    BY <1>3 DEF Cleanup, IdleTask
  <1>4. CASE DownloadStep
    BY <1>0, <1>4
       DEF DownloadStep, TaskReceives, ConnectWifi, StartDownload, Verify,
           Install, TaskOnly, Task, IdleTask
  <1>5. CASE TaskFails \/ SendGet \/ GetRefused \/ ReadEnds
    BY <1>0, <1>5 DEF TaskFails, SendGet, GetRefused, ReadEnds, TaskOnly, Task
  <1>6. ASSUME NEW sha256, NEW body, ReadHeaders(sha256, body)
        PROVE  running' <=> task'.pc # "idle"
    BY <1>0, <1>6 DEF ReadHeaders, TaskOnly, Task
  <1>7. ASSUME NEW c \in Checks,
               \/ CheckTaskStep(c) \/ CheckFails(c) \/ CheckArrives(c)
               \/ Authenticate(c, grants[c].offer.version)
        PROVE  UNCHANGED <<running, task>>
    BY <1>7
       DEF CheckTaskStep, StoreConfig, StoreGrant, Announce, RequestDownload,
           CheckFails, CheckArrives, Authenticate
  <1>8. CASE System
    <2>1. CASE \/ Publishing \/ Sending \/ Observing \/ Confirming
               \/ \E s \in Scanners : Scanning(s)
               \/ \E r \in Requests : Serving(r) \/ Breaking(r)
      BY <1>1, <2>1
         DEF Publishing, Sending, Observing, Confirming, Scanning, Serving,
             Breaking, ServerOnly
    <2>2. CASE \E r \in Requests : Requesting(r) \/ Refused(r) \/ Accepted(r)
                                     \/ Received(r)
      BY <1>5, <1>6, <2>2 DEF Requesting, Refused, Accepted, Received
    <2>3. CASE CheckDelivered
      <3>1. checks \in Seq(GrantIds) /\ checks # <<>>
        BY <2>3 DEF CheckDelivered, CheckTaken, UpdateInv, TypeOK, GrantsTypeOK
      <3>2. Head(checks) \in Checks
        BY <3>1, TailIs, ChecksAre DEF Checks
      <3>3. QED  BY <1>1, <1>7, <2>3, <3>2 DEF CheckDelivered
    <2>4. CASE \/ StatusArrives \/ CompletionArrives \/ Monitoring
      BY <1>1, <2>4
         DEF StatusArrives, CompletionArrives, FrameTaken, Monitoring,
             MonitorStep, MonitorSees, MonitorReports, MonitorClears
    <2>5. CASE \E c \in Checks : CheckTask(c)
      BY <1>1, <1>7, <2>5 DEF CheckTask
    <2>6. CASE Downloading \/ CleaningUp \/ Rebooting
      BY <1>2, <1>3, <1>4, <2>6
         DEF Downloading, CleaningUp, Rebooting, EspRestart
    <2>7. QED
      BY <1>8, <2>1, <2>2, <2>3, <2>4, <2>5, <2>6 DEF System
  <1>9. CASE Environment
    BY <1>1, <1>9
       DEF Environment, User, OpenPage, CachedCompletionArrives, Publisher,
           ServerOnly
  <1>10. CASE Failures
    <2>1. CASE \/ Failing \/ Restarting \/ CheckLost \/ FrameLost
               \/ ConnectionDies \/ \E r \in Requests : Dying(r)
               \/ \E g \in GrantIds : Expiring(g)
               \/ \E target \in {"firmware", "esp", "images"} :
                     Maintaining(target)
      BY <1>1, <2>1
         DEF Failing, Restarting, CheckLost, FrameLost, FrameTaken,
             ConnectionDies, Dying, Expiring, Maintaining, ServerOnly
    <2>2. CASE \/ \E c \in Checks : CheckTaskFails(c)
               \/ \E g \in GrantIds : CheckRepeated(g)
      BY <1>1, <1>7, <2>2, ChecksAre
         DEF CheckTaskFails, CheckRepeated, GrantIds, Checks
    <2>3. CASE Unlucky \/ Crashing
      BY <1>2, <1>5, <2>3 DEF Unlucky, Crashing
    <2>4. QED  BY <1>10, <2>1, <2>2, <2>3 DEF Failures
  <1>11. CASE UNCHANGED vars
    BY <1>1, <1>11 DEF vars
  <1>12. QED  BY <1>8, <1>9, <1>10, <1>11 DEF Next

LEMMA BaseKept ==
    ASSUME UpdateInv, BaseInv, [Next]_vars
    PROVE  BaseInv'
  BY GrantsGrow, RunningIsTask DEF BaseInv

-----------------------------------------------------------------------------
(* It starts with the user, and ends with the table *)

\* The dispatch of a newer build, with everything at rest.
LEMMA UserStarts ==
    ASSUME UpdateInv, User, clean'
    PROVE  StoreClean' /\ Phases'
  <1> USE DEF otaVars, otaRam, otaFlash, tables, grantVars
  <1>1. /\ AtRest /\ scanning["page"].pc = "idle" /\ bin = release /\ bin > fw
        /\ UNCHANGED <<grantVars, otaVars, connection, bin, release, publishing>>
        /\ scanning' = [scanning EXCEPT !["send"] =
               [pc |-> "read", found |-> [image |-> bin, version |-> 0]]]
    BY DEF User, ScanHashes
  <1>2. /\ scanning \in [Scanners -> [pc : {"idle", "read", "list", "listed"},
                                      found : Offer]]
        /\ fw \in 1..MaxContent /\ bin \in Builds
    BY DEF UpdateInv, TypeOK, OtaTypeOK, GrantsTypeOK, StoreTypeOK
  <1>3. /\ scanning'["send"].pc = "read" /\ scanning'["send"].found.image = bin
        /\ scanning'["page"] = scanning["page"]
    BY <1>1, <1>2 DEF Scanners
  <1>4. StoreClean'
    BY <1>1, <1>3 DEF StoreClean, AtRest, Scanners
  <1>5. fw < bin
    BY <1>1, <1>2 DEF Builds
  <1>6. connection = NoThread
    BY <1>1 DEF UpdateInv, DownloadInv, AtRest
  <1>7. Dispatches'
    BY <1>1, <1>3, <1>5, <1>6
       DEF Dispatches, Dispatching, Noted, AllIdle, Resting, Unchecked, AtRest
  <1>8. QED  BY <1>4, <1>7 DEF Phases

\* A thread whose transfer breaks is the one that the device reads from.
LEMMA BreakingIsFault ==
    ASSUME UpdateInv, Phases, NEW r \in Requests, SendBreaks(r)
    PROVE  connection = r
  <1>1. requests[r].pc = "sending"
    BY DEF SendBreaks
  <1>2. Fetches
    BY <1>1 DEF Phases, Dispatches, Publishes, Delivers, Asks, Unasked, AllIdle,
                Ends, Transferred, OnlyRequest
  <1>3. QED
    BY <1>1, <1>2 DEF Fetches, Answering, Transferred, OnlyRequest

\* Every failure costs a fault, and so ends the undisturbed update.
LEMMA FaultIsSeen ==
    ASSUME UpdateInv, NEW kind, Fault(kind)
    PROVE  faults' # faults
  BY DEF Fault, UpdateInv, TypeOK, GrantsTypeOK

LEMMA FailuresDisturb ==
    ASSUME UpdateInv, Failures
    PROVE  ~clean'
  <1>1. /\ \E kind \in AllFaultKinds : Fault(kind)
        /\ clean' = (clean /\ faults' = faults)
    BY DEF Failures, Failing, SendFails, Restarting, CheckLost, FrameLost,
           ConnectionDies, Dying, RequestDies, Expiring, CheckRepeated,
           Maintaining, CheckTaskFails, Unlucky, Crashing, ServerOnly,
           DeviceOnly, Disconnects, KeepsHistory, AllFaultKinds
  <1>2. QED  BY <1>1, FaultIsSeen

\* The server's own steps, and the answers to the device.
LEMMA ServerKeepsClean ==
    ASSUME UpdateInv, BaseInv, StoreClean, Phases, clean',
           \/ Publishing \/ Sending \/ Observing \/ Confirming
           \/ \E s \in Scanners : Scanning(s)
           \/ \E r \in Requests : Serving(r) \/ Breaking(r) \/ Requesting(r)
                                    \/ Refused(r) \/ Accepted(r) \/ Received(r)
    PROVE  StoreClean' /\ Phases'
  <1>1. CASE Publishing
    BY <1>1 DEF Publishing, PublishStep, PublishBin, PublishRelease, StoreClean
  <1>2. CASE Sending
    BY <1>2, SendingKeepsClean DEF Sending, ServerOnly
  <1>3. CASE Observing
    BY <1>3, ObservingKeepsClean DEF Observing, ServerOnly
  <1>4. CASE Confirming
    BY <1>4, ConfirmingKeepsClean DEF Confirming, ServerOnly
  <1>5. ASSUME NEW s \in Scanners, Scanning(s) PROVE StoreClean' /\ Phases'
    BY <1>5, ScansKeepClean DEF Scanning, ServerOnly
  <1>6. ASSUME NEW r \in Requests, Serving(r) PROVE StoreClean' /\ Phases'
    BY <1>6, ServingKeepsClean DEF Serving, ServerOnly
  <1>7. ASSUME NEW r \in Requests, Breaking(r) PROVE FALSE
    <2>1. Fault("network")
      BY <1>7, BreakingIsFault DEF Breaking
    <2>2. faults' = faults
      BY <1>7 DEF Breaking, ServerOnly, KeepsHistory
    <2>3. QED  BY <2>1, <2>2, FaultIsSeen
  <1>8. ASSUME NEW r \in Requests, Requesting(r) PROVE StoreClean' /\ Phases'
    <2>1. faults' = faults
      BY <1>8 DEF Requesting, KeepsHistory
    <2>2. Prompt /\ observed = <<>> /\ observing = 0
      BY <1>8, <2>1, FaultIsSeen DEF Requesting
    <2>3. QED  BY <1>8, <2>2, AskingKeepsClean DEF Requesting
  <1>9. ASSUME NEW r \in Requests, Refused(r) \/ Accepted(r) \/ Received(r)
        PROVE  StoreClean' /\ Phases'
    BY <1>9, AnswersKeepClean
  <1>10. QED
    BY <1>1, <1>2, <1>3, <1>4, <1>5, <1>6, <1>7, <1>8, <1>9

\* The network's, and the device's.
LEMMA DeviceKeepsClean ==
    ASSUME UpdateInv, BaseInv, StoreClean, Phases, clean',
           \/ CheckDelivered \/ StatusArrives \/ CompletionArrives
           \/ \E c \in Checks : CheckTask(c)
           \/ Downloading \/ CleaningUp \/ Monitoring \/ Rebooting
    PROVE  StoreClean' /\ Phases'
  <1>1. CASE CheckDelivered
    BY <1>1, DeliveryKeepsClean
  <1>2. CASE StatusArrives
    BY <1>2, FramesKeepClean DEF StatusArrives, grantVars
  <1>3. CASE CompletionArrives
    <2>1. Booked
      BY <1>3, FaultIsSeen DEF CompletionArrives, KeepsHistory
    <2>2. QED
      BY <1>3, <2>1, FramesKeepClean DEF CompletionArrives, OnCompletion
  <1>4. ASSUME NEW c \in Checks, CheckTask(c) PROVE StoreClean' /\ Phases'
    BY <1>4, CheckingKeepsClean DEF CheckTask, SameLinks, DeviceOnly
  <1>5. CASE Downloading
    BY <1>5, DownloadingKeepsClean DEF Downloading, SameLinks
  <1>6. CASE CleaningUp \/ Monitoring \/ Rebooting
    <2>1. /\ Cleanup \/ MonitorStep \/ EspRestart
          /\ UNCHANGED <<storeVars, grantVars>>
      BY <1>6 DEF CleaningUp, Monitoring, Rebooting, Disconnects, DeviceOnly
    <2>2. connection' # connection => connection' = NoThread /\ EspRestart
      <3>1. CASE CleaningUp \/ Monitoring
        BY <3>1 DEF CleaningUp, Monitoring, SameLinks
      <3>2. CASE Rebooting
        BY <3>2 DEF Rebooting, Disconnects
      <3>3. QED  BY <1>6, <3>1, <3>2
    <2>3. QED  BY <2>1, <2>2, ReportingKeepsClean
  <1>7. QED  BY <1>1, <1>2, <1>3, <1>4, <1>5, <1>6

\* Every step keeps the phases.
LEMMA CleanKept ==
    ASSUME UpdateInv, BaseInv, CleanInv, [Next]_vars
    PROVE  CleanInv'
  <1> SUFFICES ASSUME clean' PROVE StoreClean' /\ Phases'
    BY DEF CleanInv
  <1>1. CASE User
    BY <1>1, UserStarts
  <1>2. CASE Failures
    BY <1>2, FailuresDisturb
  <1>3. CASE \E b \in Builds : Publisher(b)
    BY <1>3 DEF Publisher
  <1>4. CASE System \/ OpenPage \/ CachedCompletionArrives
    <2>1. clean
      BY <1>4
         DEF System, Publishing, Sending, Observing, Confirming, Scanning,
             Serving, Breaking, Requesting, Refused, Accepted, Received,
             CheckDelivered, StatusArrives, CompletionArrives, CheckTask,
             Downloading, CleaningUp, Monitoring, Rebooting, OpenPage,
             CachedCompletionArrives, ServerOnly, DeviceOnly, Disconnects,
             KeepsHistory
    <2>2. StoreClean /\ Phases
      BY <2>1 DEF CleanInv
    <2>3. CASE System
      BY <2>2, <2>3, ServerKeepsClean, DeviceKeepsClean DEF System
    <2>4. CASE OpenPage
      BY <2>2, <2>4, ScansKeepClean DEF OpenPage, ServerOnly
    <2>5. CASE CachedCompletionArrives
      BY <2>2, <2>5, ConfirmingKeepsClean
         DEF CachedCompletionArrives, ServerOnly, otaVars
    <2>6. QED  BY <1>4, <2>3, <2>4, <2>5
  <1>5. CASE UNCHANGED vars
    <2>1. clean /\ UNCHANGED <<storeVars, grantVars, otaVars, connection>>
      BY <1>5 DEF vars
    <2>2. StoreClean /\ Phases
      BY <2>1 DEF CleanInv
    <2>3. StoreClean' /\ (Dispatching' <=> Dispatching)
      BY <2>1, <2>2
         DEF StoreClean, Dispatching, Newest, storeVars, grantVars, tables
    <2>4. QED
      BY <2>1, <2>2, <2>3, PhasesStay DEF storeVars, grantVars, tables
  <1>6. QED
    BY <1>1, <1>2, <1>3, <1>4, <1>5 DEF Next, Environment

\* The one phase with everything at rest is the end.
LEMMA AtRestIsDone ==
    ASSUME UpdateInv, Phases, AtRest
    PROVE  /\ rows[bin] = "DEVICE_CONFIRMED"
           /\ grants[made].state = "used"
           /\ IF DryRun THEN status = "FW_UPDATE_COMPLETE" ELSE fw = bin
  <1>1. Ends
    BY DEF Phases, Dispatches, Publishes, Delivers, Asks, Fetches, Dispatching,
           Granted, ChecksIt, LoadsIt, ReadsIt, AtRest
  <1>2. /\ Told
        /\ IF DryRun THEN status = "FW_UPDATE_COMPLETE" ELSE fw = bin
    BY <1>1 DEF Ends, VerifiesIt, SucceedsIt, RunsIt, AtRest
  <1>3. ConfirmedSoon
    BY <1>2, EmptyIs DEF Told, AtRest
  <1>4. QED  BY <1>2, <1>3 DEF ConfirmedSoon, AtRest

\* An update that starts at rest, with a newer build, and that neither a fault
\* nor a publish disturbs has ended well whenever everything is at rest again:
\* the row says DEVICE_CONFIRMED, the grant is used up, and the device runs
\* the build or, in a dry run, has reported it verified (from server.py POST
\* /send over ota_service.c ota_task to confirm_completed_download_b64).
THEOREM CleanEndsConfirmed == Spec => []CleanUpdateConfirmed
  <1> DEFINE Inv == BaseInv /\ CleanInv
  <1>1. Init => Inv
    BY DEF Init, GrantsInit, OtaInit, IdleTask, BaseInv, CleanInv
  <1>2. UpdateInv /\ Inv /\ [Next]_vars => Inv'
    BY BaseKept, CleanKept
  <1>3. UpdateInv /\ Inv => CleanUpdateConfirmed
    BY AtRestIsDone DEF CleanInv, CleanUpdateConfirmed
  <1> HIDE DEF Inv
  <1>4. QED  BY <1>1, <1>2, <1>3, UpdateAlways, PTL DEF Spec

-----------------------------------------------------------------------------
(* The promise of the grants *)

\* What is offered, from the scan to the grant, is a build; and only what was
\* granted is sent.
OfferInv ==
    /\ listed = NoOffer \/ listed.image \in Builds
    /\ \A s \in Scanners :
          scanning[s].pc \in {"read", "list"} => scanning[s].found.image \in Builds
    /\ sender.pc \in {"version", "grant"} => sender.offer.image \in Builds
    /\ \A g \in 1..made : grants[g].offer.image \in Builds
    /\ sent \subseteq 1..made

ConfirmedImages == {i \in Builds : rows[i] = "DEVICE_CONFIRMED"}

PromiseStill ==
    UNCHANGED <<grants, overdue, sent, confirming>>
    /\ ConfirmedImages' = ConfirmedImages

PromiseStep == Promise!Next \/ PromiseStill

LEMMA TablesStay ==
    ASSUME UNCHANGED <<tables, confirming>>
    PROVE  PromiseStep
  BY DEF tables, PromiseStep, PromiseStill, ConfirmedImages

LEMMA OffersSame ==
    ASSUME OfferInv,
           UNCHANGED <<listed, scanning, sender, grants, made, sent>>
    PROVE  OfferInv'
  BY DEF OfferInv

\* A note of another state takes a row away from the confirmed ones at most.
LEMMA NoteWithdraws ==
    ASSUME UpdateInv, NEW image, NEW state, state # "DEVICE_CONFIRMED",
           Note(image, state), UNCHANGED <<grants, overdue, sent, confirming>>
    PROVE  PromiseStep
  <1>1. rows \in [Builds -> RowStates]
    BY DEF UpdateInv, TypeOK, GrantsTypeOK
  <1>2. ConfirmedImages' \subseteq ConfirmedImages
    BY <1>1 DEF Note, ConfirmedImages
  <1>3. QED
    BY <1>2 DEF PromiseStep, Promise!Next, Promise!Withdraw, ConfirmedImages

\* Scans and publishes offer builds.
LEMMA StoreOffers ==
    ASSUME UpdateInv, OfferInv,
           \/ Publishing \/ OpenPage \/ User
           \/ \E b \in Builds : Publisher(b)
           \/ \E s \in Scanners : Scanning(s)
    PROVE  PromiseStep /\ OfferInv'
  <1>1. UNCHANGED <<tables, confirming, sender>>
    BY DEF Publishing, OpenPage, User, Publisher, Scanning, grantVars
  <1>2. PromiseStep
    BY <1>1, TablesStay
  <1>3. UNCHANGED <<grants, made, sent, sender>>
    BY <1>1 DEF tables
  <1>4. /\ bin \in Builds /\ DOMAIN scanning = Scanners
        /\ \A s \in Scanners : scanning[s] \in
              [pc : {"idle", "read", "list", "listed"}, found : Offer]
    BY DEF UpdateInv, TypeOK, GrantsTypeOK, StoreTypeOK
  <1>5. CASE Publishing \/ \E b \in Builds : Publisher(b)
    <2>1. UNCHANGED <<listed, scanning>>
      BY <1>5
         DEF Publishing, PublishStep, PublishBin, PublishRelease, Publisher,
             PublishBegins
    <2>2. QED  BY <1>2, <1>3, <2>1, OffersSame
  <1>6. ASSUME NEW s \in Scanners, ScanHashes(s)
        PROVE  OfferInv'
    <2>1. /\ scanning'[s].found.image = bin /\ listed' = listed
          /\ \A t \in Scanners : t # s => scanning'[t] = scanning[t]
      BY <1>4, <1>6 DEF ScanHashes
    <2>2. QED  BY <1>3, <1>4, <2>1 DEF OfferInv
  <1>7. ASSUME NEW s \in Scanners, ScanStep(s)
        PROVE  OfferInv'
    <2>1. CASE ScanReads(s)
      <3>1. /\ scanning[s].pc = "read" /\ listed' = listed
            /\ scanning'[s].found.image = scanning[s].found.image
            /\ \A t \in Scanners : t # s => scanning'[t] = scanning[t]
        BY <1>4, <2>1 DEF ScanReads, Offer
      <3>2. QED  BY <1>3, <3>1 DEF OfferInv
    <2>2. CASE ScanLists(s)
      <3>1. /\ scanning[s].pc = "list" /\ listed' = scanning[s].found
            /\ scanning'[s].pc \in {"listed", "idle"}
            /\ \A t \in Scanners : t # s => scanning'[t] = scanning[t]
        BY <1>4, <2>2 DEF ScanLists, NoScan
      <3>2. QED  BY <1>3, <3>1 DEF OfferInv
    <2>3. QED  BY <1>7, <2>1, <2>2 DEF ScanStep
  <1>8. "page" \in Scanners /\ "send" \in Scanners
    BY DEF Scanners
  <1>9. QED
    BY <1>2, <1>5, <1>6, <1>7, <1>8 DEF OpenPage, User, Scanning

\* A dispatch issues the next grant.
LEMMA SendingIssues ==
    ASSUME UpdateInv, OfferInv, Sending \/ Failing
    PROVE  PromiseStep /\ OfferInv'
  <1>0. /\ made \in 0..MaxGrants /\ MaxGrants \in Nat
        /\ grants \in [GrantIds -> [state : GrantStates, offer : Offer]]
        /\ sender.offer \in Offer
        /\ \A g \in GrantIds : grants[g].state = "none" <=> g > made
    BY GrantsAssumption
       DEF UpdateInv, DispatchInv, TypeOK, GrantsTypeOK
  <1>1. CASE SendGrants
    <2>1. /\ made + 1 \in GrantIds /\ made' = made + 1
          /\ sender.pc = "grant" /\ sender.offer.image \in Builds
          /\ grants' = [grants EXCEPT ![made + 1] =
                 [state |-> "open", offer |-> sender.offer]]
          /\ UNCHANGED <<overdue, rows, sent, confirming, listed, scanning>>
          /\ sender' = [sender EXCEPT !.pc = "publish"]
      BY <1>0, <1>1 DEF SendGrants, OfferInv, GrantIds, storeVars
    <2>2. \A h \in GrantIds : grants[h].state = "none" <=> made + 1 <= h
      BY <1>0 DEF GrantIds
    <2>3. Promise!Issue(made + 1)
      BY <1>0, <2>1, <2>2 DEF Promise!Issue
    <2>4. PromiseStep
      BY <2>1, <2>3 DEF PromiseStep, Promise!Next
    <2>5. \A g \in 1..made' : grants'[g].offer.image \in Builds
      BY <1>0, <2>1 DEF OfferInv, GrantIds
    <2>6. sent' \subseteq 1..made'
      <3>1. 1..made \subseteq 1..made'
        BY <1>0, <2>1
      <3>2. QED  BY <2>1, <3>1 DEF OfferInv
    <2>7. sender'.pc = "publish"
      BY <2>1 DEF UpdateInv, TypeOK, GrantsTypeOK
    <2>8. QED  BY <2>1, <2>4, <2>5, <2>6, <2>7 DEF OfferInv
  <1>2. CASE SendLooks \/ SendFindsVersion \/ SendPublishes \/ SendFails
    <2>1. UNCHANGED <<tables, confirming, listed>>
      BY <1>2
         DEF SendLooks, SendFindsVersion, SendPublishes, SendFails, SendOnly,
             storeVars
    <2>2. /\ sender'.pc \in {"version", "grant"} =>
                sender'.offer.image \in Builds
          /\ \A s \in Scanners : scanning'[s].pc \in {"read", "list"} =>
                scanning'[s].found.image \in Builds
      <3>1. CASE SendLooks
        <4>1. scanning' = [scanning EXCEPT !["send"] = NoScan]
              /\ DOMAIN scanning = Scanners
          BY <3>1 DEF SendLooks, UpdateInv, TypeOK, GrantsTypeOK, StoreTypeOK
        <4>2. \A s \in Scanners : scanning'[s].pc \in {"read", "list"} =>
                 scanning'[s].found.image \in Builds
          BY <4>1 DEF OfferInv, NoScan
        <4>3. QED  BY <3>1, <4>2 DEF SendLooks, OfferInv, NoSend
      <3>2. CASE ~SendLooks
        <4>1. scanning' = scanning
          BY <1>2, <3>2 DEF SendFindsVersion, SendPublishes, SendFails, storeVars
        <4>2. QED
          BY <1>2, <3>2, <4>1
             DEF SendFindsVersion, SendPublishes, SendFails, OfferInv, NoSend
      <3>3. QED  BY <3>1, <3>2
    <2>3. PromiseStep
      BY <2>1, TablesStay
    <2>4. QED  BY <2>1, <2>2, <2>3 DEF OfferInv, tables
  <1>3. QED  BY <1>1, <1>2 DEF Sending, Failing

LEMMA ObservingPromises ==
    ASSUME UpdateInv, OfferInv, Observing
    PROVE  PromiseStep /\ OfferInv'
  <1>1. OfferInv'
    BY OffersSame
       DEF Observing, ObserverLooks, ObserverNotes, tables, storeVars
  <1>2. CASE ObserverLooks
    BY <1>1, <1>2, TablesStay DEF ObserverLooks
  <1>3. CASE ObserverNotes
    BY <1>1, <1>3, NoteWithdraws DEF ObserverNotes
  <1>4. QED  BY <1>2, <1>3 DEF Observing

\* A thread sends under a grant that was made, uses it up after that, and in
\* time.
LEMMA ServingPromises ==
    ASSUME UpdateInv, OfferInv, NEW r \in Requests,
           RequestStep(r)
    PROVE  PromiseStep /\ OfferInv'
  <1>0. /\ made \in 0..MaxGrants /\ MaxGrants \in Nat
        /\ grants \in [GrantIds -> [state : GrantStates, offer : Offer]]
        /\ \A g \in GrantIds : grants[g].state = "none" <=> g > made
        /\ RequestGood(requests[r])
    BY GrantsAssumption
       DEF UpdateInv, DispatchInv, RequestInv, TypeOK, GrantsTypeOK
  <1>1. CASE Look(r) \/ Check(r) \/ Recheck(r) \/ Open(r)
    BY <1>1, TablesStay, OffersSame
       DEF Look, Check, Recheck, Open, RequestOnly, storeVars, tables
  <1>2. CASE Start(r) \/ NoteFailed(r) \/ Book(r)
    <2>1. PromiseStep
      BY <1>2, NoteWithdraws DEF Start, NoteFailed, Book
    <2>2. OfferInv'
      BY <1>2, OffersSame DEF Start, NoteFailed, Book, storeVars
    <2>3. QED  BY <2>1, <2>2
  <1>3. CASE SendAll(r)
    <2>1. /\ requests[r].grant \in 1..made
          /\ sent' = sent \cup {requests[r].grant}
          /\ UNCHANGED <<storeVars, grants, overdue, rows, made, sender,
                         confirming>>
      BY <1>0, <1>3 DEF SendAll, RequestGood, IsFor
    <2>2. requests[r].grant \in GrantIds
      BY <1>0, <2>1 DEF GrantIds
    <2>3. Promise!Transfer(requests[r].grant)
      BY <1>0, <2>1, <2>2 DEF Promise!Transfer, GrantIds
    <2>4. PromiseStep
      BY <2>2, <2>3 DEF PromiseStep, Promise!Next
    <2>5. OfferInv'
      BY <2>1 DEF OfferInv, storeVars
    <2>6. QED  BY <2>4, <2>5
  <1>4. CASE Consume(r)
    <2> DEFINE g == requests[r].grant
    <2>1. /\ g \in 1..made /\ g \in sent
          /\ UNCHANGED <<storeVars, overdue, rows, made, sent, sender,
                         confirming>>
          /\ grants' = IF Valid(g, requests[r].image)
                       THEN [grants EXCEPT ![g].state = "used"] ELSE grants
      BY <1>0, <1>4 DEF Consume, RequestGood, IsFor
    <2>2. g \in GrantIds
      BY <1>0, <2>1 DEF GrantIds
    <2>3. \A h \in 1..made : grants'[h].offer = grants[h].offer
      BY <1>0, <2>1 DEF GrantIds
    <2>4. OfferInv'
      BY <2>1, <2>3 DEF OfferInv, storeVars
    <2>5. CASE Valid(g, requests[r].image)
      <3>1. Promise!Consume(g)
        BY <2>1, <2>5 DEF Promise!Consume, Promise!Becomes, Valid
      <3>2. QED  BY <2>2, <2>4, <3>1 DEF PromiseStep, Promise!Next
    <2>6. CASE ~Valid(g, requests[r].image)
      BY <2>1, <2>4, <2>6, TablesStay DEF tables
    <2>7. QED  BY <2>5, <2>6
  <1>5. QED  BY <1>1, <1>2, <1>3, <1>4 DEF RequestStep

\* F makes the row of the image that its grant was for DEVICE_CONFIRMED.
LEMMA ConfirmingPromises ==
    ASSUME UpdateInv, OfferInv, Confirming
    PROVE  PromiseStep /\ OfferInv'
  <1> DEFINE image == grants[confirming].offer.image
  <1>1. /\ confirming # 0 /\ confirming' = 0
        /\ Note(image, "DEVICE_CONFIRMED")
        /\ UNCHANGED <<storeVars, grants, overdue, made, sent, sender>>
    BY DEF Confirming, NoteConfirmed
  <1>2. image \in Builds
    BY <1>1 DEF UpdateInv, UsedInv, OfferInv
  <1>3. rows \in [Builds -> RowStates] /\ image # 0
    BY <1>2 DEF UpdateInv, TypeOK, GrantsTypeOK, Builds
  <1>4. rows' = [rows EXCEPT ![image] = "DEVICE_CONFIRMED"]
    BY <1>1, <1>3 DEF Note
  <1>5. ConfirmedImages' = ConfirmedImages \cup {image}
    BY <1>2, <1>3, <1>4 DEF ConfirmedImages
  <1>6. Promise!Confirm
    BY <1>1, <1>5 DEF Promise!Confirm, ConfirmedImages
  <1>7. PromiseStep
    BY <1>6 DEF PromiseStep, Promise!Next
  <1>8. OfferInv'
    BY <1>1, OffersSame DEF storeVars
  <1>9. QED  BY <1>7, <1>8

LEMMA ExpiringPromises ==
    ASSUME UpdateInv, OfferInv, NEW g \in GrantIds, Expiring(g)
    PROVE  PromiseStep /\ OfferInv'
  <1>1. /\ grants[g].state = "open" /\ overdue' = overdue \cup {g}
        /\ UNCHANGED <<storeVars, grants, rows, made, sent, sender, confirming>>
    BY DEF Expiring, Expires
  <1>2. Promise!Lapse(g)
    BY <1>1 DEF Promise!Lapse
  <1>3. PromiseStep
    BY <1>2 DEF PromiseStep, Promise!Next
  <1>4. OfferInv'
    BY <1>1, OffersSame DEF storeVars
  <1>5. QED  BY <1>3, <1>4

\* Maintenance clears the rows, and of the firmware nothing else.
LEMMA MaintainingPromises ==
    ASSUME UpdateInv, OfferInv,
           NEW target \in {"firmware", "esp", "images"}, Maintaining(target)
    PROVE  PromiseStep /\ OfferInv'
  <1>0. /\ grants \in [GrantIds -> [state : GrantStates, offer : Offer]]
        /\ made \in 0..MaxGrants /\ MaxGrants \in Nat
    BY GrantsAssumption DEF UpdateInv, TypeOK, GrantsTypeOK
  <1>1. /\ rows' = [i \in Builds |-> "NONE"]
        /\ grants' = IF target = "firmware" THEN grants
                     ELSE [g \in GrantIds |-> IF grants[g].state = "none"
                               THEN grants[g]
                               ELSE [grants[g] EXCEPT !.state = "deleted"]]
        /\ listed' = IF target = "images" THEN NoOffer ELSE listed
        /\ UNCHANGED <<scanning, overdue, made, sent, sender, confirming>>
    BY DEF Maintaining, Clear
  <1>2. ConfirmedImages' = {}
    BY <1>1 DEF ConfirmedImages
  <1>3. PromiseStep
    <2>1. CASE target = "firmware"
      <3>1. Promise!Withdraw
        BY <1>1, <1>2, <2>1 DEF Promise!Withdraw, ConfirmedImages
      <3>2. QED  BY <3>1 DEF PromiseStep, Promise!Next
    <2>2. CASE target # "firmware"
      <3>1. Promise!Delete
        BY <1>1, <1>2, <2>2 DEF Promise!Delete, ConfirmedImages
      <3>2. QED  BY <3>1 DEF PromiseStep, Promise!Next
    <2>3. QED  BY <2>1, <2>2
  <1>4. \A g \in 1..made : grants'[g].offer = grants[g].offer
    BY <1>0, <1>1 DEF GrantIds
  <1>5. OfferInv'
    BY <1>1, <1>4 DEF OfferInv
  <1>6. QED  BY <1>3, <1>5

LEMMA RestartingPromises ==
    ASSUME UpdateInv, OfferInv, Restarting
    PROVE  PromiseStep /\ OfferInv'
  <1>1. /\ UNCHANGED <<tables, listed>> /\ confirming' = 0
        /\ sender' = NoSend
        /\ scanning' = [s \in Scanners |-> NoScan]
    BY DEF Restarting, Restart, StoreStops
  <1>2. Promise!Forget
    BY <1>1 DEF Promise!Forget, tables
  <1>3. PromiseStep
    BY <1>2 DEF PromiseStep, Promise!Next
  <1>4. OfferInv'
    BY <1>1 DEF OfferInv, tables, NoSend, NoScan
  <1>5. QED  BY <1>3, <1>4

\* F is accepted for a grant that was used up only.
LEMMA CompletionPromises ==
    ASSUME UpdateInv, OfferInv, CompletionArrives \/ CachedCompletionArrives
    PROVE  PromiseStep /\ OfferInv'
  <1>1. PICK g \in GrantIds : OnCompletion(g)
    <2>1. CASE CompletionArrives
      <3>1. /\ uplink \in Seq(0..MaxChecks) /\ uplink # <<>>
            /\ Head(uplink) # 0 /\ OnCompletion(Head(uplink))
        BY <2>1
           DEF UpdateInv, TypeOK, OtaTypeOK, CompletionArrives, FrameTaken
      <3>2. Head(uplink) \in 0..MaxChecks
        BY <3>1, TailIs
      <3>3. Head(uplink) \in GrantIds
        BY <3>1, <3>2, UpdateAssumption, GrantsAssumption DEF GrantIds
      <3>4. QED  BY <3>1, <3>3
    <2>2. CASE CachedCompletionArrives
      <3>1. cached \in 0..MaxGrants /\ cached # 0 /\ OnCompletion(cached)
        BY <2>2 DEF UpdateInv, TypeOK, CachedCompletionArrives
      <3>2. cached \in GrantIds
        BY <3>1, GrantsAssumption DEF GrantIds
      <3>3. QED  BY <3>1, <3>2
    <2>3. QED  BY <2>1, <2>2
  <1>2. OfferInv'
    BY <1>1, OffersSame DEF OnCompletion, tables, storeVars
  <1>3. CASE Completed(g)
    <2>1. Promise!Accept(g)
      BY <1>1, <1>3 DEF Promise!Accept, OnCompletion, Completed, tables
    <2>2. QED  BY <1>2, <2>1 DEF PromiseStep, Promise!Next
  <1>4. CASE ~Completed(g)
    BY <1>1, <1>2, <1>4, TablesStay DEF OnCompletion
  <1>5. QED  BY <1>3, <1>4

\* What only takes frames, dies or moves on the device changes no table.
LEMMA QuietPromises ==
    ASSUME OfferInv,
           \/ \E r \in Requests : Breaking(r) \/ Dying(r) \/ Requesting(r)
                                     \/ Refused(r) \/ Accepted(r) \/ Received(r)
           \/ CheckDelivered \/ CheckLost \/ StatusArrives \/ FrameLost
           \/ ConnectionDies
           \/ \E g \in GrantIds : CheckRepeated(g)
           \/ \E c \in Checks : CheckTask(c) \/ CheckTaskFails(c)
           \/ Downloading \/ CleaningUp \/ Monitoring \/ Rebooting
           \/ Unlucky \/ Crashing
           \/ UNCHANGED vars
    PROVE  PromiseStep /\ OfferInv'
  <1>1. UNCHANGED <<storeVars, tables, sender, confirming>>
    <2>1. CASE \E r \in Requests : Breaking(r) \/ Dying(r) \/ Requesting(r)
      BY <2>1
         DEF Breaking, SendBreaks, Dying, RequestDies, Requesting, Get,
             RequestOnly
    <2>2. CASE \E r \in Requests : Refused(r) \/ Accepted(r) \/ Received(r)
      BY <2>2 DEF Refused, Accepted, Received, Disconnects, DeviceOnly, grantVars
    <2>3. CASE CheckDelivered \/ CheckLost \/ StatusArrives \/ FrameLost
      BY <2>3
         DEF CheckDelivered, CheckLost, StatusArrives, FrameLost, CheckVars,
             grantVars
    <2>4. CASE \/ ConnectionDies \/ \E g \in GrantIds : CheckRepeated(g)
               \/ \E c \in Checks : CheckTask(c) \/ CheckTaskFails(c)
      BY <2>4
         DEF ConnectionDies, CheckRepeated, CheckTask, CheckTaskFails,
             DeviceOnly, grantVars
    <2>5. CASE \/ Downloading \/ CleaningUp \/ Monitoring \/ Rebooting
               \/ Unlucky \/ Crashing \/ UNCHANGED vars
      BY <2>5
         DEF Downloading, CleaningUp, Monitoring, Rebooting, Unlucky, Crashing,
             Disconnects, DeviceOnly, grantVars, vars
    <2>6. QED  BY <2>1, <2>2, <2>3, <2>4, <2>5
  <1>2. PromiseStep
    BY <1>1, TablesStay
  <1>3. OfferInv'
    BY <1>1, OffersSame DEF storeVars, tables
  <1>4. QED  BY <1>2, <1>3

LEMMA EachPromises ==
    UpdateInv /\ OfferInv /\ [Next]_vars => PromiseStep /\ OfferInv'
  <1> SUFFICES ASSUME UpdateInv, OfferInv, [Next]_vars
               PROVE  PromiseStep /\ OfferInv'
    OBVIOUS
  <1>1. CASE System
    BY <1>1, StoreOffers, SendingIssues, ObservingPromises, ConfirmingPromises,
       ServingPromises, QuietPromises, CompletionPromises DEF System, Serving
  <1>2. CASE Environment
    BY <1>2, StoreOffers, CompletionPromises DEF Environment
  <1>3. CASE Failures
    BY <1>3, SendingIssues, RestartingPromises, ExpiringPromises,
       MaintainingPromises, QuietPromises DEF Failures
  <1>4. CASE UNCHANGED vars
    BY <1>4, QuietPromises
  <1>5. QED  BY <1>1, <1>2, <1>3, <1>4 DEF Next

\* The server's threads, the network, time, restarts and maintenance, all of
\* them together, keep what GrantPromise says of a grant: issued for one
\* image, used up once, in time and after its BIN was sent to the end, and no
\* row becomes DEVICE_CONFIRMED but by the F of a grant that was used up, and
\* then the row of its image (consume_dispatch_token,
\* confirm_completed_download_b64).
THEOREM GrantPromiseKept == Spec => KeepsGrants
  <1>1. Init => OfferInv /\ Promise!Init
    <2> SUFFICES ASSUME Init PROVE OfferInv /\ Promise!Init
      OBVIOUS
    <2>1. /\ listed.image = FirstBuild /\ scanning = [s \in Scanners |-> NoScan]
          /\ grants = [g \in GrantIds |-> [state |-> "none", offer |-> NoOffer]]
          /\ overdue = {} /\ sent = {} /\ made = 0 /\ confirming = 0
          /\ rows = [i \in Builds |-> "NONE"] /\ sender = NoSend
      BY DEF Init, GrantsInit, StoreInit
    <2>2. OfferInv
      BY <2>1, Offers DEF OfferInv, NoScan, NoSend
    <2>3. Promise!Init
      BY <2>1, Offers DEF Promise!Init
    <2>4. QED  BY <2>2, <2>3
  <1>2. PromiseStep => [Promise!Next]_(Promise!promiseVars)
    BY DEF PromiseStep, PromiseStill, ConfirmedImages, Promise!promiseVars
  <1>3. UpdateInv /\ OfferInv /\ [Next]_vars =>
            OfferInv' /\ [Promise!Next]_(Promise!promiseVars)
    BY <1>2, EachPromises
  <1>4. QED
    BY <1>1, <1>3, UpdateAlways, PTL DEF Spec, KeepsGrants, Promise!Spec
=============================================================================
