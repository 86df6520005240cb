---------------------------- MODULE GrantPromise ----------------------------
(***************************************************************************)
(* What a download grant promises, whatever threads, restarts and repeated *)
(* frames do: it is good once and for one image.  HTTPS completion consumes*)
(* it; F is a later confirmation by the device, which must not consume it a*)
(* second time and cannot manufacture a completed transfer                 *)
(* (confirm_completed_download_b64 in ota_check_security.py).              *)
(***************************************************************************)
EXTENDS Integers

CONSTANTS
    Grants,  \* their numbers, in the order of issue
    Offers,  \* what a grant may be for: an image and its version
    Images   \* the images that devices have rows for

VARIABLES
    grants,    \* the state of each grant and what it is for
    overdue,   \* grants that are too old
    sent,      \* grants under which the image was sent to its end
    accepted,  \* the grant whose F has been accepted, or 0
    confirmed  \* the images whose row says DEVICE_CONFIRMED

promiseVars == <<grants, overdue, sent, accepted, confirmed>>

Init ==
    /\ grants \in [Grants -> [state : {"none"}, offer : Offers]]
    /\ overdue = {} /\ sent = {} /\ accepted = 0 /\ confirmed = {}

Becomes(g, state) == grants' = [grants EXCEPT ![g].state = state]

\* One after the other, and what a grant is for never changes.
Issue(g) ==
    /\ \A h \in Grants : grants[h].state = "none" <=> g <= h
    /\ \E offer \in Offers :
          /\ offer.image \in Images
          /\ grants' = [grants EXCEPT ![g] =
                 [state |-> "open", offer |-> offer]]
    /\ UNCHANGED <<overdue, sent, accepted, confirmed>>

Lapse(g) ==
    /\ grants[g].state = "open"
    /\ overdue' = overdue \cup {g}
    /\ UNCHANGED <<grants, sent, accepted, confirmed>>

\* A transfer once begun ends even if the grant is gone by then.
Transfer(g) ==
    /\ grants[g].state # "none"
    /\ sent' = sent \cup {g}
    /\ UNCHANGED <<grants, overdue, accepted, confirmed>>

Consume(g) ==
    /\ grants[g].state = "open" /\ g \notin overdue /\ g \in sent
    /\ Becomes(g, "used")
    /\ UNCHANGED <<overdue, sent, accepted, confirmed>>

Accept(g) ==
    /\ accepted = 0 /\ grants[g].state = "used"
    /\ accepted' = g
    /\ UNCHANGED <<grants, overdue, sent, confirmed>>

Confirm ==
    /\ accepted # 0
    /\ accepted' = 0
    /\ confirmed' = confirmed \cup {grants[accepted].offer.image}
    /\ UNCHANGED <<grants, overdue, sent>>

\* The process ends between the two.
Forget ==
    /\ accepted' = 0
    /\ UNCHANGED <<grants, overdue, sent, confirmed>>

\* Another download of the image, or a CHECK for it, takes its row over.
Withdraw ==
    /\ confirmed' \subseteq confirmed
    /\ UNCHANGED <<grants, overdue, sent, accepted>>

\* Maintenance: the rows, and the grants that were made.
Delete ==
    /\ grants' = [g \in Grants |-> IF grants[g].state = "none" THEN grants[g]
                      ELSE [grants[g] EXCEPT !.state = "deleted"]]
    /\ confirmed' = {}
    /\ UNCHANGED <<overdue, sent, accepted>>

Next ==
    \/ \E g \in Grants : Issue(g) \/ Lapse(g) \/ Transfer(g) \/ Consume(g)
                           \/ Accept(g)
    \/ Confirm \/ Forget \/ Withdraw \/ Delete

Spec == Init /\ [][Next]_promiseVars
=============================================================================
