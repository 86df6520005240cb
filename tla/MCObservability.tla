-------------------------- MODULE MCObservability --------------------------
(***************************************************************************)
(* The two components that watch, for TLC: BootStatus or ActivityFeed, one *)
(* or the other from the start.  What the observer writes of an S is one   *)
(* of the rows of ActivityFeed (Log here, Insert and Commit there); they   *)
(* share nothing else.                                                     *)
(***************************************************************************)
EXTENDS BootStatus, ActivityFeed

VARIABLE part

vars == <<statusVars, feedVars, part>>

Init == StatusInit /\ FeedInit /\ part \in {"status", "feed"}

Next ==
    /\ UNCHANGED part
    /\ \/ part = "status" /\ StatusNext /\ UNCHANGED feedVars
       \/ part = "feed" /\ FeedNext /\ UNCHANGED statusVars

Spec ==
    /\ Init /\ [][Next]_vars
    /\ WF_vars(part = "feed" /\ StreamStep /\ UNCHANGED <<statusVars, part>>)

\* The variables of both have their types.
TypeOK == StatusTypeOK /\ FeedTypeOK
=============================================================================
