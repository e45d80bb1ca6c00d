---------------------------- MODULE MCBookingDrop ----------------------------
(* One account's run at the drop, and the groups its owner keeps on the site,  *)
(* for TLC.  They share no state, so a behaviour runs one while the other rests. *)
EXTENDS BookingEngine, WebGroups, TLC

CONSTANTS t1, t2

\* Two requests, that may overlap, and one after both (by t1, as the tabs are alike).
MCFocus == asked = MaxAsked => request[t2] = Waiting

VARIABLE half

MCInit == half \in {"engine", "groups"} /\ BInit /\ GroupsInit

MCNext ==
    \/ half = "engine" /\ BNext /\ UNCHANGED <<groupVars, half>>
    \/ half = "groups" /\ GroupsNext /\ UNCHANGED <<vars, half>>

MCSpec == MCInit /\ [][MCNext]_<<vars, groupVars, half>>
=============================================================================
