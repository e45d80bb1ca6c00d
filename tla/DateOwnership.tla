---------------------------- MODULE DateOwnership ----------------------------
(***************************************************************************)
(* What the tenant store promises about a date, without rows, leases,      *)
(* cutoffs or rules: each date is held by at most one claim.  A standing   *)
(* claim (a rule row) gives way to a one-off claim, in one step, and may   *)
(* get the date back when the one-off is withdrawn.  Once the user's own   *)
(* booking on the date was cancelled the date is closed, and no standing   *)
(* claim ever holds it again.                                              *)
(***************************************************************************)
CONSTANTS Days, Standing, OneOff, Nobody

VARIABLES holder, closed

ownershipVars == <<holder, closed>>

Claims == Standing \cup OneOff

OwnershipInit ==
    /\ holder = [d \in Days |-> Nobody]
    /\ closed = {}

\* A free date is taken; a closed one only by a one-off.
Take(d, c) ==
    /\ holder[d] = Nobody
    /\ c \in Standing => d \notin closed
    /\ holder' = [holder EXCEPT ![d] = c]
    /\ UNCHANGED closed

\* The user's one-off displaces a standing claim.
Displace(d, c) ==
    /\ holder[d] \in Standing
    /\ c \in OneOff
    /\ holder' = [holder EXCEPT ![d] = c]
    /\ UNCHANGED closed

\* Withdrawing the one-off hands the date back to a standing claim.
GiveBack(d, c) ==
    /\ holder[d] \in OneOff
    /\ c \in Standing
    /\ d \notin closed
    /\ holder' = [holder EXCEPT ![d] = c]
    /\ UNCHANGED closed

\* Withdrawn or lost, on any number of dates at once (the finalizer).
Release(S) ==
    /\ \A d \in S : holder[d] # Nobody
    /\ holder' = [d \in Days |-> IF d \in S THEN Nobody ELSE holder[d]]
    /\ UNCHANGED closed

\* The booking on the date was cancelled by the user or at the course.
Cancel(d) ==
    /\ holder[d] # Nobody
    /\ holder' = [holder EXCEPT ![d] = Nobody]
    /\ closed' = closed \cup {d}

OwnershipNext ==
    \/ \E S \in SUBSET Days : Release(S)
    \/ \E d \in Days, c \in Claims : Take(d, c) \/ Displace(d, c) \/ GiveBack(d, c)
    \/ \E d \in Days : Cancel(d)

OwnershipSpec == OwnershipInit /\ [][OwnershipNext]_ownershipVars
=============================================================================
