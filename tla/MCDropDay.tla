----------------------------- MODULE MCDropDay -----------------------------
(* The calendar of the drops and the seconds around one of them, for TLC.  They *)
(* share no state, so a behaviour runs one while the other rests.               *)
EXTENDS ReleaseCalendar, TokenPool, TLC

\* 16:00 of the day before, 00:00 of two days before
MCCutoffs == {[days |-> 1, at |-> 960], [days |-> 2, at |-> 0]}

\* The morning from its first tee time on, and from its last one back.
MCRankings == {<<1, 2, 3, 4, 5, 6>>, <<6, 5>>}

VARIABLE half

MCInit ==
    /\ half \in {"calendar", "pool"}
    /\ CInit /\ PInit
    /\ half = "calendar" => ranked = [a \in Accounts |-> <<6, 5>>]
    /\ half = "pool" => policy = CHOOSE p \in [hour : Hours, minute : Minutes, lead : Leads, advance : Advances,
                                               dst : BOOLEAN, cutoff : Cutoffs] : Valid(p) /\ p.cutoff.days < p.advance

Alone(step) == half = "pool" /\ step /\ UNCHANGED <<vars, half>>

MCNext ==
    \/ half = "calendar" /\ CNext /\ UNCHANGED <<poolVars, half>>
    \/ Alone(PNext)

MCVars == <<vars, poolVars, half>>

\* The fairness of PSpec, in the half that runs the pool.
MCSpec == MCInit /\ [][MCNext]_MCVars /\ WF_MCVars(Alone(NextPhase))
          /\ \A a \in Accounts : WF_MCVars(Alone(PrefetchReturns(a)))
=============================================================================
