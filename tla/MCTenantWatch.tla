---------------------------- MODULE MCTenantWatch ----------------------------
(* Values of TenantWatch's constants for TLC: Rank[a][s] is the option of     *)
(* account a's row that tee time s falls in, 0 none.                          *)
EXTENDS TenantWatch, TLC

\* One row with one option: two tee times, the first one better.
MCTwoTimes == <<(<<1, 1>>)>>
\* A group: account 1 wants tee time 1 above all, account 2 tee time 2 and, as the
\* last option, tee time 1.
MCGroup == <<(<<1, 0>>), (<<3, 2>>)>>
\* Of the booker, a booking by hand and the web's cancel any two take part.
MCFocus ==
    \/ u.at = "idle" /\ quit = {}
    \/ \A i \in Ids : res[i].by # "hand"
    \/ \A a \in Accounts : ~b[a].on /\ ~b[a].done
=============================================================================
