---------------------------- MODULE MCTenantRows ----------------------------
(* Values of TenantRows' constants for TLC. *)
EXTENDS TenantRows, TLC

CONSTANTS r1, r2, o1, runner, watcher, web

MCActorOf == [owner \in Owners |-> CASE owner = runner  -> "runner"
                                     [] owner = watcher -> "watcher"
                                     [] owner = web     -> "web"]

\* The weekday of an inactive rule is read by nobody, so one stands for all; and either
\* the second rule and the one-off take part, or the booker beside the watcher.
MCFocus ==
    /\ \A r \in Rules : ~rules[r].active => rules[r].weekday = 0
    /\ \/ working[runner] = NoRow /\ \A id \in RowIds : rows[id].owner # runner
       \/ /\ \E r \in Rules : ~rules[r].exists
          /\ \A id \in RowIds : ~IsRuleRow(id) => rows[id].status = "absent"

\* The two rules are interchangeable.
MCSymmetry == Permutations({r1, r2})
=============================================================================
