---------------------------- MODULE MCMaterializer ----------------------------
(* Values of Materializer's constants for TLC. *)
EXTENDS Materializer, TLC

CONSTANTS r1, r2, runner, watcher, web

MCActorOf == [owner \in Owners |-> CASE owner = runner  -> "runner"
                                     [] owner = watcher -> "watcher"
                                     [] owner = web     -> "web"]
\* Day 0 is still open under the site's cutoff, one tick into it, and not under the
\* owner's; a rule may put the site's back.
Open == -1
Closed == 0
MCCutoffs == {Open, Closed}
\* Either skips, one-offs and changes of the weekday take part, or changes of windows and
\* cutoffs.
MCFocus ==
    \/ /\ \A id \in RowIds : IF IsRuleRow(id) THEN rows[id].status # "skipped"
                                           ELSE rows[id].status = "absent"
       /\ userCutoff # Open
       /\ \A r \in Rules : rules[r].cutoff # Closed /\ rules[r].weekday = 0
       /\ \A p \in Jobs : job[p].new.cutoff # Closed /\ job[p].new.weekday = 0
    \/ /\ userCutoff = NoCutoff
       /\ \A id \in RowIds : rows[id].own = NoCutoff
       /\ \A r \in Rules : rules[r].cutoff = NoCutoff /\ rules[r].want = AnyWant
       /\ \A p \in Jobs : job[p].new.cutoff = NoCutoff /\ job[p].new.want = AnyWant
MCSymmetry == Permutations({r1, r2})
=============================================================================
