------------------------------- MODULE MCCosmos -------------------------------
(* The Cosmos store's rows and its claims for TLC.  They share no document (an *)
(* account's partition here, the global container and the account documents    *)
(* there), so a behaviour runs one half while the other rests.                 *)
EXTENDS CosmosRows, CosmosClaims, TLC

CONSTANTS r1, r2, o1, w1, w2, b1, booker, watcher, site, tab, tick

\* The two rules are interchangeable.
MCSymmetry == Permutations({r1, r2})

MCActorOf == booker :> "runner" @@ watcher :> "watcher"

MCDoes ==
    site    :> {"create", "withdraw", "skip", "unskip", "edit"}
 @@ tab     :> {"edit"}
 @@ tick    :> {"insert", "reactivate", "rewrite", "drop", "mark", "finalize"}
 @@ booker  :> {"claim", "record", "release"}
 @@ watcher :> {"acquire", "record", "release"}

MCEdits ==
    {[exists |-> TRUE, active |-> e[1], weekday |-> 1, cutoff |-> NoCutoff, want |-> e[2]] :
        e \in {<<TRUE, w1>>, <<TRUE, w2>>, <<FALSE, w1>>}}

MCReports == {Outcome("booked", "none", FALSE, b1, {b1}, {}, {}),
              Outcome("cancelled", "external", FALSE, NoRaw, {}, {}, {})}

VARIABLE half

MCInit ==
    /\ half \in {"rows", "claims"}
    /\ CosmosInit /\ ClaimsInit
    /\ half = "claims" => rows = [id \in RowIds |-> AbsentRow] /\ rules[r1].exists /\ now = 0

MCNext ==
    \/ half = "rows" /\ CosmosNext /\ UNCHANGED <<claimVars, half>>
    \/ half = "claims" /\ ClaimsNext /\ UNCHANGED <<cosmosVars, half>>

MCSpec == MCInit /\ [][MCNext]_<<cosmosVars, claimVars, half>>
=============================================================================
