----------------------------- MODULE Materializer -----------------------------
(***************************************************************************)
(* The standing-rule materializer (tenant/materialize.py) over the row     *)
(* store: the watcher's tick and the web's rule create / edit /            *)
(* deactivate / reactivate requests are programs of store calls, and every *)
(* store call may interleave with the calls of another program, of the     *)
(* bots and of the user.                                                   *)
(*                                                                         *)
(* A job carries the rule copy its caller read: the store refuses a row    *)
(* write made with a copy that is no longer the stored version, while the  *)
(* watermark writes (reset and set_materialized_through) and the           *)
(* withdrawals check no version.  A job may die after any call.            *)
(***************************************************************************)
EXTENDS TenantRows, Sequences

CONSTANTS
    Ticks,       \* watcher runs that may be under way
    Requests,    \* web requests that may be under way
    Mortal,      \* jobs that may die part-way
    Horizon,     \* days ahead the materializer looks (max(21, advance + 7))
    MaxVersion   \* bound on the writes of one rule

Jobs == Ticks \cup Requests
NoDay == -1      \* materialized_through = None

ASSUME MaterializerAssumption ==
    /\ Ticks \cap Requests = {}
    /\ Horizon \in Nat
    /\ MaxVersion \in Nat \ {0}

VARIABLES
    version,     \* rule -> its stored version, 0 before it is created
    through,     \* rule -> its watermark, materialized_through
    job,         \* job -> the call sequence it still has to make, and its copies
    calm         \* history: jobs beside which nobody else wrote to the store

materializerVars == <<version, through, job, calm>>
allVars == <<vars, materializerVars>>

DateLoops == {"withdraw", "rewrite", "walk"}
AnyRule == [exists |-> FALSE, active |-> FALSE, weekday |-> 0, cutoff |-> NoCutoff,
            want |-> AnyWant]
\* A job: the calls it still has to make; the rule the web read and its edited copy
\* (the tick's copy), with the version and watermark of that copy; the owner's cutoff
\* as read; the dates of the loop still to visit and what was decided for the next
\* one, on a history in which the own row was `read`; the rules and stragglers of
\* the tick's queries.
Idle == [plan |-> <<>>, rule |-> NoRule, old |-> AnyRule, new |-> AnyRule, ver |-> 0,
         thr |-> NoDay, today |-> 0, cut |-> NoCutoff, todo |-> {}, act |-> "none",
         read |-> AbsentRow, due |-> {}, stray |-> {}]

MInit ==
    /\ Init
    /\ version = [r \in Rules |-> 0]
    /\ through = [r \in Rules |-> NoDay]
    /\ job = [p \in Jobs |-> Idle]
    /\ calm = {}
-----------------------------------------------------------------------------
(* What a job reads, decides and does next *)

DatesForRule(rule, today) ==
    {d \in Dates : /\ today <= d
                   /\ d <= today + Horizon
                   /\ Weekday(d) = rule.weekday}

Busy(p)     == job[p].plan # <<>>
At(p, ph)   == Busy(p) /\ Head(job[p].plan) = ph
Day(p)      == CHOOSE d \in job[p].todo : \A e \in job[p].todo : d <= e
OwnId(p)    == <<job[p].rule, Day(p)>>
Own(p)      == rows[OwnId(p)]
HorizonEnd(p) == job[p].today + Horizon
\* _stored_rule_matching: the copy is not the stored version any more.
Stale(p)    == job[p].ver # version[job[p].rule]

\* Mutant: the walk looks only at the dates after the watermark.
LoopAfterWatermark(j, ph) ==
    IF ph \notin DateLoops THEN {}
    ELSE {d \in DatesForRule(IF ph = "withdraw" THEN j.old ELSE j.new, j.today) :
             ph = "walk" => d > j.thr}
\* The dates a phase walks: the withdrawal's on the weekday the rule had.
Loop(j, ph) == IF ph \notin DateLoops THEN {}
               ELSE DatesForRule(IF ph = "withdraw" THEN j.old ELSE j.new, j.today)
\* The job with `plan` to do.  A finished job keeps nothing.
WithPlan(j, plan) ==
    IF plan = <<>> THEN Idle
    ELSE [j EXCEPT !.plan = plan, !.todo = Loop(j, Head(plan)), !.act = "none",
                   !.read = AbsentRow]

\* What a tick has to do, and what it has to do once it took up a rule.
TickPlan == <<"rules", "query", "sweep">>
RulePlan == <<"cutoff", "walk", "mark", "rules", "query", "sweep">>

Advance(p)  == job' = [job EXCEPT ![p] = WithPlan(@, Tail(@.plan))]
NextDay(p)  == job' = [job EXCEPT ![p].todo = @ \ {Day(p)}, ![p].act = "none",
                                  ![p].read = AbsentRow]
Decide(p, action) ==
    IF action = "none" THEN NextDay(p)
    ELSE job' = [job EXCEPT ![p].act = action, ![p].read = Own(p)]
\* A refused write raises: a request ends there, a tick goes on with the next rule.
Abort(p) ==
    job' = [job EXCEPT ![p] = IF p \in Ticks THEN WithPlan(@, TickPlan) ELSE Idle]

NoStoreWrite == UNCHANGED <<vars, version, through>>
RowsOnly     == UNCHANGED <<version, through>>
-----------------------------------------------------------------------------
(* The programs *)

\* Mutant: an edit rewrites the windows before the cutoffs.
EditPlanWindowFirst(old, new) ==
    CASE old.active /\ ~new.active  -> <<"reset", "withdraw", "reset", "upsert">>
      [] ~old.active /\ ~new.active -> <<"upsert">>
      [] ~old.active /\ new.active  -> <<"upsert", "cutoff", "walk", "mark">>
      [] old.active /\ new.active   -> <<"upsert", "rewrite", "cutoff", "walk", "mark">>
\* apply_rule_edit: which calls an edit makes, in which order.
EditPlan(old, new) ==
    CASE old.active /\ ~new.active  -> <<"reset", "withdraw", "reset", "upsert">>
      [] ~old.active /\ ~new.active -> <<"upsert">>
      [] ~old.active /\ new.active  -> <<"upsert", "cutoff", "walk", "mark">>
      [] old.active /\ new.active   ->
           IF old.weekday # new.weekday
           THEN <<"upsert", "withdraw", "cutoff", "walk", "mark">>
           ELSE <<"upsert", "cutoff", "rewrite", "cutoff", "walk", "mark">>

\* The web creates (an active rule), edits, deactivates or reactivates a rule.
\* The form carries the version of the page it was rendered from.
StartRequest(p, r, new, formVersion) ==
    /\ ~Busy(p)
    /\ new.exists
    /\ version[r] < MaxVersion
    /\ IF rules[r].exists THEN formVersion \in 1..version[r]
                          ELSE new.active /\ formVersion = 0
    /\ job' = [job EXCEPT ![p] =
                 WithPlan([Idle EXCEPT !.rule = r, !.old = rules[r], !.new = new,
                                       !.ver = formVersion, !.thr = through[r],
                                       !.today = Today, !.cut = userCutoff],
                          EditPlan(rules[r], new))]
    /\ NoStoreWrite

\* Mutant: a tick with no rule to materialize returns before its sweep.
StartTickOnlyIfDue(p) ==
    /\ ~Busy(p)
    /\ \E r \in Rules : rules[r].active /\ through[r] < Today + Horizon
    /\ job' = [job EXCEPT ![p] =
                 [Idle EXCEPT !.plan = TickPlan, !.today = Today,
                    !.due = {[rule |-> r, copy |-> rules[r], ver |-> version[r],
                              thr |-> through[r]] :
                               r \in {x \in Rules : /\ rules[x].active
                                                    /\ through[x] < Today + Horizon}}]]
    /\ NoStoreWrite
\* The tick reads the rules whose watermark is short of the horizon ...
StartTick(p) ==
    /\ ~Busy(p)
    /\ LET due == {r \in Rules : rules[r].active /\ through[r] < Today + Horizon}
       IN  job' = [job EXCEPT ![p] =
                     [Idle EXCEPT !.plan = TickPlan,
                        !.today = Today,
                        !.due = {[rule |-> r, copy |-> rules[r], ver |-> version[r],
                                  thr |-> through[r]] : r \in due}]]
    /\ NoStoreWrite

\* ... and materializes them one by one, each under its owner's cutoff as set now.
TakesUp(j, x) == [j EXCEPT !.rule = x.rule, !.new = x.copy, !.ver = x.ver, !.thr = x.thr,
                           !.cut = userCutoff, !.due = @ \ {x}]
NextRule(p) ==
    /\ At(p, "rules")
    /\ IF job[p].due = {} THEN Advance(p)
       ELSE \E x \in job[p].due :
              job' = [job EXCEPT ![p] = WithPlan(TakesUp(@, x), RulePlan)]
    /\ NoStoreWrite

Reset(p) ==
    /\ At(p, "reset")
    /\ through' = [through EXCEPT ![job[p].rule] = NoDay]
    /\ Advance(p)
    /\ UNCHANGED <<vars, version>>

\* upserted_rule: what becomes of the watermark when a rule is replaced.
MergedThrough(p) ==
    LET stored == through[job[p].rule]
        moved  == job[p].new.weekday # rules[job[p].rule].weekday
        again  == job[p].new.active /\ ~rules[job[p].rule].active
    IN  IF moved \/ again \/ stored = NoDay THEN NoDay
        ELSE IF job[p].thr > stored THEN job[p].thr ELSE stored

\* The job goes on with the stored version of what it wrote.
Written(j, thr) == [j EXCEPT !.ver = @ + 1, !.thr = thr]

\* The stale form (VersionConflictError) and the taken weekday
\* (RuleConflictError) are found out here, after a deactivation has withdrawn.
Upsert(p) ==
    LET r == job[p].rule
        new == job[p].new
    IN  /\ At(p, "upsert")
        /\ IF \/ Stale(p)
              \/ new.active /\ FreedRuledays(r)[new.weekday] \notin {NoRule, r}
           THEN Abort(p) /\ NoStoreWrite
           ELSE /\ version[r] < MaxVersion
                /\ UpsertRule(r, new)
                /\ version' = [version EXCEPT ![r] = @ + 1]
                /\ through' = [through EXCEPT ![r] = MergedThrough(p)]
                /\ job' = [job EXCEPT ![p] = WithPlan(Written(@, MergedThrough(p)), Tail(@.plan))]

Cutoff(p) ==
    /\ At(p, "cutoff")
    /\ IF Stale(p) THEN Abort(p) /\ NoStoreWrite
                   ELSE RewriteRuleCutoff(job[p].rule) /\ Advance(p) /\ RowsOnly

LoopDone(p) ==
    /\ \E ph \in DateLoops : At(p, ph)
    /\ job[p].todo = {}
    /\ Advance(p)
    /\ NoStoreWrite

Visits(p, ph, act) == At(p, ph) /\ job[p].todo # {} /\ job[p].act = act
-----------------------------------------------------------------------------
(* The walk of materialize_rule: read a date's history, then act on it *)

\* classify_date_history, with the frozen check on the cutoff the job read.
Classify(p) ==
    LET d  == Day(p)
        at == CutoffAt(d, Resolve(job[p].new.cutoff, job[p].cut))
    IN  IF Frozen(d, at) \/ DateClosed(d) THEN "none"
        ELSE CASE Own(p).status = "absent" -> "insert"
               [] /\ Own(p).status = "withdrawn"
                  /\ Own(p).reason = "system"
                  /\ slots[d] = NoRow -> "reactivate"
               [] OTHER -> "none"

ReadHistory(p) ==
    /\ Visits(p, "walk", "none")
    /\ Decide(p, Classify(p))
    /\ NoStoreWrite

\* A row that appeared since the history read is left alone; a stale copy, a
\* date closed or frozen since then is refused.
Insert(p) ==
    LET d == Day(p)
    IN  /\ Visits(p, "walk", "insert")
        /\ \/ /\ ~Stale(p)
              /\ InsertRuleRow(job[p].rule, d)
              /\ NextDay(p)
              /\ RowsOnly
           \/ /\ ~Stale(p)
              /\ Own(p).status # "absent"
              /\ NextDay(p)
              /\ NoStoreWrite
           \/ /\ \/ Stale(p)
                 \/ /\ Own(p).status = "absent"
                    /\ \/ DateClosed(d)
                       \/ Frozen(d, RuleCutoffAt(OwnId(p)))
              /\ Abort(p)
              /\ NoStoreWrite

Reactivate(p) ==
    LET d == Day(p)
    IN  /\ Visits(p, "walk", "reactivate")
        /\ \/ /\ ~Stale(p)
              /\ Own(p) = job[p].read
              /\ ReactivateRuleRow(job[p].rule, d)
              /\ NextDay(p)
              /\ RowsOnly
           \/ /\ \/ Stale(p)
                 \/ Own(p) # job[p].read
                 \/ slots[d] # NoRow
                 \/ DateClosed(d)
                 \/ Frozen(d, RuleCutoffAt(OwnId(p)))
              /\ Abort(p)
              /\ NoStoreWrite

\* set_materialized_through: whatever the stored version is by now.
Mark(p) ==
    LET r == job[p].rule
    IN  /\ At(p, "mark")
        /\ through' = [through EXCEPT ![r] = IF @ < HorizonEnd(p) THEN HorizonEnd(p) ELSE @]
        /\ Advance(p)
        /\ UNCHANGED <<vars, version>>
-----------------------------------------------------------------------------
(* Rule edits and the sweep *)

\* Mutant: a deactivation leaves superseded rows behind.
PendingOnly  == {"pending"}
Withdrawable == {"pending", "superseded"}

ReadWithdrawable(p) ==
    /\ Visits(p, "withdraw", "none")
    /\ Decide(p, IF Own(p).status \in Withdrawable THEN "withdraw" ELSE "none")
    /\ NoStoreWrite

\* A leased row is left for the sweep; one that moved since it was read raises.
Withdraw(p) ==
    /\ Visits(p, "withdraw", "withdraw")
    /\ \/ WithdrawRuleRow(job[p].rule, Day(p)) /\ NextDay(p) /\ RowsOnly
       \/ Own(p).status \in Withdrawable /\ LeaseHeld(OwnId(p)) /\ NextDay(p) /\ NoStoreWrite
       \/ Own(p).status \notin Withdrawable /\ Abort(p) /\ NoStoreWrite

ReadRewritable(p) ==
    /\ Visits(p, "rewrite", "none")
    /\ Decide(p, IF Own(p).status = "pending" /\ ~Frozen(Day(p), Own(p).cutoff)
                 THEN "rewrite" ELSE "none")
    /\ NoStoreWrite

Rewrite(p) ==
    LET changed == Own(p) # job[p].read \/ Frozen(Day(p), Own(p).cutoff)
    IN  /\ Visits(p, "rewrite", "rewrite")
        /\ \/ /\ ~changed
              /\ ~Stale(p)
              /\ RewritePendingRuleRow(job[p].rule, Day(p))
              /\ NextDay(p)
              /\ RowsOnly
           \/ ~changed /\ LeaseHeld(OwnId(p)) /\ NextDay(p) /\ NoStoreWrite
           \/ /\ \/ changed
                 \/ ~LeaseHeld(OwnId(p)) /\ (Stale(p) \/ ~MayBecomeActive(OwnId(p)))
              /\ Abort(p)
              /\ NoStoreWrite

\* rows_no_longer_covered: the stragglers an edit had to skip.
Stragglers == {id \in RowIds : /\ IsRuleRow(id)
                               /\ rows[id].status \in Withdrawable
                               /\ ~Covered(id)
                               /\ ~rows[id].reconcile
                               /\ ~LeaseHeld(id)}

QueryStragglers(p) ==
    /\ At(p, "query")
    /\ job' = [job EXCEPT ![p] = [WithPlan(@, Tail(@.plan)) EXCEPT !.stray = Stragglers]]
    /\ NoStoreWrite

\* The coverage is not looked at again: transition_row has no such guard.
Sweep(p) ==
    /\ At(p, "sweep")
    /\ \/ /\ job[p].stray = {}
          /\ Advance(p)
          /\ NoStoreWrite
       \/ \E id \in job[p].stray :
             /\ job' = [job EXCEPT ![p].stray = @ \ {id}]
             /\ \/ WithdrawRuleRow(OriginOf(id), DateOf(id)) /\ RowsOnly
                \/ /\ rows[id].status \notin Withdrawable \/ LeaseHeld(id)
                   /\ NoStoreWrite
-----------------------------------------------------------------------------
StartJob(p) ==
    \/ p \in Ticks /\ (StartTick(p) \/ NextRule(p))
    \/ /\ p \in Requests
       /\ \E r \in Rules, new \in Rule, v \in 0..MaxVersion : StartRequest(p, r, new, v)

StepJob(p) ==
    \/ Reset(p) \/ Upsert(p) \/ Cutoff(p) \/ LoopDone(p) \/ Mark(p)
    \/ ReadHistory(p) \/ Insert(p) \/ Reactivate(p)
    \/ ReadWithdrawable(p) \/ Withdraw(p)
    \/ ReadRewritable(p) \/ Rewrite(p)
    \/ QueryStragglers(p) \/ Sweep(p)

\* The process is killed, or a store call fails for good.
DieJob(p) ==
    /\ p \in Mortal
    /\ Busy(p)
    /\ job' = [job EXCEPT ![p] = Idle]
    /\ NoStoreWrite

\* Everybody else: the bots, the user's own row writes and settings, the clock.
Others ==
    /\ BotStep \/ UserStep \/ Tick
    /\ UNCHANGED <<version, through, job>>

StoreState == <<rows, slots, rules, ruledays, userCutoff, version, through>>

TickRuns(p) == (StartJob(p) \/ StepJob(p)) /\ UNCHANGED calm

MNext ==
    \/ \E p \in Jobs : StartJob(p) /\ calm' = calm \cup {p}
    \/ \E p \in Jobs : /\ StepJob(p)
                       /\ calm' = IF StoreState' = StoreState THEN calm ELSE calm \cap {p}
    \/ \E p \in Jobs : DieJob(p) /\ calm' = calm \ {p}
    \/ Others /\ calm' = IF StoreState' = StoreState THEN calm ELSE {}

MSpec == MInit /\ [][MNext]_allVars
-----------------------------------------------------------------------------
(* Properties *)

\* A date the rule is to book: covered, open and not frozen.
Due(r, d) == CoveredBy(r, d) /\ ~DateClosed(d) /\ ~Frozen(d, RuleCutoffAt(<<r, d>>))

\* What a full walk leaves: a row for every due date, no withdrawn one on a free
\* date, and every unleased row on the cutoff instant the settings give it now.
Repaired(r, d) ==
    LET row == rows[<<r, d>>]
    IN  /\ Due(r, d) => /\ row.status # "absent"
                        /\ row.status = "withdrawn" => slots[d] # NoRow
        /\ row.status \in CutoffRewriteStatuses /\ d >= Today /\ ~row.live
              => row.cutoff = RuleCutoffAt(<<r, d>>)

\* The full walk repairs whatever an interrupted edit, a stale form, a killed
\* tick or a race left behind (materialize_rule: "Materialize the FULL horizon
\* ..., never only the dates after the watermark").  Judged when the walk is
\* about to set the watermark and nobody wrote beside it.
WalkRepairs ==
    \A p \in calm : At(p, "mark") =>
        \A d \in DatesForRule(job[p].new, job[p].today) : Repaired(job[p].rule, d)

\* An edit of a rule's window and cutoff reaches every row that is still to be
\* booked, also a row that only the new cutoff re-opens (_edit_window's order).
EditReachesRows ==
    \A p \in calm \cap Requests :
        At(p, "mark") /\ job[p].old.active /\ job[p].old.weekday = job[p].new.weekday =>
            \A d \in DatesForRule(job[p].new, job[p].today) :
                LET row == rows[<<job[p].rule, d>>]
                IN  row.status = "pending" /\ ~Frozen(d, row.cutoff) /\ ~row.live
                      => row.want = job[p].new.want

\* A deactivation has withdrawn every row it may withdraw before it writes the
\* rule inactive: what is left is leased (_deactivate, round-4 D1).
DeactivationWithdraws ==
    \A p \in calm \cap Requests :
        At(p, "upsert") /\ job[p].old.active /\ ~job[p].new.active =>
            \A d \in DatesForRule(job[p].old, job[p].today) :
                rows[<<job[p].rule, d>>].status \in {"pending", "superseded"}
                  => LeaseHeld(<<job[p].rule, d>>)

\* Stragglers are withdrawn in the end: no row stays unleased, pending or
\* superseded under a rule that does not cover it (the tick's sweep).
MFairSpec == MSpec /\ \A p \in Ticks : WF_allVars(TickRuns(p))
StragglersGo == \A id \in RowIds : []<>(id \notin Stragglers)

\* materialize.py 111-112: an own row that is superseded means that another row
\* holds the slot, so a due date is never left without an active row.
SupersededIsHeld ==
    (\A p \in Jobs : ~Busy(p)) =>
        \A r \in Rules, d \in Dates :
            Due(r, d) /\ rows[<<r, d>>].status = "superseded" => slots[d] # NoRow
=============================================================================
