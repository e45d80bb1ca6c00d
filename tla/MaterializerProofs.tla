-------------------------- MODULE MaterializerProofs --------------------------
(***************************************************************************)
(* The materializer's programs only ever write through the store: whatever *)
(* their number, wherever they die and whichever copies they carry, each   *)
(* of their calls is one step of TenantRows or none.  So everything proved *)
(* of the rows holds of the rows beside ticks and edits.  The invariant    *)
(* this takes says what a job may still have to do, and with what.         *)
(***************************************************************************)
EXTENDS Materializer, TenantRowsProofs, WellFoundedInduction

-----------------------------------------------------------------------------
(* Plans: what a job may still have to do *)

QueryPlan == <<"query", "sweep">>
SweepPlan == <<"sweep">>
\* A rule within a tick.
TickWalk == <<"walk", "mark", "rules", "query", "sweep">>
TickMark == <<"mark", "rules", "query", "sweep">>
\* A deactivation.
Deactivate == <<"reset", "withdraw", "reset", "upsert">>
Withdrawal == <<"withdraw", "reset", "upsert">>
LastReset  == <<"reset", "upsert">>
LastUpsert == <<"upsert">>
\* A creation or reactivation, a move to another weekday, an edit in place.
Activate    == <<"upsert", "cutoff", "walk", "mark">>
Move        == <<"upsert", "withdraw", "cutoff", "walk", "mark">>
MoveWithdraw == <<"withdraw", "cutoff", "walk", "mark">>
Edit        == <<"upsert", "cutoff", "rewrite", "cutoff", "walk", "mark">>
EditCutoff  == <<"cutoff", "rewrite", "cutoff", "walk", "mark">>
EditRewrite == <<"rewrite", "cutoff", "walk", "mark">>
LastCutoff  == <<"cutoff", "walk", "mark">>
LastWalk    == <<"walk", "mark">>
LastMark    == <<"mark">>

\* Plans that are about no rule.
TickPlans == {<<>>, TickPlan, QueryPlan, SweepPlan}
DeactivatePlans == {Deactivate, Withdrawal, LastReset}
\* Plans with the write of the rule still to come, and after it.
UpsertPlans == DeactivatePlans \cup {LastUpsert, Activate, Move, Edit}
WrittenPlans == {RulePlan, TickWalk, TickMark, MoveWithdraw, EditCutoff, EditRewrite,
                 LastCutoff, LastWalk, LastMark}
RulePlans == UpsertPlans \cup WrittenPlans
Plans == TickPlans \cup RulePlans

\* Where a plan goes from its first call.
PlanGoes(plan) ==
    CASE Head(plan) = "reset"    -> \/ plan = Deactivate /\ Tail(plan) = Withdrawal
                                    \/ plan = LastReset /\ Tail(plan) = LastUpsert
      [] Head(plan) = "withdraw" -> \/ plan = Withdrawal /\ Tail(plan) = LastReset
                                    \/ plan = MoveWithdraw /\ Tail(plan) = LastCutoff
      [] Head(plan) = "upsert"   -> \/ plan = LastUpsert /\ Tail(plan) = <<>>
                                    \/ plan = Activate /\ Tail(plan) = LastCutoff
                                    \/ plan = Move /\ Tail(plan) = MoveWithdraw
                                    \/ plan = Edit /\ Tail(plan) = EditCutoff
      [] Head(plan) = "cutoff"   -> \/ plan = RulePlan /\ Tail(plan) = TickWalk
                                    \/ plan = EditCutoff /\ Tail(plan) = EditRewrite
                                    \/ plan = LastCutoff /\ Tail(plan) = LastWalk
      [] Head(plan) = "rewrite"  -> plan = EditRewrite /\ Tail(plan) = LastCutoff
      [] Head(plan) = "walk"     -> \/ plan = TickWalk /\ Tail(plan) = TickMark
                                    \/ plan = LastWalk /\ Tail(plan) = LastMark
      [] Head(plan) = "mark"     -> \/ plan = TickMark /\ Tail(plan) = TickPlan
                                    \/ plan = LastMark /\ Tail(plan) = <<>>
      [] Head(plan) = "rules"    -> plan = TickPlan /\ Tail(plan) = QueryPlan
      [] Head(plan) = "query"    -> plan = QueryPlan /\ Tail(plan) = SweepPlan
      [] Head(plan) = "sweep"    -> plan = SweepPlan /\ Tail(plan) = <<>>
      [] OTHER -> FALSE

LEMMA PlanStep ==
  ASSUME NEW plan \in Plans, plan # <<>>
  PROVE  PlanGoes(plan)
<1>1. /\ Head(Deactivate) = "reset" /\ Tail(Deactivate) = Withdrawal
      /\ Head(Withdrawal) = "withdraw" /\ Tail(Withdrawal) = LastReset
      /\ Head(LastReset) = "reset" /\ Tail(LastReset) = LastUpsert
      /\ Head(LastUpsert) = "upsert" /\ Tail(LastUpsert) = <<>>
  BY DEF Deactivate, Withdrawal, LastReset, LastUpsert
<1>2. /\ Head(Activate) = "upsert" /\ Tail(Activate) = LastCutoff
      /\ Head(Move) = "upsert" /\ Tail(Move) = MoveWithdraw
      /\ Head(MoveWithdraw) = "withdraw" /\ Tail(MoveWithdraw) = LastCutoff
  BY DEF Activate, LastCutoff, Move, MoveWithdraw
<1>3. /\ Head(Edit) = "upsert" /\ Tail(Edit) = EditCutoff
      /\ Head(EditCutoff) = "cutoff" /\ Tail(EditCutoff) = EditRewrite
      /\ Head(EditRewrite) = "rewrite" /\ Tail(EditRewrite) = LastCutoff
  BY DEF Edit, EditCutoff, EditRewrite, LastCutoff
<1>4. /\ Head(LastCutoff) = "cutoff" /\ Tail(LastCutoff) = LastWalk
      /\ Head(LastWalk) = "walk" /\ Tail(LastWalk) = LastMark
      /\ Head(LastMark) = "mark" /\ Tail(LastMark) = <<>>
  BY DEF LastCutoff, LastWalk, LastMark
<1>5. /\ Head(RulePlan) = "cutoff" /\ Tail(RulePlan) = TickWalk
      /\ Head(TickWalk) = "walk" /\ Tail(TickWalk) = TickMark
      /\ Head(TickMark) = "mark" /\ Tail(TickMark) = TickPlan
  BY DEF RulePlan, TickWalk, TickMark, TickPlan
<1>6. /\ Head(TickPlan) = "rules" /\ Tail(TickPlan) = QueryPlan
      /\ Head(QueryPlan) = "query" /\ Tail(QueryPlan) = SweepPlan
      /\ Head(SweepPlan) = "sweep" /\ Tail(SweepPlan) = <<>>
  BY DEF TickPlan, QueryPlan, SweepPlan
<1>7. CASE plan \in {Deactivate, Withdrawal, LastReset, LastUpsert}
  BY <1>1, <1>7 DEF PlanGoes
<1>8. CASE plan \in {Activate, Move, MoveWithdraw}
  BY <1>2, <1>8 DEF PlanGoes
<1>9. CASE plan \in {Edit, EditCutoff, EditRewrite}
  BY <1>3, <1>9 DEF PlanGoes
<1>10. CASE plan \in {LastCutoff, LastWalk, LastMark}
  BY <1>4, <1>10 DEF PlanGoes
<1>11. CASE plan \in {RulePlan, TickWalk, TickMark}
  BY <1>5, <1>11 DEF PlanGoes
<1>12. CASE plan \in {TickPlan, QueryPlan, SweepPlan}
  BY <1>6, <1>12 DEF PlanGoes
<1>13. QED
  BY <1>7, <1>8, <1>9, <1>10, <1>11, <1>12
     DEF Plans, TickPlans, RulePlans, UpsertPlans, WrittenPlans, DeactivatePlans

RuleCalls == {"reset", "withdraw", "upsert", "cutoff", "rewrite", "walk", "mark"}

LEMMA PlanKinds ==
  /\ \A plan \in RulePlans : plan # <<>> /\ Head(plan) \in RuleCalls
  /\ \A plan \in TickPlans : plan # <<>> => Head(plan) \notin RuleCalls
  /\ TickPlans \cap RulePlans = {}
  /\ UpsertPlans \cap WrittenPlans = {}
  /\ {LastUpsert, Activate, Move, Edit} \cap DeactivatePlans = {}
<1>1. \A plan \in UpsertPlans : /\ plan # <<>> /\ Head(plan) \in RuleCalls
  <2>1. \A plan \in DeactivatePlans : plan # <<>> /\ Head(plan) \in RuleCalls
    BY DEF DeactivatePlans, Deactivate, Withdrawal, LastReset, RuleCalls
  <2>2. \A plan \in {LastUpsert, Activate, Move, Edit} : plan # <<>> /\ Head(plan) \in RuleCalls
    BY DEF LastUpsert, Activate, Move, Edit, RuleCalls
  <2>3. QED
    BY <2>1, <2>2 DEF UpsertPlans
<1>2. \A plan \in WrittenPlans : plan # <<>> /\ Head(plan) \in RuleCalls
  <2>1. \A plan \in {RulePlan, TickWalk, TickMark} : plan # <<>> /\ Head(plan) \in RuleCalls
    BY DEF RulePlan, TickWalk, TickMark, RuleCalls
  <2>2. \A plan \in {MoveWithdraw, EditCutoff, EditRewrite} : plan # <<>> /\ Head(plan) \in RuleCalls
    BY DEF MoveWithdraw, EditCutoff, EditRewrite, RuleCalls
  <2>3. \A plan \in {LastCutoff, LastWalk, LastMark} : plan # <<>> /\ Head(plan) \in RuleCalls
    BY DEF LastCutoff, LastWalk, LastMark, RuleCalls
  <2>4. QED
    BY <2>1, <2>2, <2>3 DEF WrittenPlans
<1>3. \A plan \in TickPlans : plan # <<>> => Head(plan) \notin RuleCalls
  BY DEF TickPlans, TickPlan, QueryPlan, SweepPlan, RuleCalls
<1>4. UpsertPlans \cap WrittenPlans = {}
  <2>1. \A plan \in DeactivatePlans : Head(plan) = "reset" \/ plan[2] = "reset"
    BY DEF DeactivatePlans, Deactivate, Withdrawal, LastReset
  <2>2. \A plan \in {LastUpsert, Activate, Move, Edit} : Head(plan) = "upsert"
    BY DEF LastUpsert, Activate, Move, Edit
  <2>3. \A plan \in {RulePlan, TickWalk, TickMark} :
          Head(plan) \notin {"reset", "upsert"} /\ plan[2] # "reset"
    BY DEF RulePlan, TickWalk, TickMark
  <2>4. \A plan \in {MoveWithdraw, EditCutoff, EditRewrite} :
          Head(plan) \notin {"reset", "upsert"} /\ plan[2] # "reset"
    BY DEF MoveWithdraw, EditCutoff, EditRewrite
  <2>5. \A plan \in {LastCutoff, LastWalk} :
          Head(plan) \notin {"reset", "upsert"} /\ plan[2] # "reset"
    BY DEF LastCutoff, LastWalk
  <2>6. LastMark \notin UpsertPlans
    BY DEF LastMark, UpsertPlans, DeactivatePlans, Deactivate, Withdrawal, LastReset,
           LastUpsert, Activate, Move, Edit
  <2>7. QED
    BY <2>1, <2>2, <2>3, <2>4, <2>5, <2>6 DEF UpsertPlans, WrittenPlans
<1>5. {LastUpsert, Activate, Move, Edit} \cap DeactivatePlans = {}
  BY DEF DeactivatePlans, Deactivate, Withdrawal, LastReset, LastUpsert, Activate, Move, Edit
<1>6. QED
  BY <1>1, <1>2, <1>3, <1>4, <1>5 DEF RulePlans

LEMMA EditPlanType ==
  ASSUME NEW old \in Rule, NEW new \in Rule
  PROVE  /\ EditPlan(old, new) \in UpsertPlans
         /\ EditPlan(old, new) # <<>>
         /\ old.active /\ ~new.active => EditPlan(old, new) = Deactivate
         /\ ~old.active /\ ~new.active => EditPlan(old, new) = LastUpsert
         /\ old.active /\ new.active /\ old.weekday = new.weekday => EditPlan(old, new) = Edit
<1> DEFINE plan == EditPlan(old, new)
<1>1. old.active /\ ~new.active => plan = Deactivate
  BY DEF EditPlan, Deactivate
<1>2. ~old.active /\ ~new.active => plan = LastUpsert
  BY DEF EditPlan, LastUpsert
<1>3. ~old.active /\ new.active => plan = Activate
  BY DEF EditPlan, Activate
<1>4. old.active /\ new.active => plan = IF old.weekday # new.weekday THEN Move ELSE Edit
  BY DEF EditPlan, Move, Edit
<1> HIDE DEF plan
<1>5. plan \in UpsertPlans
  BY <1>1, <1>2, <1>3, <1>4 DEF UpsertPlans, DeactivatePlans
<1>6. plan # <<>>
  BY <1>5, PlanKinds DEF RulePlans
<1>7. QED
  BY <1>1, <1>2, <1>4, <1>5, <1>6 DEF plan
-----------------------------------------------------------------------------
(* What a job is *)

Calls  == {"none", "insert", "reactivate", "withdraw", "rewrite"}
Copy   == [rule : Rules, copy : Rule, ver : Nat, thr : Int]
RuleRowIds == {id \in RowIds : IsRuleRow(id)}
Job == [plan : Plans, rule : Rules \cup {NoRule}, old : Rule, new : Rule, ver : Nat, thr : Int,
        today : Nat, cut : Cutoffs \cup {NoCutoff}, todo : SUBSET Dates, act : Calls, read : Row,
        due : SUBSET Copy, stray : SUBSET RuleRowIds]

\* Whoever is to write about a rule knows which one.
JobOK(j) == j \in Job /\ (j.plan \in RulePlans => j.rule \in Rules)

JobsOK ==
    /\ version \in [Rules -> Nat]
    /\ through \in [Rules -> Int]
    /\ job \in [Jobs -> Job]
    /\ \A p \in Jobs : JobOK(job[p])

LEMMA IdleType == JobOK(Idle) /\ Idle.plan = <<>> /\ Idle.rule = NoRule
<1>1. AnyRule \in Rule
  BY AbsentRowType, TimeAssumption DEF AnyRule, Rule, Weekdays
<1>2. <<>> \in Plans /\ <<>> \notin RulePlans /\ "none" \in Calls
  BY PlanKinds DEF Plans, TickPlans, Calls
<1>3. {} \in SUBSET Dates /\ {} \in SUBSET Copy /\ {} \in SUBSET RuleRowIds
  OBVIOUS
<1>4. Idle \in Job /\ Idle.plan = <<>> /\ Idle.rule = NoRule
  BY <1>1, <1>2, <1>3, AbsentRowType DEF Idle, Job, NoDay
<1>5. QED
  BY <1>2, <1>4 DEF JobOK

LEMMA LoopType ==
  ASSUME NEW j, NEW ph
  PROVE  Loop(j, ph) \in SUBSET Dates
BY DEF Loop, DatesForRule

\* A job that goes on with a plan keeps what it carries and starts the plan's loop.
LEMMA WithPlanFields ==
  ASSUME NEW j \in Job, NEW plan \in Plans, plan # <<>>
  PROVE  LET k == WithPlan(j, plan) IN
         /\ k \in Job
         /\ k.plan = plan /\ k.todo = Loop(j, Head(plan)) /\ k.act = "none"
         /\ k.rule = j.rule /\ k.old = j.old /\ k.new = j.new /\ k.ver = j.ver
         /\ k.today = j.today /\ k.cut = j.cut /\ k.due = j.due /\ k.stray = j.stray
         /\ k.thr = j.thr
<1> DEFINE todo == Loop(j, Head(plan))
           read == AbsentRow
<1>1. todo \in SUBSET Dates /\ read \in Row /\ "none" \in Calls
  BY LoopType, AbsentRowType DEF Calls
<1>2. WithPlan(j, plan) = [j EXCEPT !.plan = plan, !.todo = todo, !.act = "none", !.read = read]
  BY DEF WithPlan
<1> HIDE DEF todo
<1> HIDE DEF read
<1>3. QED
  BY <1>1, <1>2 DEF Job, todo

LEMMA WithPlanType ==
  ASSUME NEW j \in Job, NEW plan \in Plans, plan \in RulePlans => j.rule \in Rules
  PROVE  JobOK(WithPlan(j, plan))
<1>1. CASE plan = <<>>
  BY <1>1, IdleType DEF WithPlan
<1>2. CASE plan # <<>>
  BY <1>2, WithPlanFields DEF JobOK
<1>3. QED
  BY <1>1, <1>2

\* The rest of a plan is a plan, about the same rule.
LEMMA RestType ==
  ASSUME NEW j, JobOK(j), j.plan # <<>>
  PROVE  /\ Tail(j.plan) \in Plans
         /\ Tail(j.plan) \in RulePlans => j.rule \in Rules
         /\ Head(j.plan) \in RuleCalls => j.rule \in Rules /\ j.plan \in RulePlans
<1>1. PlanGoes(j.plan) /\ j.plan \in Plans
  BY PlanStep DEF JobOK, Job
<1>2. Tail(j.plan) \in Plans
  BY <1>1 DEF PlanGoes, Plans, TickPlans, RulePlans, UpsertPlans, DeactivatePlans, WrittenPlans
<1>3. Head(j.plan) \in RuleCalls <=> j.plan \in RulePlans
  BY <1>1, PlanKinds DEF Plans
<1>4. Head(j.plan) \notin RuleCalls => Tail(j.plan) \in TickPlans
  BY <1>1 DEF PlanGoes, RuleCalls, TickPlans
<1>5. QED
  BY <1>2, <1>3, <1>4, PlanKinds DEF JobOK

\* Days are well ordered, so a loop that is not done has a next day.
LEMMA Least ==
  ASSUME NEW S, S \subseteq Nat, S # {}
  PROVE  \E d \in S : \A e \in S : d <= e
<1>1. PICK d \in S : \A e \in S : ~ (<<e, d>> \in OpToRel(<, Nat))
  BY NatLessThanWellFounded, WFMin
<1>2. ASSUME NEW e \in S, e < d PROVE <<e, d>> \in OpToRel(<, Nat)
  <2>1. <<e, d>> \in Nat \X Nat /\ <<e, d>>[1] < <<e, d>>[2]
    BY <1>2
  <2>2. QED
    BY <2>1, Zenon DEF OpToRel
<1>3. \A e \in S : ~ (e < d)
  BY <1>1, <1>2
<1>4. QED
  BY <1>3

LEMMA DayType ==
  ASSUME JobsOK, NEW p \in Jobs, job[p].todo # {}
  PROVE  Day(p) \in job[p].todo /\ Day(p) \in Dates
<1>1. job[p].todo \subseteq Dates
  BY DEF JobsOK, Job
<1>2. \E d \in job[p].todo : \A e \in job[p].todo : d <= e
  BY <1>1, Least, TimeAssumption
<1>3. QED
  BY <1>1, <1>2 DEF Day

\* One job changes, into one that is well formed.
JobStep(p) == \E j : JobOK(j) /\ job' = [job EXCEPT ![p] = j]

LEMMA JobStepKeeps ==
  ASSUME JobsOK, NEW p \in Jobs, JobStep(p),
         version' \in [Rules -> Nat], through' \in [Rules -> Int]
  PROVE  JobsOK'
<1>1. PICK j : JobOK(j) /\ job' = [job EXCEPT ![p] = j]
  BY DEF JobStep
<1>2. j \in Job
  BY <1>1 DEF JobOK
<1>3. \A q \in Jobs : job'[q] = IF q = p THEN j ELSE job[q]
  BY <1>1 DEF JobsOK
<1>4. QED
  BY <1>1, <1>2, <1>3 DEF JobsOK

LEMMA AdvanceStep ==
  ASSUME JobsOK, NEW p \in Jobs, Busy(p), Advance(p)
  PROVE  JobStep(p)
<1>1. JobOK(job[p])
  BY DEF JobsOK
<1>2. JobOK(WithPlan(job[p], Tail(job[p].plan)))
  BY <1>1, RestType, WithPlanType DEF Busy, JobOK
<1>3. QED
  BY <1>2 DEF Advance, JobStep

LEMMA AbortStep ==
  ASSUME JobsOK, NEW p \in Jobs, Abort(p)
  PROVE  JobStep(p)
<1>1. JobOK(WithPlan(job[p], TickPlan))
  <2>1. TickPlan \in Plans /\ TickPlan \notin RulePlans
    BY PlanKinds DEF Plans, TickPlans
  <2>2. QED
    BY <2>1, WithPlanType DEF JobsOK
<1>2. QED
  BY <1>1, IdleType DEF Abort, JobStep

\* The fields a loop replaces.
InLoop(j, todo, act, read) == [j EXCEPT !.todo = todo, !.act = act, !.read = read]

LEMMA LoopFields ==
  ASSUME NEW j \in Job, NEW todo \in SUBSET Dates, NEW act \in Calls, NEW read \in Row
  PROVE  LET k == InLoop(j, todo, act, read) IN
         /\ k \in Job /\ k.todo = todo /\ k.act = act /\ k.read = read
         /\ k.plan = j.plan /\ k.rule = j.rule /\ k.old = j.old /\ k.new = j.new
         /\ k.ver = j.ver /\ k.today = j.today /\ k.cut = j.cut /\ k.thr = j.thr
         /\ k.due = j.due
BY DEF Job, InLoop

LEMMA NextDayJob ==
  ASSUME JobsOK, NEW p \in Jobs, NextDay(p)
  PROVE  job' = [job EXCEPT ![p] = InLoop(@, @.todo \ {Day(p)}, "none", AbsentRow)]
BY DEF NextDay, InLoop, JobsOK, Job

LEMMA DecideJob ==
  ASSUME JobsOK, NEW p \in Jobs, NEW act, act # "none", Decide(p, act)
  PROVE  job' = [job EXCEPT ![p] = InLoop(@, @.todo, act, Own(p))]
BY DEF Decide, InLoop, JobsOK, Job

LEMMA NextDayStep ==
  ASSUME JobsOK, NEW p \in Jobs, NextDay(p)
  PROVE  JobStep(p)
<1> DEFINE todo == job[p].todo \ {Day(p)}
           k == InLoop(job[p], todo, "none", AbsentRow)
<1>1. job' = [job EXCEPT ![p] = k]
  BY NextDayJob
<1>2. JobOK(job[p]) /\ todo \in SUBSET Dates /\ "none" \in Calls
  BY DEF JobsOK, Job, Calls
<1> HIDE DEF todo
<1>3. k \in Job /\ k.plan = job[p].plan /\ k.rule = job[p].rule
  BY <1>2, LoopFields, AbsentRowType DEF JobOK
<1> HIDE DEF k
<1>4. JobOK(k)
  BY <1>2, <1>3 DEF JobOK
<1>5. QED
  BY <1>1, <1>4 DEF JobStep

LEMMA DecideStep ==
  ASSUME JobsOK, NEW p \in Jobs, Own(p) \in Row, NEW act \in Calls, Decide(p, act)
  PROVE  JobStep(p)
<1>1. CASE act = "none"
  BY <1>1, NextDayStep DEF Decide
<1>2. CASE act # "none"
  <2> DEFINE k == InLoop(job[p], job[p].todo, act, Own(p))
  <2>1. job' = [job EXCEPT ![p] = k]
    BY <1>2, DecideJob
  <2>2. JobOK(job[p]) /\ job[p].todo \in SUBSET Dates
    BY DEF JobsOK, Job
  <2>3. k \in Job /\ k.plan = job[p].plan /\ k.rule = job[p].rule
    BY <2>2, LoopFields DEF JobOK
  <2> HIDE DEF k
  <2>4. JobOK(k)
    BY <2>2, <2>3 DEF JobOK
  <2>5. QED
    BY <2>1, <2>4 DEF JobStep
<1>3. QED
  BY <1>1, <1>2
-----------------------------------------------------------------------------
(* Every call of a program is one step of the store, or none *)

StoreStep == Next \/ UNCHANGED vars

ProgramStep(p) ==
    /\ JobStep(p)
    /\ StoreStep
    /\ version' \in [Rules -> Nat]
    /\ through' \in [Rules -> Int]

LEMMA QuietCall ==
  ASSUME JobsOK, NEW p, JobStep(p), NoStoreWrite
  PROVE  ProgramStep(p)
BY DEF NoStoreWrite, ProgramStep, StoreStep, JobsOK

LEMMA RowCall ==
  ASSUME JobsOK, NEW p, JobStep(p), RowsOnly, Next
  PROVE  ProgramStep(p)
BY DEF RowsOnly, ProgramStep, StoreStep, JobsOK

\* Where a job stands, it knows its rule, and in a loop its row.
LEMMA Site ==
  ASSUME JobsOK, NEW p \in Jobs, NEW ph, At(p, ph)
  PROVE  /\ JobOK(job[p]) /\ job[p].plan # <<>> /\ Busy(p)
         /\ ph \in RuleCalls => job[p].rule \in Rules /\ job[p].plan \in RulePlans
         /\ PlanGoes(job[p].plan) /\ Head(job[p].plan) = ph
BY RestType, PlanStep DEF At, Busy, JobsOK, JobOK, Job

LEMMA LoopSite ==
  ASSUME TypeOK, JobsOK, NEW p \in Jobs, NEW ph \in DateLoops, At(p, ph), job[p].todo # {}
  PROVE  /\ job[p].rule \in Rules /\ Day(p) \in Dates /\ Day(p) \in job[p].todo
         /\ OwnId(p) \in RowIds /\ Own(p) \in Row
<1>1. job[p].rule \in Rules
  BY Site DEF DateLoops, RuleCalls
<1>2. Day(p) \in Dates /\ Day(p) \in job[p].todo
  BY DayType
<1>3. OwnId(p) \in RowIds
  BY <1>1, <1>2 DEF OwnId, RowIds, Origins
<1>4. QED
  BY <1>1, <1>2, <1>3, StoredRow DEF Own

LEMMA TodayType ==
  ASSUME TypeOK
  PROVE  Today \in Nat
BY TimeAssumption DEF TypeOK, Today

LEMMA StartRequestStep ==
  ASSUME TypeOK, JobsOK, NEW p \in Jobs, NEW r \in Rules, NEW new \in Rule,
         NEW v \in 0..MaxVersion, StartRequest(p, r, new, v)
  PROVE  ProgramStep(p)
<1> DEFINE old == rules[r]
           thr == through[r]
           j == [Idle EXCEPT !.rule = r, !.old = old, !.new = new, !.ver = v, !.thr = thr,
                             !.today = Today, !.cut = userCutoff]
<1>1. old \in Rule /\ thr \in Int /\ v \in Nat /\ userCutoff \in Cutoffs \cup {NoCutoff}
  BY MaterializerAssumption DEF TypeOK, JobsOK
<1>2. EditPlan(old, new) \in Plans
  BY <1>1, EditPlanType DEF Plans, RulePlans
<1>3. job' = [job EXCEPT ![p] = WithPlan(j, EditPlan(old, new))]
  BY DEF StartRequest
<1> HIDE DEF old, thr
<1>4. j \in Job /\ j.rule = r
  BY <1>1, TodayType, IdleType DEF JobOK, Job
<1> HIDE DEF j
<1>5. JobOK(WithPlan(j, EditPlan(old, new)))
  BY <1>2, <1>4, WithPlanType
<1>6. QED
  BY <1>3, <1>5, QuietCall DEF JobStep, StartRequest

LEMMA StartTickStep ==
  ASSUME TypeOK, JobsOK, NEW p \in Jobs, StartTick(p)
  PROVE  ProgramStep(p)
<1> DEFINE C(r) == [rule |-> r, copy |-> rules[r], ver |-> version[r], thr |-> through[r]]
           short == {r \in Rules : rules[r].active /\ through[r] < Today + Horizon}
           due == {C(r) : r \in short}
           j == [Idle EXCEPT !.plan = TickPlan, !.today = Today, !.due = due]
<1>1. \A r \in Rules : C(r) \in Copy
  BY DEF Copy, TypeOK, JobsOK
<1> HIDE DEF C
<1>2. due \in SUBSET Copy
  BY <1>1
<1>3. job' = [job EXCEPT ![p] = j]
  BY DEF StartTick, C
<1> HIDE DEF due
<1>4. TickPlan \in Plans /\ TickPlan \notin RulePlans
  BY PlanKinds DEF Plans, TickPlans
<1>5. j \in Job /\ j.plan = TickPlan
  BY <1>2, <1>4, TodayType, IdleType DEF JobOK, Job
<1> HIDE DEF j
<1>6. JobOK(j)
  BY <1>4, <1>5 DEF JobOK
<1>7. QED
  BY <1>3, <1>6, QuietCall DEF JobStep, StartTick

LEMMA TakesUpType ==
  ASSUME TypeOK, NEW j \in Job, NEW x \in j.due
  PROVE  LET k == TakesUp(j, x) IN
         /\ k \in Job /\ k.rule = x.rule /\ k.new = x.copy /\ k.ver = x.ver
         /\ k.cut = userCutoff /\ k.today = j.today /\ k.due = j.due \ {x}
         /\ k.rule \in Rules /\ k.old = j.old
<1>1. x \in Copy
  BY DEF Job
<1>2. userCutoff \in Cutoffs \cup {NoCutoff} /\ j.due \ {x} \in SUBSET Copy
  BY DEF TypeOK, Job
<1>3. QED
  BY <1>1, <1>2 DEF TakesUp, Job, Copy

LEMMA NextRuleStep ==
  ASSUME TypeOK, JobsOK, NEW p \in Jobs, NextRule(p)
  PROVE  ProgramStep(p)
<1>1. CASE job[p].due = {}
  BY <1>1, AdvanceStep, QuietCall DEF NextRule, At
<1>2. CASE job[p].due # {}
  <2>1. PICK x \in job[p].due : job' = [job EXCEPT ![p] = WithPlan(TakesUp(job[p], x), RulePlan)]
    BY <1>2 DEF NextRule
  <2>2. RulePlan \in Plans
    BY DEF Plans, RulePlans, WrittenPlans
  <2>3. JobOK(WithPlan(TakesUp(job[p], x), RulePlan))
    BY <2>2, TakesUpType, WithPlanType DEF JobsOK
  <2>4. QED
    BY <2>1, <2>3, QuietCall DEF JobStep, NextRule
<1>3. QED
  BY <1>1, <1>2

LEMMA ResetStep ==
  ASSUME TypeOK, JobsOK, NEW p \in Jobs, Reset(p)
  PROVE  ProgramStep(p)
<1>1. JobStep(p)
  BY AdvanceStep DEF Reset, At
<1>2. through' = [through EXCEPT ![job[p].rule] = NoDay] /\ NoDay \in Int
  BY DEF Reset, NoDay
<1>3. through' \in [Rules -> Int]
  BY <1>2 DEF JobsOK
<1>4. QED
  BY <1>1, <1>3 DEF Reset, ProgramStep, StoreStep, JobsOK

\* A merged watermark is one.
LEMMA MergedType ==
  ASSUME JobsOK, NEW p \in Jobs, job[p].rule \in Rules
  PROVE  MergedThrough(p) \in Int
<1>1. through[job[p].rule] \in Int /\ job[p].thr \in Int /\ NoDay \in Int
  BY DEF JobsOK, Job, NoDay
<1>2. MergedThrough(p) \in {NoDay, job[p].thr, through[job[p].rule]}
  BY Zenon DEF MergedThrough
<1>3. QED
  BY <1>1, <1>2

LEMMA WrittenType ==
  ASSUME NEW j \in Job, NEW thr \in Int
  PROVE  LET k == Written(j, thr) IN
         /\ k \in Job /\ k.plan = j.plan /\ k.rule = j.rule /\ k.old = j.old /\ k.new = j.new
         /\ k.ver = j.ver + 1 /\ k.today = j.today /\ k.cut = j.cut /\ k.due = j.due
<1> DEFINE ver == j.ver + 1
<1>1. ver \in Nat
  BY DEF Job
<1>2. Written(j, thr) = [j EXCEPT !.ver = ver, !.thr = thr]
  BY DEF Written
<1> HIDE DEF ver
<1>3. LET k == [j EXCEPT !.ver = ver, !.thr = thr] IN
      /\ k \in Job /\ k.plan = j.plan /\ k.rule = j.rule /\ k.old = j.old /\ k.new = j.new
      /\ k.ver = ver /\ k.today = j.today /\ k.cut = j.cut /\ k.due = j.due
  BY <1>1 DEF Job
<1>4. QED
  BY <1>2, <1>3 DEF ver

LEMMA UpsertStep ==
  ASSUME TypeOK, JobsOK, NEW p \in Jobs, Upsert(p)
  PROVE  ProgramStep(p)
<1> DEFINE r == job[p].rule
<1>1. /\ At(p, "upsert") /\ r \in Rules /\ JobOK(job[p]) /\ job[p].plan # <<>>
  BY Site DEF Upsert, RuleCalls
<1> DEFINE refused == \/ Stale(p)
                      \/ job[p].new.active /\ FreedRuledays(r)[job[p].new.weekday] \notin {NoRule, r}
<1>2. CASE refused
  BY <1>2, AbortStep, QuietCall DEF Upsert
<1>3. CASE ~refused
  <2>1. /\ UpsertRule(r, job[p].new)
        /\ version' = [version EXCEPT ![r] = @ + 1]
        /\ through' = [through EXCEPT ![r] = MergedThrough(p)]
        /\ job' = [job EXCEPT ![p] = WithPlan(Written(job[p], MergedThrough(p)), Tail(job[p].plan))]
    BY <1>3 DEF Upsert
  <2>2. MergedThrough(p) \in Int
    BY <1>1, MergedType
  <2>3. version' \in [Rules -> Nat] /\ through' \in [Rules -> Int]
    <3>1. /\ version \in [Rules -> Nat] /\ through \in [Rules -> Int]
          /\ version[r] + 1 \in Nat
      BY <1>1 DEF JobsOK
    <3>2. QED
      BY <2>1, <2>2, <3>1
  <2>4. Next
    BY <1>1, <2>1 DEF Next, WebStep, RuleStep, JobOK, Job
  <2>5. JobOK(WithPlan(Written(job[p], MergedThrough(p)), Tail(job[p].plan)))
    BY <1>1, <2>2, RestType, WrittenType, WithPlanType DEF JobOK
  <2>6. QED
    BY <2>1, <2>3, <2>4, <2>5 DEF ProgramStep, JobStep, StoreStep
<1>4. QED
  BY <1>2, <1>3

LEMMA CutoffCallStep ==
  ASSUME TypeOK, JobsOK, NEW p \in Jobs, Cutoff(p)
  PROVE  ProgramStep(p)
<1>1. job[p].rule \in Rules /\ Busy(p)
  BY Site DEF Cutoff, RuleCalls
<1>2. CASE Stale(p)
  BY <1>2, AbortStep, QuietCall DEF Cutoff
<1>3. CASE ~Stale(p)
  <2>1. Next
    BY <1>1, <1>3 DEF Cutoff, Next, WebStep, RuleStep
  <2>2. QED
    BY <1>1, <1>3, <2>1, AdvanceStep, RowCall DEF Cutoff
<1>4. QED
  BY <1>2, <1>3

LEMMA LoopDoneStep ==
  ASSUME TypeOK, JobsOK, NEW p \in Jobs, LoopDone(p)
  PROVE  ProgramStep(p)
BY AdvanceStep, QuietCall DEF LoopDone, At

LEMMA MarkStep ==
  ASSUME TypeOK, JobsOK, NEW p \in Jobs, Mark(p)
  PROVE  ProgramStep(p)
<1>1. JobStep(p)
  BY AdvanceStep DEF Mark, At
<1>2. HorizonEnd(p) \in Int
  BY MaterializerAssumption DEF HorizonEnd, JobsOK, Job
<1>3. through' \in [Rules -> Int]
  BY <1>2 DEF Mark, JobsOK
<1>4. QED
  BY <1>1, <1>3 DEF Mark, ProgramStep, StoreStep, JobsOK

LEMMA ReadStep ==
  ASSUME TypeOK, JobsOK, NEW p \in Jobs,
         ReadHistory(p) \/ ReadWithdrawable(p) \/ ReadRewritable(p)
  PROVE  ProgramStep(p)
<1>1. \E ph \in DateLoops : At(p, ph)
  BY DEF ReadHistory, ReadWithdrawable, ReadRewritable, Visits, DateLoops
<1>2. job[p].todo # {}
  BY DEF ReadHistory, ReadWithdrawable, ReadRewritable, Visits
<1>3. Own(p) \in Row
  BY <1>1, <1>2, LoopSite
<1>4. Classify(p) \in Calls
  BY DEF Classify, Calls
<1>5. PICK act \in Calls : Decide(p, act)
  BY <1>4 DEF ReadHistory, ReadWithdrawable, ReadRewritable, Calls
<1>6. QED
  BY <1>3, <1>5, DecideStep, QuietCall DEF ReadHistory, ReadWithdrawable, ReadRewritable

LEMMA WriteStep ==
  ASSUME TypeOK, JobsOK, NEW p \in Jobs,
         Insert(p) \/ Reactivate(p) \/ Withdraw(p) \/ Rewrite(p)
  PROVE  ProgramStep(p)
<1>1. \E ph \in DateLoops : At(p, ph)
  BY DEF Insert, Reactivate, Withdraw, Rewrite, Visits, DateLoops
<1>2. job[p].todo # {}
  BY DEF Insert, Reactivate, Withdraw, Rewrite, Visits
<1>3. job[p].rule \in Rules /\ Day(p) \in Dates
  BY <1>1, <1>2, LoopSite
<1>4. \/ NextDay(p) /\ NoStoreWrite
      \/ Abort(p) /\ NoStoreWrite
      \/ /\ NextDay(p) /\ RowsOnly
         /\ \/ InsertRuleRow(job[p].rule, Day(p)) \/ ReactivateRuleRow(job[p].rule, Day(p))
            \/ WithdrawRuleRow(job[p].rule, Day(p)) \/ RewritePendingRuleRow(job[p].rule, Day(p))
  BY DEF Insert, Reactivate, Withdraw, Rewrite
<1>5. \/ InsertRuleRow(job[p].rule, Day(p)) \/ ReactivateRuleRow(job[p].rule, Day(p))
      \/ WithdrawRuleRow(job[p].rule, Day(p)) \/ RewritePendingRuleRow(job[p].rule, Day(p))
      => Next
  BY <1>3 DEF Next, MaterializerStep
<1>6. QED
  BY <1>4, <1>5, NextDayStep, AbortStep, QuietCall, RowCall

\* A job with other stragglers is a job.
StrayFields(j, stray) == [j EXCEPT !.stray = stray]

LEMMA StrayType ==
  ASSUME NEW j, JobOK(j), NEW stray \in SUBSET RuleRowIds
  PROVE  LET k == StrayFields(j, stray) IN
         /\ JobOK(k) /\ k.plan = j.plan /\ k.rule = j.rule /\ k.old = j.old /\ k.new = j.new
         /\ k.ver = j.ver /\ k.today = j.today /\ k.cut = j.cut /\ k.todo = j.todo
         /\ k.act = j.act /\ k.due = j.due
BY DEF StrayFields, JobOK, Job

LEMMA QueryStep ==
  ASSUME TypeOK, JobsOK, NEW p \in Jobs, QueryStragglers(p)
  PROVE  ProgramStep(p)
<1> DEFINE k == WithPlan(job[p], Tail(job[p].plan))
           stray == Stragglers
<1>1. JobOK(k)
  BY Site, RestType, WithPlanType DEF QueryStragglers, JobOK
<1>2. stray \in SUBSET RuleRowIds
  BY DEF Stragglers, RuleRowIds
<1>3. job' = [job EXCEPT ![p] = StrayFields(k, stray)]
  BY DEF QueryStragglers, StrayFields
<1> HIDE DEF k, stray
<1>4. JobStep(p)
  BY <1>1, <1>2, <1>3, StrayType DEF JobStep
<1>5. QED
  BY <1>4, QuietCall DEF QueryStragglers

LEMMA SweepStep ==
  ASSUME TypeOK, JobsOK, NEW p \in Jobs, Sweep(p)
  PROVE  ProgramStep(p)
<1>1. CASE job[p].stray = {} /\ Advance(p) /\ NoStoreWrite
  BY <1>1, AdvanceStep, QuietCall DEF Sweep, At
<1>2. CASE \E id \in job[p].stray :
             /\ job' = [job EXCEPT ![p].stray = @ \ {id}]
             /\ \/ WithdrawRuleRow(OriginOf(id), DateOf(id)) /\ RowsOnly
                \/ NoStoreWrite
  <2>1. PICK id \in job[p].stray :
             /\ job' = [job EXCEPT ![p].stray = @ \ {id}]
             /\ \/ WithdrawRuleRow(OriginOf(id), DateOf(id)) /\ RowsOnly
                \/ NoStoreWrite
    BY <1>2
  <2> DEFINE stray == job[p].stray \ {id}
  <2>2. JobOK(job[p]) /\ stray \in SUBSET RuleRowIds /\ id \in RuleRowIds
    BY DEF JobsOK, Job
  <2>3. job' = [job EXCEPT ![p] = StrayFields(job[p], stray)]
    BY <2>1 DEF StrayFields
  <2> HIDE DEF stray
  <2>4. JobStep(p)
    BY <2>2, <2>3, StrayType DEF JobStep
  <2>5. OriginOf(id) \in Rules /\ DateOf(id) \in Dates
    BY <2>2, RowIdFacts DEF RuleRowIds, IsRuleRow
  <2>6. WithdrawRuleRow(OriginOf(id), DateOf(id)) => Next
    BY <2>5 DEF Next, MaterializerStep
  <2>7. QED
    BY <2>1, <2>4, <2>6, QuietCall, RowCall
<1>3. QED
  BY <1>1, <1>2 DEF Sweep
-----------------------------------------------------------------------------
(* The materializer beside everybody else *)

JobsOfOthers == UNCHANGED <<version, through, job>>

LEMMA StartJobStep ==
  ASSUME TypeOK, JobsOK, NEW p \in Jobs, StartJob(p)
  PROVE  ProgramStep(p)
BY StartTickStep, NextRuleStep, StartRequestStep DEF StartJob

LEMMA StepJobStep ==
  ASSUME TypeOK, JobsOK, NEW p \in Jobs, StepJob(p)
  PROVE  ProgramStep(p)
BY ResetStep, UpsertStep, CutoffCallStep, LoopDoneStep, MarkStep, ReadStep, WriteStep,
   QueryStep, SweepStep DEF StepJob

LEMMA DieJobStep ==
  ASSUME JobsOK, NEW p \in Jobs, DieJob(p)
  PROVE  ProgramStep(p)
BY IdleType, QuietCall DEF DieJob, JobStep

LEMMA MNextStep ==
  ASSUME TypeOK, JobsOK, [MNext]_allVars
  PROVE  /\ [Next]_vars
         /\ (\E p \in Jobs : ProgramStep(p)) \/ JobsOfOthers
<1>1. CASE \E p \in Jobs : StartJob(p) \/ StepJob(p) \/ DieJob(p)
  <2>1. PICK p \in Jobs : ProgramStep(p)
    BY <1>1, StartJobStep, StepJobStep, DieJobStep
  <2>2. QED
    BY <2>1 DEF ProgramStep, StoreStep
<1>2. CASE Others
  BY <1>2 DEF Others, Next, WebStep, JobsOfOthers
<1>3. CASE UNCHANGED allVars
  BY <1>3 DEF allVars, materializerVars, JobsOfOthers
<1>4. QED
  BY <1>1, <1>2, <1>3 DEF MNext

LEMMA JobsKept ==
  ASSUME TypeOK, JobsOK, [MNext]_allVars
  PROVE  TypeOK' /\ JobsOK' /\ [Next]_vars
<1>1. [Next]_vars
  BY MNextStep
<1>2. TypeOK'
  BY <1>1, TypeStep
<1>3. JobsOK'
  <2>1. CASE \E p \in Jobs : ProgramStep(p)
    BY <2>1, JobStepKeeps DEF ProgramStep
  <2>2. CASE JobsOfOthers
    BY <2>2 DEF JobsOfOthers, JobsOK
  <2>3. QED
    BY <2>1, <2>2, MNextStep
<1>4. QED
  BY <1>1, <1>2, <1>3

LEMMA JobsInit == MInit => Init /\ TypeOK /\ JobsOK
<1> SUFFICES ASSUME MInit PROVE Init /\ TypeOK /\ JobsOK
  OBVIOUS
<1>1. Init /\ TypeOK
  BY InitType DEF MInit
<1>2. Idle \in Job /\ JobOK(Idle)
  BY IdleType DEF JobOK
<1>3. JobsOK
  BY <1>2 DEF MInit, JobsOK, NoDay
<1>4. QED
  BY <1>1, <1>3

\* Every state of the materializer is well typed: a job's plan is one the code makes,
\* or what is left of it, and a job that is to write about a rule has one.
THEOREM JobsTyped == MSpec => [](TypeOK /\ JobsOK)
<1>1. QED
  BY JobsInit, JobsKept, PTL DEF MSpec

\* The materializer implements the store: whatever the number of ticks and requests,
\* the copies they carry and the calls they die between, the rows, rules and leases
\* only change as some store call alone may change them (materialize.py, 412-619).
THEOREM MaterializerUsesStore == MSpec => Spec
<1>1. MInit => Init
  BY JobsInit
<1>2. (TypeOK /\ JobsOK) /\ [MNext]_allVars => [Next]_vars
  BY JobsKept
<1>3. QED
  BY <1>1, <1>2, JobsTyped, PTL DEF MSpec, Spec

-----------------------------------------------------------------------------
(***************************************************************************)
(* What a walk, an edit and a deactivation have reached when nobody wrote  *)
(* beside them, for any number of jobs, rules and dates.  The invariant    *)
(* has two halves.  Of every job: the copy of the rule it carries is an    *)
(* earlier version or the stored one, and its plan is one that fits what   *)
(* the request changes.  Of a job nobody wrote beside: the copy is the     *)
(* stored one from its first guarded call on, and every date its loop has  *)
(* left behind is done.                                                    *)
(***************************************************************************)

(* What a call leaves of a job *)

\* A plan is known by its first call and its length.
LEMMA PlanSizes ==
  /\ Head(Deactivate) = "reset" /\ Len(Deactivate) = 4
  /\ Head(Withdrawal) = "withdraw" /\ Len(Withdrawal) = 3
  /\ Head(LastReset) = "reset" /\ Len(LastReset) = 2
  /\ Head(LastUpsert) = "upsert" /\ Len(LastUpsert) = 1
  /\ Head(Activate) = "upsert" /\ Len(Activate) = 4
  /\ Head(Move) = "upsert" /\ Len(Move) = 5
  /\ Head(MoveWithdraw) = "withdraw" /\ Len(MoveWithdraw) = 4
  /\ Head(Edit) = "upsert" /\ Len(Edit) = 6
  /\ Head(EditCutoff) = "cutoff" /\ Len(EditCutoff) = 5
  /\ Head(EditRewrite) = "rewrite" /\ Len(EditRewrite) = 4
  /\ Head(LastCutoff) = "cutoff" /\ Len(LastCutoff) = 3
  /\ Head(LastWalk) = "walk" /\ Len(LastWalk) = 2
  /\ Head(LastMark) = "mark" /\ Len(LastMark) = 1
  /\ Head(RulePlan) = "cutoff" /\ Len(RulePlan) = 6
  /\ Head(TickWalk) = "walk" /\ Len(TickWalk) = 5
  /\ Head(TickMark) = "mark" /\ Len(TickMark) = 4
  /\ Head(TickPlan) = "rules" /\ Len(TickPlan) = 3
  /\ Head(QueryPlan) = "query" /\ Len(QueryPlan) = 2
  /\ Head(SweepPlan) = "sweep" /\ Len(SweepPlan) = 1
  /\ Len(<<>>) = 0
<1>1. /\ Head(Deactivate) = "reset" /\ Len(Deactivate) = 4
      /\ Head(Withdrawal) = "withdraw" /\ Len(Withdrawal) = 3
      /\ Head(LastReset) = "reset" /\ Len(LastReset) = 2
      /\ Head(LastUpsert) = "upsert" /\ Len(LastUpsert) = 1
  BY DEF Deactivate, Withdrawal, LastReset, LastUpsert
<1>2. /\ Head(Activate) = "upsert" /\ Len(Activate) = 4
      /\ Head(Move) = "upsert" /\ Len(Move) = 5
      /\ Head(MoveWithdraw) = "withdraw" /\ Len(MoveWithdraw) = 4
  BY DEF Activate, Move, MoveWithdraw
<1>3. /\ Head(Edit) = "upsert" /\ Len(Edit) = 6
      /\ Head(EditCutoff) = "cutoff" /\ Len(EditCutoff) = 5
      /\ Head(EditRewrite) = "rewrite" /\ Len(EditRewrite) = 4
  BY DEF Edit, EditCutoff, EditRewrite
<1>4. /\ Head(LastCutoff) = "cutoff" /\ Len(LastCutoff) = 3
      /\ Head(LastWalk) = "walk" /\ Len(LastWalk) = 2
      /\ Head(LastMark) = "mark" /\ Len(LastMark) = 1
  BY DEF LastCutoff, LastWalk, LastMark
<1>5. /\ Head(RulePlan) = "cutoff" /\ Len(RulePlan) = 6
      /\ Head(TickWalk) = "walk" /\ Len(TickWalk) = 5
      /\ Head(TickMark) = "mark" /\ Len(TickMark) = 4
  BY DEF RulePlan, TickWalk, TickMark
<1>6. /\ Head(TickPlan) = "rules" /\ Len(TickPlan) = 3
      /\ Head(QueryPlan) = "query" /\ Len(QueryPlan) = 2
      /\ Head(SweepPlan) = "sweep" /\ Len(SweepPlan) = 1
      /\ Len(<<>>) = 0
  BY DEF TickPlan, QueryPlan, SweepPlan
<1>7. QED
  BY <1>1, <1>2, <1>3, <1>4, <1>5, <1>6

\* What a job carries from call to call.
Carries(j, k) ==
    /\ k.rule = j.rule /\ k.old = j.old /\ k.new = j.new /\ k.ver = j.ver
    /\ k.today = j.today /\ k.cut = j.cut /\ k.due = j.due

\* The job k goes on with what is left of j's plan.
GoesOn(j, k) ==
    /\ k.plan = Tail(j.plan)
    /\ k.plan # <<>> => Carries(j, k) /\ k.todo = Loop(j, Head(k.plan)) /\ k.act = "none"
    /\ k.plan = <<>> => k = Idle
\* It goes on with the next date.
Leaves(j, k, d) == k.plan = j.plan /\ Carries(j, k) /\ k.todo = j.todo \ {d} /\ k.act = "none"
Decides(j, k, act) == k.plan = j.plan /\ Carries(j, k) /\ k.todo = j.todo /\ k.act = act
\* It is through with its rule.
GivesUp(j, k) ==
    \/ k = Idle
    \/ k.plan = TickPlan /\ Carries(j, k)

\* The only job a step of p changes.
OnlyJob(p) == \A q \in Jobs \ {p} : job'[q] = job[q]

LEMMA OneJob ==
  ASSUME JobsOK, NEW p \in Jobs, NEW k, job' = [job EXCEPT ![p] = k]
  PROVE  job'[p] = k /\ OnlyJob(p)
BY DEF JobsOK, OnlyJob

LEMMA AdvanceEffect ==
  ASSUME JobsOK, NEW p \in Jobs, Busy(p), Advance(p)
  PROVE  GoesOn(job[p], job'[p]) /\ OnlyJob(p)
<1> DEFINE k == WithPlan(job[p], Tail(job[p].plan))
<1>1. job'[p] = k /\ OnlyJob(p)
  BY OneJob DEF Advance
<1>2. JobOK(job[p]) /\ job[p].plan # <<>> /\ Tail(job[p].plan) \in Plans
  BY RestType DEF Busy, JobsOK
<1>3. CASE Tail(job[p].plan) = <<>>
  BY <1>1, <1>3, IdleType DEF GoesOn, WithPlan
<1>4. CASE Tail(job[p].plan) # <<>>
  <2>1. PICK j \in Job, plan \in Plans : j = job[p] /\ plan = Tail(j.plan) /\ plan # <<>>
    BY <1>2, <1>4 DEF JobOK
  <2> DEFINE next == WithPlan(j, plan)
  <2>2. /\ next.plan = plan /\ next.todo = Loop(j, Head(plan)) /\ next.act = "none"
        /\ Carries(j, next)
    BY <2>1, WithPlanFields DEF Carries
  <2>3. job'[p] = next
    BY <1>1, <2>1
  <2> HIDE DEF next
  <2>4. QED
    BY <1>1, <2>1, <2>2, <2>3 DEF GoesOn
<1>5. QED
  BY <1>3, <1>4, <1>1

LEMMA NextDayEffect ==
  ASSUME JobsOK, NEW p \in Jobs, NextDay(p)
  PROVE  Leaves(job[p], job'[p], Day(p)) /\ OnlyJob(p)
<1> DEFINE todo == job[p].todo \ {Day(p)}
           k == InLoop(job[p], todo, "none", AbsentRow)
<1>1. job'[p] = k /\ OnlyJob(p)
  BY NextDayJob, OneJob
<1>2. job[p] \in Job /\ todo \in SUBSET Dates /\ "none" \in Calls
  BY DEF JobsOK, Job, Calls
<1> HIDE DEF todo
<1>3. Leaves(job[p], k, Day(p))
  BY <1>2, LoopFields, AbsentRowType DEF Leaves, Carries, todo
<1>4. QED
  BY <1>1, <1>3

LEMMA DecideEffect ==
  ASSUME JobsOK, NEW p \in Jobs, Own(p) \in Row, NEW act \in Calls, act # "none", Decide(p, act)
  PROVE  Decides(job[p], job'[p], act) /\ OnlyJob(p)
<1> DEFINE k == InLoop(job[p], job[p].todo, act, Own(p))
<1>1. job'[p] = k /\ OnlyJob(p)
  BY DecideJob, OneJob
<1>2. job[p] \in Job /\ job[p].todo \in SUBSET Dates
  BY DEF JobsOK, Job
<1>3. Decides(job[p], k, act)
  BY <1>2, LoopFields DEF Decides, Carries
<1>4. QED
  BY <1>1, <1>3

LEMMA AbortEffect ==
  ASSUME JobsOK, NEW p \in Jobs, Abort(p)
  PROVE  GivesUp(job[p], job'[p]) /\ OnlyJob(p) /\ (p \notin Ticks => job'[p] = Idle)
<1>1. CASE p \in Ticks
  <2>1. job'[p] = WithPlan(job[p], TickPlan) /\ OnlyJob(p)
    BY <1>1, OneJob DEF Abort
  <2>2. TickPlan \in Plans /\ TickPlan # <<>> /\ job[p] \in Job
    BY PlanSizes DEF Plans, TickPlans, JobsOK
  <2>3. QED
    BY <1>1, <2>1, <2>2, WithPlanFields DEF GivesUp, Carries
<1>2. CASE p \notin Ticks
  BY <1>2, OneJob DEF Abort, GivesUp
<1>3. QED
  BY <1>1, <1>2

-----------------------------------------------------------------------------
(* Every job *)

\* A copy of a rule that still has the stored version is the stored rule.
CopyOK(r, ver, copy) == ver <= version[r] /\ (ver = version[r] => copy = rules[r])

InPlace(j) == j.old.active /\ j.new.active /\ j.old.weekday = j.new.weekday
EditPlans == {Edit, EditCutoff, EditRewrite, LastCutoff, LastWalk, LastMark}
TickRulePlans == {RulePlan, TickWalk, TickMark}
RequestPlans == RulePlans \ TickRulePlans

\* A deactivation never walks, and an edit in place rewrites the windows.
Fits(j) ==
    j.plan \in RequestPlans =>
        /\ ~j.new.active => j.plan \in DeactivatePlans \cup {LastUpsert}
        /\ InPlace(j) => j.plan \in EditPlans

JobFits(j) ==
    /\ Fits(j)
    /\ \A x \in j.due : CopyOK(x.rule, x.ver, x.copy)
    /\ j.plan \in WrittenPlans => CopyOK(j.rule, j.ver, j.new)

JobsFit ==
    /\ \A p \in Jobs : JobFits(job[p])
    /\ \A p \in Requests : job[p].plan \in RequestPlans \cup {<<>>}
-----------------------------------------------------------------------------
(* A job nobody wrote beside *)

CutoffFresh(r, d) ==
    LET row == rows[<<r, d>>]
    IN  row.status \in CutoffRewriteStatuses /\ d >= Today /\ ~row.live
          => row.cutoff = RuleCutoffAt(<<r, d>>)
Placed(r, d) ==
    Due(r, d) => /\ rows[<<r, d>>].status # "absent"
                 /\ rows[<<r, d>>].status = "withdrawn" => slots[d] # NoRow
WantFresh(r, d) ==
    LET row == rows[<<r, d>>]
    IN  row.status = "pending" /\ ~Frozen(d, row.cutoff) /\ ~row.live => row.want = rules[r].want
Gone(r, d) ==
    rows[<<r, d>>].status \in {"pending", "superseded"} => LeaseHeld(<<r, d>>)

WalkPlans == {TickWalk, LastWalk}
MarkPlans == {TickMark, LastMark}
Reached(j) == j.plan \in WrittenPlans \ {RulePlan}

\* What it carries is what is stored.
Knows(j) ==
    /\ j.plan \in RulePlans => j.cut = userCutoff
    /\ Reached(j) => j.ver = version[j.rule]
\* After the cutoffs were rewritten they are the settings'.
CutoffsDone(j) ==
    \/ j.plan \in WalkPlans \cup MarkPlans \cup {EditRewrite}
    \/ j.plan = LastCutoff /\ InPlace(j)
CutoffsOK(j) == CutoffsDone(j) => \A d \in Dates : CutoffFresh(j.rule, d)
\* The walked dates have their rows.
WalkOK(j) ==
    j.plan \in WalkPlans \cup MarkPlans =>
        \A d \in DatesForRule(j.new, j.today) :
            (j.plan \in WalkPlans /\ d \in j.todo) \/ Placed(j.rule, d)
\* The rewritten dates have their windows.
WantsOK(j) ==
    InPlace(j) /\ j.plan \in {EditRewrite, LastCutoff, LastWalk, LastMark} =>
        \A d \in DatesForRule(j.new, j.today) :
            (j.plan = EditRewrite /\ d \in j.todo) \/ WantFresh(j.rule, d)
\* The withdrawn dates are free of the rule.
GoneOK(j) ==
    j.old.active /\ j.plan \in {Withdrawal, LastReset, LastUpsert} =>
        \A d \in DatesForRule(j.old, j.today) :
            (j.plan = Withdrawal /\ d \in j.todo) \/ Gone(j.rule, d)
\* A row that is to be inserted is not there yet.
InsertOK(p) ==
    job[p].plan \in WalkPlans /\ job[p].act = "insert" => Own(p).status = "absent"

Steady(p) ==
    /\ Knows(job[p])
    /\ CutoffsOK(job[p])
    /\ WalkOK(job[p])
    /\ WantsOK(job[p])
    /\ GoneOK(job[p])
    /\ InsertOK(p)

CalmOK == calm \subseteq Jobs /\ \A p \in calm : Steady(p)
-----------------------------------------------------------------------------
(* The copies and the plans *)

LEMMA IdleFits == JobFits(Idle) /\ Idle.plan \notin RulePlans
<1>1. Idle.plan \notin RulePlans /\ Idle.due = {}
  BY IdleType, PlanKinds DEF TickPlans, Idle
<1>2. QED
  BY <1>1 DEF JobFits, Fits, RequestPlans, RulePlans

\* The plans of a deactivation, of an edit in place, of the other requests, of a tick.
LEMMA PlanFamilies ==
  /\ RequestPlans = DeactivatePlans \cup {LastUpsert, Activate, Move, MoveWithdraw} \cup EditPlans
  /\ (DeactivatePlans \cup {LastUpsert}) \cap EditPlans = {}
  /\ {Activate, Move, MoveWithdraw} \cap (DeactivatePlans \cup {LastUpsert} \cup EditPlans) = {}
  /\ TickRulePlans \cap RequestPlans = {}
  /\ TickPlans \cap (RequestPlans \cup WrittenPlans) = {}
<1>1. /\ \A plan \in DeactivatePlans \cup {LastUpsert} : plan \notin TickRulePlans \cup EditPlans
      /\ \A plan \in {Activate, Move, MoveWithdraw} :
            plan \notin DeactivatePlans \cup {LastUpsert} \cup EditPlans \cup TickRulePlans
  BY PlanSizes DEF DeactivatePlans, EditPlans, TickRulePlans
<1>2. \A plan \in EditPlans : plan \notin TickRulePlans
  BY PlanSizes DEF EditPlans, TickRulePlans
<1>3. QED
  BY <1>1, <1>2, PlanKinds DEF RequestPlans, RulePlans, UpsertPlans, WrittenPlans, EditPlans,
                              TickRulePlans

\* What is left of a fitting plan fits.
LEMMA FitsOn ==
  ASSUME NEW j, JobOK(j), Fits(j), j.plan # <<>>, NEW k, k.plan = Tail(j.plan),
         k.plan # <<>> => k.old = j.old /\ k.new = j.new
  PROVE  /\ Fits(k)
         /\ Head(j.plan) # "upsert" /\ k.plan \in WrittenPlans => j.plan \in WrittenPlans
         /\ j.plan \in RequestPlans => k.plan \in RequestPlans \cup {<<>>}
<1>1. PlanGoes(j.plan) /\ j.plan \in Plans
  BY PlanStep DEF JobOK, Job
<1>2. CASE Head(j.plan) = "upsert"
  <2>1. \/ j.plan = LastUpsert /\ k.plan = <<>>
        \/ j.plan = Activate /\ k.plan = LastCutoff
        \/ j.plan = Move /\ k.plan = MoveWithdraw
        \/ j.plan = Edit /\ k.plan = EditCutoff
    BY <1>1, <1>2 DEF PlanGoes
  <2>2. CASE j.plan = LastUpsert /\ k.plan = <<>>
    BY <1>2, <2>2, PlanFamilies
       DEF Fits, InPlace, EditPlans, DeactivatePlans, WrittenPlans, TickRulePlans, TickPlans
  <2>3. CASE j.plan = Activate /\ k.plan = LastCutoff
    BY <1>2, <2>3, PlanFamilies
       DEF Fits, InPlace, EditPlans, DeactivatePlans, WrittenPlans, TickRulePlans, TickPlans
  <2>4. CASE j.plan = Move /\ k.plan = MoveWithdraw
    BY <1>2, <2>4, PlanFamilies
       DEF Fits, InPlace, EditPlans, DeactivatePlans, WrittenPlans, TickRulePlans, TickPlans
  <2>5. CASE j.plan = Edit /\ k.plan = EditCutoff
    BY <1>2, <2>5, PlanFamilies
       DEF Fits, InPlace, EditPlans, DeactivatePlans, WrittenPlans, TickRulePlans, TickPlans
  <2>6. QED
    BY <2>1, <2>2, <2>3, <2>4, <2>5
<1>3. CASE Head(j.plan) \in {"reset", "withdraw"}
  <2>1. \/ j.plan = Deactivate /\ k.plan = Withdrawal
        \/ j.plan = LastReset /\ k.plan = LastUpsert
        \/ j.plan = Withdrawal /\ k.plan = LastReset
        \/ j.plan = MoveWithdraw /\ k.plan = LastCutoff
    BY <1>1, <1>3 DEF PlanGoes
  <2>2. CASE j.plan = Deactivate /\ k.plan = Withdrawal
    BY <1>3, <2>2, PlanFamilies
       DEF Fits, InPlace, EditPlans, DeactivatePlans, WrittenPlans, TickRulePlans, TickPlans
  <2>3. CASE j.plan = LastReset /\ k.plan = LastUpsert
    BY <1>3, <2>3, PlanFamilies
       DEF Fits, InPlace, EditPlans, DeactivatePlans, WrittenPlans, TickRulePlans, TickPlans
  <2>4. CASE j.plan = Withdrawal /\ k.plan = LastReset
    BY <1>3, <2>4, PlanFamilies
       DEF Fits, InPlace, EditPlans, DeactivatePlans, WrittenPlans, TickRulePlans, TickPlans
  <2>5. CASE j.plan = MoveWithdraw /\ k.plan = LastCutoff
    BY <1>3, <2>5, PlanFamilies
       DEF Fits, InPlace, EditPlans, DeactivatePlans, WrittenPlans, TickRulePlans, TickPlans
  <2>6. QED
    BY <2>1, <2>2, <2>3, <2>4, <2>5
<1>4. CASE Head(j.plan) \in {"cutoff", "rewrite"}
  <2>1. \/ j.plan = RulePlan /\ k.plan = TickWalk
        \/ j.plan = EditCutoff /\ k.plan = EditRewrite
        \/ j.plan = LastCutoff /\ k.plan = LastWalk
        \/ j.plan = EditRewrite /\ k.plan = LastCutoff
    BY <1>1, <1>4 DEF PlanGoes
  <2>2. CASE j.plan = RulePlan /\ k.plan = TickWalk
    BY <1>4, <2>2, PlanFamilies
       DEF Fits, InPlace, EditPlans, DeactivatePlans, WrittenPlans, TickRulePlans, TickPlans
  <2>3. CASE j.plan = EditCutoff /\ k.plan = EditRewrite
    BY <1>4, <2>3, PlanFamilies
       DEF Fits, InPlace, EditPlans, DeactivatePlans, WrittenPlans, TickRulePlans, TickPlans
  <2>4. CASE j.plan = LastCutoff /\ k.plan = LastWalk
    BY <1>4, <2>4, PlanFamilies
       DEF Fits, InPlace, EditPlans, DeactivatePlans, WrittenPlans, TickRulePlans, TickPlans
  <2>5. CASE j.plan = EditRewrite /\ k.plan = LastCutoff
    BY <1>4, <2>5, PlanFamilies
       DEF Fits, InPlace, EditPlans, DeactivatePlans, WrittenPlans, TickRulePlans, TickPlans
  <2>6. QED
    BY <2>1, <2>2, <2>3, <2>4, <2>5
<1>5. CASE Head(j.plan) \in {"walk", "mark"}
  <2>1. \/ j.plan = TickWalk /\ k.plan = TickMark
        \/ j.plan = LastWalk /\ k.plan = LastMark
        \/ j.plan = TickMark /\ k.plan = TickPlan
        \/ j.plan = LastMark /\ k.plan = <<>>
    BY <1>1, <1>5 DEF PlanGoes
  <2>2. CASE j.plan = TickWalk /\ k.plan = TickMark
    BY <1>5, <2>2, PlanFamilies
       DEF Fits, InPlace, EditPlans, DeactivatePlans, WrittenPlans, TickRulePlans, TickPlans
  <2>3. CASE j.plan = LastWalk /\ k.plan = LastMark
    BY <1>5, <2>3, PlanFamilies
       DEF Fits, InPlace, EditPlans, DeactivatePlans, WrittenPlans, TickRulePlans, TickPlans
  <2>4. CASE j.plan = TickMark /\ k.plan = TickPlan
    BY <1>5, <2>4, PlanFamilies
       DEF Fits, InPlace, EditPlans, DeactivatePlans, WrittenPlans, TickRulePlans, TickPlans
  <2>5. CASE j.plan = LastMark /\ k.plan = <<>>
    BY <1>5, <2>5, PlanFamilies
       DEF Fits, InPlace, EditPlans, DeactivatePlans, WrittenPlans, TickRulePlans, TickPlans
  <2>6. QED
    BY <2>1, <2>2, <2>3, <2>4, <2>5
<1>6. CASE Head(j.plan) \in {"rules", "query", "sweep"}
  <2>1. \/ j.plan = TickPlan /\ k.plan = QueryPlan
        \/ j.plan = QueryPlan /\ k.plan = SweepPlan
        \/ j.plan = SweepPlan /\ k.plan = <<>>
    BY <1>1, <1>6 DEF PlanGoes
  <2>2. CASE j.plan = TickPlan /\ k.plan = QueryPlan
    BY <1>6, <2>2, PlanFamilies
       DEF Fits, InPlace, EditPlans, DeactivatePlans, WrittenPlans, TickRulePlans, TickPlans
  <2>3. CASE j.plan = QueryPlan /\ k.plan = SweepPlan
    BY <1>6, <2>3, PlanFamilies
       DEF Fits, InPlace, EditPlans, DeactivatePlans, WrittenPlans, TickRulePlans, TickPlans
  <2>4. CASE j.plan = SweepPlan /\ k.plan = <<>>
    BY <1>6, <2>4, PlanFamilies
       DEF Fits, InPlace, EditPlans, DeactivatePlans, WrittenPlans, TickRulePlans, TickPlans
  <2>5. QED
    BY <2>1, <2>2, <2>3, <2>4
<1>7. QED
  BY <1>1, <1>2, <1>3, <1>4, <1>5, <1>6 DEF PlanGoes

LEMMA GoesOnFits ==
  ASSUME NEW j, JobOK(j), JobFits(j), j.plan # <<>>, Head(j.plan) # "upsert", NEW k, GoesOn(j, k)
  PROVE  JobFits(k) /\ (j.plan \in RequestPlans => k.plan \in RequestPlans \cup {<<>>})
<1>1. CASE k.plan = <<>>
  BY <1>1, IdleFits DEF GoesOn
<1>2. CASE k.plan # <<>>
  BY <1>2, FitsOn DEF GoesOn, Carries, JobFits
<1>3. QED
  BY <1>1, <1>2

LEMMA SamePlanFits ==
  ASSUME NEW j, JobFits(j), NEW k, k.plan = j.plan, Carries(j, k)
  PROVE  JobFits(k)
BY DEF JobFits, Fits, InPlace, Carries

LEMMA GivesUpFits ==
  ASSUME NEW j, JobFits(j), NEW k, GivesUp(j, k)
  PROVE  JobFits(k)
<1>1. TickPlan \notin RulePlans
  BY PlanKinds DEF TickPlans
<1>2. QED
  BY <1>1, IdleFits DEF GivesUp, JobFits, Fits, Carries, RequestPlans, RulePlans

\* The one call that writes a rule.
Upserted(p) ==
    LET j == job[p]
        k == job'[p]
    IN  /\ ~Stale(p) /\ j.rule \in Rules
        /\ rules' = [rules EXCEPT ![j.rule] = j.new]
        /\ version' = [version EXCEPT ![j.rule] = @ + 1]
        /\ UNCHANGED <<rows, slots, userCutoff, now>>
        /\ k.plan = Tail(j.plan)
        /\ k.plan # <<>> =>
              /\ k.rule = j.rule /\ k.old = j.old /\ k.new = j.new /\ k.ver = j.ver + 1
              /\ k.today = j.today /\ k.cut = j.cut /\ k.due = j.due
              /\ k.todo = Loop(j, Head(k.plan)) /\ k.act = "none"
        /\ k.plan = <<>> => k = Idle

LEMMA UpsertEffect ==
  ASSUME TypeOK, JobsOK, NEW p \in Jobs, Upsert(p)
  PROVE  /\ OnlyJob(p)
         /\ \/ Upserted(p)
            \/ /\ GivesUp(job[p], job'[p]) /\ (p \notin Ticks => job'[p] = Idle)
               /\ NoStoreWrite
<1> DEFINE r == job[p].rule
           refused == \/ Stale(p)
                      \/ job[p].new.active /\ FreedRuledays(r)[job[p].new.weekday] \notin {NoRule, r}
<1>1. /\ At(p, "upsert") /\ r \in Rules /\ JobOK(job[p]) /\ job[p].plan # <<>>
  BY Site DEF Upsert, RuleCalls
<1>2. CASE refused
  BY <1>2, AbortEffect DEF Upsert
<1>3. CASE ~refused
  <2>1. /\ UpsertRule(r, job[p].new)
        /\ version' = [version EXCEPT ![r] = @ + 1]
        /\ job' = [job EXCEPT ![p] = WithPlan(Written(job[p], MergedThrough(p)), Tail(job[p].plan))]
    BY <1>3 DEF Upsert
  <2>2. PICK j \in Job, thr \in Int, plan \in Plans :
          j = job[p] /\ thr = MergedThrough(p) /\ plan = Tail(j.plan)
    BY <1>1, MergedType, RestType DEF JobOK
  <2> DEFINE wrote == Written(j, thr)
             k == WithPlan(wrote, plan)
  <2>3. /\ wrote \in Job /\ wrote.rule = j.rule /\ wrote.old = j.old /\ wrote.new = j.new
        /\ wrote.ver = j.ver + 1 /\ wrote.today = j.today /\ wrote.cut = j.cut /\ wrote.due = j.due
    BY <2>2, WrittenType
  <2>4. job'[p] = k /\ OnlyJob(p)
    BY <2>1, <2>2, OneJob
  <2> HIDE DEF wrote
  <2>5. plan = <<>> => k = Idle
    BY DEF WithPlan
  <2>6. plan # <<>> =>
          /\ k.plan = plan /\ k.todo = Loop(wrote, Head(plan)) /\ k.act = "none"
          /\ k.rule = j.rule /\ k.old = j.old /\ k.new = j.new /\ k.ver = j.ver + 1
          /\ k.today = j.today /\ k.cut = j.cut /\ k.due = j.due
    BY <2>2, <2>3, WithPlanFields
  <2>7. Loop(wrote, Head(plan)) = Loop(j, Head(plan))
    BY <2>3 DEF Loop
  <2>8. UNCHANGED <<rows, slots, userCutoff, now>> /\ rules' = [rules EXCEPT ![r] = job[p].new]
    BY <2>1 DEF UpsertRule
  <2> HIDE DEF k
  <2>9. plan = <<>> => k.plan = plan
    BY <2>5, IdleType
  <2>10. QED
    BY <1>1, <1>3, <2>1, <2>2, <2>4, <2>5, <2>6, <2>7, <2>8, <2>9 DEF Upserted
<1>4. QED
  BY <1>2, <1>3

\* Every call of a program, for the job that makes it.
JobChange(p) ==
    LET j == job[p]
        k == job'[p]
    IN  /\ OnlyJob(p)
        /\ \/ Upserted(p) /\ At(p, "upsert")
           \/ /\ UNCHANGED <<rules, version>>
              /\ \/ GoesOn(j, k) /\ j.plan # <<>> /\ Head(j.plan) # "upsert"
                 \/ k.plan = j.plan /\ Carries(j, k)
                 \/ GivesUp(j, k) /\ (p \notin Ticks => k = Idle)

LEMMA StoreCallKeepsRules ==
  /\ \A r \in Rules, d \in Dates :
       \/ InsertRuleRow(r, d) \/ ReactivateRuleRow(r, d)
       \/ WithdrawRuleRow(r, d) \/ RewritePendingRuleRow(r, d)
       => UNCHANGED <<rules, userCutoff, now>>
  /\ \A r \in Rules : RewriteRuleCutoff(r) => UNCHANGED <<slots, rules, userCutoff, now>>
BY DEF InsertRuleRow, ReactivateRuleRow, WithdrawRuleRow, RewritePendingRuleRow,
       RewriteRuleCutoff

LEMMA AdvanceChange ==
  ASSUME JobsOK, NEW p \in Jobs, NEW ph, ph # "upsert", At(p, ph), Advance(p),
         UNCHANGED <<rules, version>>
  PROVE  JobChange(p)
BY AdvanceEffect DEF At, Busy, JobChange

LEMMA StayChange ==
  ASSUME JobsOK, NEW p \in Jobs, Own(p) \in Row, UNCHANGED <<rules, version>>,
         NextDay(p) \/ \E act \in Calls : Decide(p, act)
  PROVE  JobChange(p)
<1>1. CASE NextDay(p)
  BY <1>1, NextDayEffect DEF JobChange, Leaves
<1>2. CASE \E act \in Calls : Decide(p, act)
  <2>1. PICK act \in Calls : Decide(p, act)
    BY <1>2
  <2>2. CASE act = "none"
    BY <1>1, <2>1, <2>2 DEF Decide
  <2>3. CASE act # "none"
    BY <2>1, <2>3, DecideEffect DEF JobChange, Decides
  <2>4. QED
    BY <2>2, <2>3
<1>3. QED
  BY <1>1, <1>2

LEMMA AbortChange ==
  ASSUME JobsOK, NEW p \in Jobs, Abort(p), NoStoreWrite
  PROVE  JobChange(p)
BY AbortEffect DEF JobChange, NoStoreWrite, vars

LEMMA StoreChange ==
  ASSUME JobsOK, NoStoreWrite
  PROVE  UNCHANGED <<rules, version>>
BY DEF NoStoreWrite, vars

LEMMA VisitChange ==
  ASSUME TypeOK, JobsOK, NEW p \in Jobs,
         \/ ReadHistory(p) \/ ReadWithdrawable(p) \/ ReadRewritable(p)
         \/ Insert(p) \/ Reactivate(p) \/ Withdraw(p) \/ Rewrite(p)
  PROVE  JobChange(p)
<1>1. \E ph \in DateLoops : At(p, ph)
  BY DEF ReadHistory, ReadWithdrawable, ReadRewritable, Insert, Reactivate, Withdraw, Rewrite,
         Visits, DateLoops
<1>2. job[p].todo # {}
  BY DEF ReadHistory, ReadWithdrawable, ReadRewritable, Insert, Reactivate, Withdraw, Rewrite,
         Visits
<1>3. job[p].rule \in Rules /\ Day(p) \in Dates /\ Own(p) \in Row
  BY <1>1, <1>2, LoopSite
<1>4. CASE ReadHistory(p) \/ ReadWithdrawable(p) \/ ReadRewritable(p)
  <2>1. Classify(p) \in Calls
    BY DEF Classify, Calls
  <2>2. (\E act \in Calls : Decide(p, act)) /\ NoStoreWrite
    BY <1>4, <2>1 DEF ReadHistory, ReadWithdrawable, ReadRewritable, Calls
  <2>3. QED
    BY <1>3, <2>2, StoreChange, StayChange
<1>5. CASE Insert(p) \/ Reactivate(p) \/ Withdraw(p) \/ Rewrite(p)
  <2>1. \/ NextDay(p) /\ NoStoreWrite
        \/ Abort(p) /\ NoStoreWrite
        \/ /\ NextDay(p) /\ RowsOnly
           /\ \/ InsertRuleRow(job[p].rule, Day(p)) \/ ReactivateRuleRow(job[p].rule, Day(p))
              \/ WithdrawRuleRow(job[p].rule, Day(p)) \/ RewritePendingRuleRow(job[p].rule, Day(p))
    BY <1>5 DEF Insert, Reactivate, Withdraw, Rewrite
  <2>2. \/ NextDay(p) /\ UNCHANGED <<rules, version>>
        \/ Abort(p) /\ NoStoreWrite
    BY <1>3, <2>1, StoreChange, StoreCallKeepsRules DEF RowsOnly
  <2>3. QED
    BY <1>3, <2>2, StayChange, AbortChange
<1>6. QED
  BY <1>4, <1>5

LEMMA OtherChange ==
  ASSUME TypeOK, JobsOK, NEW p \in Jobs,
         Reset(p) \/ Cutoff(p) \/ LoopDone(p) \/ Mark(p) \/ QueryStragglers(p) \/ Sweep(p)
  PROVE  JobChange(p)
<1>1. CASE Reset(p)
  BY <1>1, AdvanceChange DEF Reset, vars
<1>2. CASE Mark(p)
  BY <1>2, AdvanceChange DEF Mark, vars
<1>3. CASE LoopDone(p)
  BY <1>3, AdvanceChange, StoreChange DEF LoopDone, DateLoops
<1>4. CASE Cutoff(p)
  <2>1. CASE Stale(p)
    BY <1>4, <2>1, AbortChange DEF Cutoff
  <2>2. CASE ~Stale(p)
    <3>1. job[p].rule \in Rules
      BY <1>4, Site DEF Cutoff, RuleCalls
    <3>2. UNCHANGED <<rules, version>>
      BY <1>4, <2>2, <3>1, StoreCallKeepsRules DEF Cutoff, RowsOnly
    <3>3. QED
      BY <1>4, <2>2, <3>2, AdvanceChange DEF Cutoff
  <2>3. QED
    BY <2>1, <2>2
<1>5. CASE QueryStragglers(p)
  <2> DEFINE rest == Tail(job[p].plan)
             k == WithPlan(job[p], rest)
             stray == Stragglers
  <2>1. /\ JobOK(job[p]) /\ job[p].plan # <<>> /\ Head(job[p].plan) = "query"
        /\ PlanGoes(job[p].plan) /\ rest \in Plans
    BY <1>5, Site, RestType DEF QueryStragglers
  <2>2. rest = SweepPlan /\ rest # <<>>
    BY <2>1, PlanSizes DEF PlanGoes
  <2>3. stray \in SUBSET RuleRowIds
    BY DEF Stragglers, RuleRowIds
  <2>4. job' = [job EXCEPT ![p] = StrayFields(k, stray)]
    BY <1>5 DEF QueryStragglers, StrayFields
  <2>5. /\ JobOK(k) /\ k.plan = rest /\ k.todo = Loop(job[p], Head(rest)) /\ k.act = "none"
        /\ Carries(job[p], k)
    <3>1. PICK j \in Job : j = job[p]
      BY <2>1 DEF JobOK
    <3>2. JobOK(k)
      BY <2>1, RestType, WithPlanType DEF JobOK
    <3>3. QED
      BY <2>1, <2>2, <3>1, <3>2, WithPlanFields DEF Carries
  <2>6. UNCHANGED <<rules, version>>
    BY <1>5, StoreChange DEF QueryStragglers
  <2> HIDE DEF k, stray, rest
  <2>7. job'[p] = StrayFields(k, stray) /\ OnlyJob(p)
    BY <2>4, OneJob
  <2>8. /\ job'[p].plan = rest /\ job'[p].act = "none" /\ Carries(job[p], job'[p])
        /\ job'[p].todo = Loop(job[p], Head(rest))
    BY <2>3, <2>5, <2>7, StrayType DEF Carries
  <2>9. GoesOn(job[p], job'[p])
    BY <2>2, <2>8 DEF GoesOn, rest
  <2>10. QED
    BY <2>1, <2>6, <2>7, <2>9 DEF JobChange
<1>6. CASE Sweep(p)
  <2>1. CASE Advance(p) /\ NoStoreWrite
    BY <1>6, <2>1, AdvanceChange, StoreChange DEF Sweep
  <2>2. CASE \E id \in job[p].stray :
               /\ job' = [job EXCEPT ![p].stray = @ \ {id}]
               /\ \/ WithdrawRuleRow(OriginOf(id), DateOf(id)) /\ RowsOnly
                  \/ NoStoreWrite
    <3>1. PICK id \in job[p].stray :
               /\ job' = [job EXCEPT ![p].stray = @ \ {id}]
               /\ \/ WithdrawRuleRow(OriginOf(id), DateOf(id)) /\ RowsOnly
                  \/ NoStoreWrite
      BY <2>2
    <3> DEFINE stray == job[p].stray \ {id}
    <3>2. JobOK(job[p]) /\ stray \in SUBSET RuleRowIds /\ id \in RuleRowIds
      BY DEF JobsOK, Job
    <3>3. job' = [job EXCEPT ![p] = StrayFields(job[p], stray)]
      BY <3>1 DEF StrayFields
    <3> HIDE DEF stray
    <3>4. job'[p] = StrayFields(job[p], stray) /\ OnlyJob(p)
      BY <3>3, OneJob
    <3>5. job'[p].plan = job[p].plan /\ Carries(job[p], job'[p])
      BY <3>2, <3>4, StrayType DEF Carries
    <3>6. OriginOf(id) \in Rules /\ DateOf(id) \in Dates
      BY <3>2, RowIdFacts DEF RuleRowIds, IsRuleRow
    <3>7. UNCHANGED <<rules, version>>
      BY <3>1, <3>6, StoreChange, StoreCallKeepsRules DEF RowsOnly
    <3>8. QED
      BY <3>4, <3>5, <3>7 DEF JobChange
  <2>3. QED
    BY <1>6, <2>1, <2>2 DEF Sweep
<1>7. QED
  BY <1>1, <1>2, <1>3, <1>4, <1>5, <1>6

LEMMA StepChange ==
  ASSUME TypeOK, JobsOK, NEW p \in Jobs, StepJob(p)
  PROVE  JobChange(p)
<1>1. CASE Upsert(p)
  BY <1>1, UpsertEffect, StoreChange DEF JobChange, Upsert
<1>2. CASE ~Upsert(p)
  BY <1>2, VisitChange, OtherChange DEF StepJob
<1>3. QED
  BY <1>1, <1>2

LEMMA StartRequestEffect ==
  ASSUME TypeOK, JobsOK, NEW p \in Jobs, NEW r \in Rules, NEW new \in Rule,
         NEW v \in 0..MaxVersion, StartRequest(p, r, new, v)
  PROVE  /\ OnlyJob(p) /\ NoStoreWrite
         /\ LET k == job'[p] IN
            /\ k.plan = EditPlan(rules[r], new) /\ k.plan \in UpsertPlans
            /\ k.rule = r /\ k.old = rules[r] /\ k.new = new /\ k.cut = userCutoff
            /\ k.due = {} /\ k.act = "none"
<1> DEFINE old == rules[r]
           thr == through[r]
           j == [Idle EXCEPT !.rule = r, !.old = old, !.new = new, !.ver = v, !.thr = thr,
                             !.today = Today, !.cut = userCutoff]
           k == WithPlan(j, EditPlan(old, new))
<1>1. old \in Rule /\ thr \in Int /\ v \in Nat /\ userCutoff \in Cutoffs \cup {NoCutoff}
  BY MaterializerAssumption DEF TypeOK, JobsOK
<1>2. PICK plan \in Plans : plan = EditPlan(old, new) /\ plan # <<>> /\ plan \in UpsertPlans
  BY <1>1, EditPlanType DEF Plans, RulePlans
<1>3. job'[p] = k /\ OnlyJob(p) /\ NoStoreWrite
  BY OneJob DEF StartRequest
<1>4. Idle \in Job /\ Idle.due = {}
  BY IdleType DEF JobOK, Idle
<1> HIDE DEF old, thr
<1>5. /\ j \in Job /\ j.rule = r /\ j.old = old /\ j.new = new /\ j.cut = userCutoff
      /\ j.due = {}
  BY <1>1, <1>4, TodayType DEF Job
<1> HIDE DEF j
<1>6. /\ k.plan = plan /\ k.act = "none" /\ k.rule = r /\ k.old = old /\ k.new = new
      /\ k.cut = userCutoff /\ k.due = {}
  BY <1>2, <1>5, WithPlanFields
<1> HIDE DEF k
<1>7. QED
  BY <1>2, <1>3, <1>6 DEF old

LEMMA StartTickEffect ==
  ASSUME TypeOK, JobsOK, NEW p \in Jobs, StartTick(p)
  PROVE  /\ OnlyJob(p) /\ NoStoreWrite
         /\ job'[p].plan = TickPlan /\ job'[p].act = "none"
         /\ \A x \in job'[p].due :
              /\ x.rule \in Rules /\ x.copy = rules[x.rule] /\ x.ver = version[x.rule]
<1> DEFINE C(r) == [rule |-> r, copy |-> rules[r], ver |-> version[r], thr |-> through[r]]
           short == {r \in Rules : rules[r].active /\ through[r] < Today + Horizon}
           due == {C(r) : r \in short}
           j == [Idle EXCEPT !.plan = TickPlan, !.today = Today, !.due = due]
<1>1. \A x \in due : x.rule \in Rules /\ x.copy = rules[x.rule] /\ x.ver = version[x.rule]
  OBVIOUS
<1>2. job' = [job EXCEPT ![p] = j] /\ NoStoreWrite
  BY DEF StartTick
<1> HIDE DEF due
<1>3. j.plan = TickPlan /\ j.act = "none" /\ j.due = due
  BY DEF Idle
<1> HIDE DEF j
<1>4. job'[p] = j /\ OnlyJob(p)
  BY <1>2, OneJob
<1>5. QED
  BY <1>1, <1>2, <1>3, <1>4

LEMMA NextRuleEffect ==
  ASSUME TypeOK, JobsOK, NEW p \in Jobs, NextRule(p)
  PROVE  /\ OnlyJob(p) /\ NoStoreWrite
         /\ \/ GoesOn(job[p], job'[p]) /\ job[p].plan = TickPlan /\ job'[p].plan = QueryPlan
            \/ \E x \in job[p].due :
                 LET k == job'[p] IN
                 /\ k.plan = RulePlan /\ k.rule = x.rule /\ k.new = x.copy /\ k.ver = x.ver
                 /\ k.cut = userCutoff /\ k.due = job[p].due \ {x} /\ k.act = "none"
<1>1. NoStoreWrite /\ At(p, "rules") /\ PlanGoes(job[p].plan) /\ job[p].plan # <<>>
  BY Site DEF NextRule
<1>2. CASE job[p].due = {}
  <2>1. GoesOn(job[p], job'[p]) /\ OnlyJob(p)
    BY <1>1, <1>2, AdvanceEffect DEF NextRule, At
  <2>2. job[p].plan = TickPlan /\ Tail(job[p].plan) = QueryPlan
    BY <1>1 DEF PlanGoes, At
  <2>3. QED
    BY <1>1, <2>1, <2>2 DEF GoesOn
<1>3. CASE job[p].due # {}
  <2>1. PICK x \in job[p].due : job' = [job EXCEPT ![p] = WithPlan(TakesUp(job[p], x), RulePlan)]
    BY <1>3 DEF NextRule
  <2>2. RulePlan \in Plans /\ RulePlan # <<>>
    BY PlanSizes DEF Plans, RulePlans, WrittenPlans
  <2>3. PICK j \in Job : j = job[p]
    BY DEF JobsOK
  <2> DEFINE took == TakesUp(j, x)
             k == WithPlan(took, RulePlan)
  <2>4. /\ took \in Job /\ took.rule = x.rule /\ took.new = x.copy /\ took.ver = x.ver
        /\ took.cut = userCutoff /\ took.due = j.due \ {x}
    BY <2>1, <2>3, TakesUpType
  <2> HIDE DEF took
  <2>5. /\ k.plan = RulePlan /\ k.rule = x.rule /\ k.new = x.copy /\ k.ver = x.ver
        /\ k.cut = userCutoff /\ k.due = j.due \ {x} /\ k.act = "none"
    BY <2>2, <2>4, WithPlanFields
  <2>6. job'[p] = k /\ OnlyJob(p)
    BY <2>1, <2>3, OneJob DEF took
  <2> HIDE DEF k
  <2>7. QED
    BY <1>1, <2>1, <2>3, <2>5, <2>6
<1>4. QED
  BY <1>2, <1>3

\* A copy stays an earlier version or the stored one: a rule's write counts it up.
LEMMA FitKept ==
  ASSUME JobsOK, NEW p \in Jobs, UNCHANGED <<rules, version>> \/ Upserted(p),
         NEW k, JobOK(k), JobFits(k)
  PROVE  JobFits(k)'
<1>1. ASSUME NEW r \in Rules, NEW ver \in Nat, NEW copy, CopyOK(r, ver, copy)
      PROVE  CopyOK(r, ver, copy)'
  <2>1. CASE UNCHANGED <<rules, version>>
    BY <1>1, <2>1 DEF CopyOK
  <2>2. CASE Upserted(p)
    <3>1. PICK s, new : /\ s \in Rules /\ rules' = [rules EXCEPT ![s] = new]
                        /\ version' = [version EXCEPT ![s] = version[s] + 1]
      BY <2>2 DEF Upserted
    <3>2. version[r] \in Nat /\ version'[r] = IF r = s THEN version[s] + 1 ELSE version[r]
      BY <3>1 DEF JobsOK
    <3>3. r # s => rules'[r] = rules[r]
      BY <3>1
    <3>4. QED
      BY <1>1, <3>2, <3>3 DEF CopyOK
  <2>3. QED
    BY <2>1, <2>2
<1>2. \A x \in k.due : x.rule \in Rules /\ x.ver \in Nat
  BY DEF JobOK, Job, Copy
<1>3. k.plan \in WrittenPlans => k.rule \in Rules /\ k.ver \in Nat
  BY DEF JobOK, Job, RulePlans
<1>4. QED
  BY <1>1, <1>2, <1>3 DEF JobFits, Fits

\* A job that goes on as it is allowed to fits the store it leaves.
LEMMA OwnFits ==
  ASSUME TypeOK, JobsOK, JobsOK', JobsFit, NEW p \in Jobs, JobChange(p)
  PROVE  JobFits(job[p])'
<1>1. PICK j, k : j = job[p] /\ k = job'[p] /\ JobOK(j) /\ JobOK(k) /\ JobFits(j)
  BY DEF JobsOK, JobsFit
<1>2. CASE Upserted(p) /\ At(p, "upsert")
  <2>1. j.plan # <<>> /\ Head(j.plan) = "upsert"
    BY <1>1, <1>2 DEF At, Busy
  <2>2. CASE k.plan = <<>>
    <3>1. JobFits(k)
      BY <1>1, <1>2, <2>2, IdleFits DEF Upserted
    <3>2. QED
      BY <1>1, <1>2, <3>1, FitKept
  <2>3. CASE k.plan # <<>>
    <3>1. Fits(k)
      BY <1>1, <1>2, <2>1, <2>3, FitsOn DEF Upserted, JobFits
    <3>2. JobFits(j)'
      BY <1>1, <1>2, FitKept
    <3>3. \A x \in k.due : CopyOK(x.rule, x.ver, x.copy)'
      BY <1>1, <1>2, <2>3, <3>2 DEF JobFits, Upserted
    <3>4. CopyOK(k.rule, k.ver, k.new)'
      <4>1. /\ k.rule = j.rule /\ k.new = j.new /\ k.ver = j.ver + 1 /\ j.ver = version[j.rule]
            /\ j.rule \in Rules
            /\ rules' = [rules EXCEPT ![j.rule] = j.new]
            /\ version' = [version EXCEPT ![j.rule] = version[j.rule] + 1]
        BY <1>1, <1>2, <2>3 DEF Upserted, Stale
      <4>2. version[j.rule] \in Nat /\ DOMAIN rules = Rules
        BY <4>1 DEF JobsOK, TypeOK
      <4>3. version'[k.rule] = k.ver /\ rules'[k.rule] = k.new
        BY <4>1, <4>2 DEF JobsOK
      <4>4. QED
        BY <4>1, <4>2, <4>3 DEF CopyOK
    <3>5. JobFits(k)'
      BY <3>1, <3>3, <3>4 DEF JobFits, Fits
    <3>6. QED
      BY <1>1, <3>5
  <2>4. QED
    BY <2>2, <2>3
<1>3. CASE UNCHANGED <<rules, version>> /\ JobFits(k)
  BY <1>1, <1>3, FitKept
<1>4. GoesOn(j, k) /\ j.plan # <<>> /\ Head(j.plan) # "upsert" => JobFits(k)
  BY <1>1, GoesOnFits
<1>5. QED
  BY <1>1, <1>2, <1>3, <1>4, SamePlanFits, GivesUpFits DEF JobChange

\* What a request still has to do is part of a request.
LEMMA OwnRequest ==
  ASSUME JobsOK, JobsFit, NEW p \in Requests, JobChange(p)
  PROVE  job'[p].plan \in RequestPlans \cup {<<>>}
<1>1. PICK j, k : j = job[p] /\ k = job'[p] /\ JobOK(j) /\ JobFits(j) /\ p \in Jobs
                  /\ j.plan \in RequestPlans \cup {<<>>}
  BY DEF JobsOK, JobsFit, Jobs
<1>2. p \notin Ticks /\ <<>> \notin RequestPlans
  BY MaterializerAssumption, PlanKinds DEF RequestPlans
<1>3. CASE k.plan = Tail(j.plan) /\ j.plan # <<>> /\ (k.plan # <<>> => k.old = j.old /\ k.new = j.new)
  BY <1>1, <1>3, FitsOn DEF JobFits
<1>4. CASE Upserted(p) /\ At(p, "upsert")
  BY <1>1, <1>3, <1>4 DEF Upserted, At, Busy
<1>5. QED
  BY <1>1, <1>2, <1>3, <1>4, IdleType DEF JobChange, GoesOn, Carries

LEMMA OthersFit ==
  ASSUME JobsOK, JobsFit, NEW p \in Jobs, OnlyJob(p), UNCHANGED <<rules, version>> \/ Upserted(p)
  PROVE  \A q \in Jobs \ {p} : JobFits(job[q])'
<1> SUFFICES ASSUME NEW q \in Jobs \ {p}
             PROVE  JobFits(job[q])'
  OBVIOUS
<1>1. PICK k : k = job[q] /\ JobOK(k) /\ JobFits(k) /\ job'[q] = k
  BY DEF JobsOK, JobsFit, OnlyJob
<1>2. JobFits(k)'
  BY <1>1, FitKept
<1>3. QED
  BY <1>1, <1>2
-----------------------------------------------------------------------------
(* The copies and the plans are an invariant *)

LEMMA StartFits ==
  ASSUME TypeOK, JobsOK, JobsOK', JobsFit, NEW p \in Jobs, StartJob(p)
  PROVE  /\ OnlyJob(p) /\ NoStoreWrite
         /\ JobFits(job[p])'
         /\ p \in Requests => job'[p].plan \in RequestPlans \cup {<<>>}
<1>1. CASE p \in Requests /\ \E r \in Rules, new \in Rule, v \in 0..MaxVersion :
                               StartRequest(p, r, new, v)
  <2>1. PICK r \in Rules, new \in Rule, v \in 0..MaxVersion : StartRequest(p, r, new, v)
    BY <1>1
  <2>2. PICK old, k : /\ old = rules[r] /\ k = job'[p] /\ JobOK(k)
                      /\ k.plan = EditPlan(old, new) /\ k.plan \in UpsertPlans
                      /\ k.old = old /\ k.new = new /\ k.due = {}
    BY <2>1, StartRequestEffect DEF JobsOK
  <2>3. k.plan \in RequestPlans /\ k.plan \notin WrittenPlans
    BY <2>2, PlanFamilies, PlanKinds DEF UpsertPlans, EditPlans
  <2>4. ~new.active => k.plan \in {Deactivate, LastUpsert}
    BY <2>2 DEF EditPlan, Deactivate, LastUpsert, Rule
  <2>5. InPlace(k) => k.plan = Edit
    BY <2>2 DEF EditPlan, InPlace, Edit
  <2>6. JobFits(k)'
    BY <2>2, <2>3, <2>4, <2>5 DEF JobFits, Fits, EditPlans, DeactivatePlans
  <2>7. QED
    BY <2>1, <2>2, <2>3, <2>6, StartRequestEffect
<1>2. CASE p \in Ticks /\ StartTick(p)
  <2>1. PICK k : /\ k = job'[p] /\ JobOK(k) /\ k.plan = TickPlan
                 /\ \A x \in k.due : /\ x.rule \in Rules /\ x.copy = rules[x.rule]
                                     /\ x.ver = version[x.rule]
    BY <1>2, StartTickEffect DEF JobsOK
  <2>2. TickPlan \notin RequestPlans \cup WrittenPlans
    BY PlanFamilies DEF TickPlans
  <2>3. \A r \in Rules : version[r] \in Nat
    BY DEF JobsOK
  <2>4. JobFits(k)
    BY <2>1, <2>2, <2>3 DEF JobFits, Fits, CopyOK
  <2>5. OnlyJob(p) /\ NoStoreWrite
    BY <1>2, StartTickEffect
  <2>6. QED
    BY <1>2, <2>1, <2>4, <2>5, FitKept, StoreChange, MaterializerAssumption
<1>3. CASE p \in Ticks /\ NextRule(p)
  <2>1. OnlyJob(p) /\ NoStoreWrite
    BY <1>3, NextRuleEffect
  <2>2. PICK j, k : j = job[p] /\ k = job'[p] /\ JobOK(j) /\ JobOK(k) /\ JobFits(j)
    BY DEF JobsOK, JobsFit
  <2>3. CASE GoesOn(j, k) /\ j.plan = TickPlan /\ k.plan = QueryPlan
    <3>1. j.plan # <<>> /\ Head(j.plan) # "upsert"
      BY <2>3, PlanSizes
    <3>2. JobFits(k)
      BY <2>2, <2>3, <3>1, GoesOnFits
    <3>3. QED
      BY <1>3, <2>1, <2>2, <3>2, FitKept, StoreChange, MaterializerAssumption
  <2>4. CASE \E x \in j.due : /\ k.plan = RulePlan /\ k.rule = x.rule /\ k.new = x.copy
                              /\ k.ver = x.ver /\ k.due = j.due \ {x}
    <3>1. RulePlan \notin RequestPlans
      BY PlanFamilies DEF TickRulePlans
    <3>2. JobFits(k)
      BY <2>2, <2>4, <3>1 DEF JobFits, Fits
    <3>3. QED
      BY <1>3, <2>1, <2>2, <3>2, FitKept, StoreChange, MaterializerAssumption
  <2>5. QED
    BY <1>3, <2>2, <2>3, <2>4, NextRuleEffect
<1>4. QED
  BY <1>1, <1>2, <1>3 DEF StartJob

LEMMA FitStep ==
  ASSUME TypeOK, JobsOK, JobsOK', JobsFit, [MNext]_allVars
  PROVE  JobsFit'
<1> SUFFICES ASSUME NEW q \in Jobs
             PROVE  /\ JobFits(job[q])'
                    /\ q \in Requests => job'[q].plan \in RequestPlans \cup {<<>>}
  BY DEF JobsFit, Jobs
<1>1. ASSUME NEW p \in Jobs, OnlyJob(p), UNCHANGED <<rules, version>> \/ Upserted(p),
             JobFits(job[p])', p \in Requests => job'[p].plan \in RequestPlans \cup {<<>>}
      PROVE  /\ JobFits(job[q])'
             /\ q \in Requests => job'[q].plan \in RequestPlans \cup {<<>>}
  <2>1. CASE q = p
    BY <1>1, <2>1
  <2>2. CASE q # p
    <3>1. JobFits(job[q])'
      BY <1>1, <2>2, OthersFit
    <3>2. job'[q] = job[q]
      BY <1>1, <2>2 DEF OnlyJob
    <3>3. QED
      BY <3>1, <3>2 DEF JobsFit
  <2>3. QED
    BY <2>1, <2>2
<1>2. CASE \E p \in Jobs : StartJob(p)
  BY <1>1, <1>2, StartFits, StoreChange
<1>3. CASE \E p \in Jobs : StepJob(p)
  <2>1. PICK p \in Jobs : StepJob(p)
    BY <1>3
  <2>2. JobChange(p)
    BY <2>1, StepChange
  <2>3. OnlyJob(p) /\ (UNCHANGED <<rules, version>> \/ Upserted(p))
    BY <2>2 DEF JobChange
  <2>4. JobFits(job[p])' /\ (p \in Requests => job'[p].plan \in RequestPlans \cup {<<>>})
    BY <2>2, OwnFits, OwnRequest
  <2>5. QED
    BY <1>1, <2>3, <2>4
<1>4. CASE \E p \in Jobs : DieJob(p)
  <2>1. PICK p \in Jobs : DieJob(p)
    BY <1>4
  <2>2. job'[p] = Idle /\ OnlyJob(p) /\ NoStoreWrite
    BY <2>1, OneJob DEF DieJob
  <2>3. PICK k : k = Idle /\ JobOK(k) /\ JobFits(k) /\ k.plan = <<>>
    BY IdleFits, IdleType
  <2>4. JobFits(k)'
    BY <2>2, <2>3, FitKept, StoreChange
  <2>5. QED
    BY <1>1, <2>2, <2>3, <2>4, StoreChange
<1>5. CASE Others \/ UNCHANGED allVars
  <2>1. UNCHANGED <<rules, version, job>>
    <3>1. CASE UNCHANGED allVars
      BY <3>1 DEF allVars, vars, materializerVars
    <3>2. CASE Others
      BY <3>2 DEF Others, BotStep, UserStep, Tick, ClaimRow, AcquireRowLease, ReleaseRowLease,
                  RecordOutcome, LeaseExpires, FinalizeLost, SkipRow, UnskipRow, WebTransition,
                  WithdrawExplicit, CreateExplicitRow, SetBookingCutoff
    <3>3. QED
      BY <1>5, <3>1, <3>2
  <2>2. PICK k : k = job[q] /\ k = job'[q] /\ JobOK(k) /\ JobFits(k)
    BY <2>1 DEF JobsOK, JobsFit
  <2>3. JobFits(k)'
    BY <2>1, <2>2, FitKept
  <2>4. QED
    BY <2>1, <2>2, <2>3 DEF JobsFit
<1>6. QED
  BY <1>2, <1>3, <1>4, <1>5 DEF MNext

LEMMA FitInit == MInit => JobsFit
<1> SUFFICES ASSUME MInit PROVE JobsFit
  OBVIOUS
<1>1. \A p \in Jobs : job[p] = Idle
  BY DEF MInit
<1>2. QED
  BY <1>1, IdleFits, IdleType DEF JobsFit, Jobs

\* A job that still has to write rows carries an earlier version of its rule or the
\* stored one, however its ticks, requests and deaths interleave, and what it still
\* has to do fits what its request changes (materialize_rule, apply_rule_edit).
THEOREM CopiesAreVersions == MSpec => []JobsFit
<1>1. TypeOK /\ JobsOK /\ (TypeOK /\ JobsOK)' /\ JobsFit /\ [MNext]_allVars => JobsFit'
  BY FitStep
<1>2. QED
  BY <1>1, JobsTyped, FitInit, PTL DEF MSpec
-----------------------------------------------------------------------------
(* What a step leaves true of a date *)

DateKept(r, d) ==
    /\ CutoffFresh(r, d) => CutoffFresh(r, d)'
    /\ Placed(r, d) => Placed(r, d)'
    /\ WantFresh(r, d) => WantFresh(r, d)'
    /\ Gone(r, d) => Gone(r, d)'

LEMMA DayOnly ==
  ASSUME NEW n \in Nat, NEW m \in Nat, NEW k \in Nat \ {0}, m = n \/ m = n + 1
  PROVE  n \div k \in Int /\ m \div k \in Int /\ n \div k <= m \div k
<1>1. n \div k \in Int /\ n \div k <= (n + 1) \div k
  OBVIOUS
<1>2. CASE m = n
  BY <1>1, <1>2
<1>3. CASE m = n + 1
  BY <1>1, <1>3
<1>4. QED
  BY <1>2, <1>3

\* Time only freezes rows.
LEMMA FrozenStays ==
  ASSUME TypeOK, now' \in {now, now + 1}, NEW d \in Dates, NEW at \in Int
  PROVE  /\ d >= Today' => d >= Today
         /\ Frozen(d, at) => Frozen(d, at)'
<1>1. PICK n \in Nat, m \in Nat : n = now /\ m = now' /\ (m = n \/ m = n + 1)
  BY DEF TypeOK
<1>2. d \in Int /\ TicksPerDay \in Nat \ {0}
  BY TimeAssumption
<1>3. PICK a \in Int, b \in Int : a = Today /\ b = Today' /\ a <= b
  BY <1>1, <1>2, DayOnly DEF Today
<1>4. (d >= b => d >= a) /\ (d < a => d < b)
  BY <1>2, <1>3
<1>5. n >= at => m >= at
  BY <1>1
<1>6. QED
  BY <1>1, <1>3, <1>4, <1>5 DEF Frozen

\* The settings decide the cutoff of a rule's row.
LEMMA CutoffKept ==
  ASSUME UNCHANGED <<rules, userCutoff>>, NEW r, NEW d
  PROVE  RuleCutoffAt(<<r, d>>)' = RuleCutoffAt(<<r, d>>) /\ CoveredBy(r, d)' = CoveredBy(r, d)
BY DEF RuleCutoffAt, RuleOf, CoveredBy, OriginOf, DateOf

LEMMA DateQuiet ==
  ASSUME TypeOK, NEW r \in Rules, NEW d \in Dates, UNCHANGED <<rows, slots, rules, userCutoff>>,
         now' \in {now, now + 1}
  PROVE  DateKept(r, d)
<1>1. RuleCutoffAt(<<r, d>>) \in Int /\ rows[<<r, d>>].cutoff \in Int
  BY RuleCutoffAtType, StoredRow DEF Row
<1>2. DateClosed(d)' = DateClosed(d)
  BY DEF DateClosed
<1>3. Due(r, d)' => Due(r, d)
  BY <1>1, <1>2, FrozenStays, CutoffKept DEF Due
<1>4. CutoffFresh(r, d) => CutoffFresh(r, d)'
  BY <1>1, FrozenStays, CutoffKept DEF CutoffFresh
<1>5. Placed(r, d) => Placed(r, d)'
  BY <1>3 DEF Placed
<1>6. WantFresh(r, d) => WantFresh(r, d)'
  BY <1>1, FrozenStays DEF WantFresh
<1>7. Gone(r, d) => Gone(r, d)'
  BY DEF Gone, LeaseHeld
<1>8. QED
  BY <1>4, <1>5, <1>6, <1>7 DEF DateKept

\* Nobody reopens a closed date.
LEMMA ClosedStays ==
  ASSUME UserLawful, NEW d
  PROVE  DateClosed(d) => DateClosed(d)'
BY DEF UserLawful, UserLaw, Said, DateClosed, IsUserTerminal

\* The row of the date is not written, its slot is not freed.
LEMMA DateElsewhere ==
  ASSUME UserLawful, NEW r \in Rules, NEW d \in Dates, UNCHANGED <<rules, userCutoff, now>>,
         rows'[<<r, d>>] = rows[<<r, d>>], slots[d] # NoRow => slots'[d] # NoRow
  PROVE  DateKept(r, d)
<1>1. \A at : Frozen(d, at)' = Frozen(d, at)
  BY DEF Frozen, Today
<1>2. Due(r, d)' => Due(r, d)
  BY <1>1, ClosedStays, CutoffKept DEF Due
<1>3. CutoffFresh(r, d) => CutoffFresh(r, d)'
  BY CutoffKept DEF CutoffFresh, Today
<1>4. Placed(r, d) => Placed(r, d)'
  BY <1>2 DEF Placed
<1>5. WantFresh(r, d) => WantFresh(r, d)'
  BY <1>1 DEF WantFresh
<1>6. Gone(r, d) => Gone(r, d)'
  BY DEF Gone, LeaseHeld
<1>7. QED
  BY <1>3, <1>4, <1>5, <1>6 DEF DateKept

\* One row of a rule is written: the other dates keep what they have.
LEMMA OtherDates ==
  ASSUME LeaseInv, LeaseInv', UserLawful, NEW r \in Rules, NEW d \in Dates, OnlyRow(<<r, d>>),
         UNCHANGED <<rules, userCutoff, now>>
  PROVE  \A e \in Dates \ {d} : DateKept(r, e)
<1> SUFFICES ASSUME NEW e \in Dates \ {d}
             PROVE  DateKept(r, e)
  OBVIOUS
<1>1. \A x \in RowIds : DateOf(x) = e => rows'[x] = rows[x]
  BY DEF OnlyRow, DateOf
<1>2. slots'[e] = slots[e]
  BY <1>1, SlotKept DEF Active
<1>3. <<r, e>> \in RowIds /\ DateOf(<<r, e>>) = e
  BY DEF RowIds, Origins, DateOf
<1>4. QED
  BY <1>1, <1>2, <1>3, DateElsewhere
-----------------------------------------------------------------------------
(* A quiet step: time passes, or somebody else reads *)

\* What is to be known of the job k, and of the dates it left behind.
SteadyJob(k) == Knows(k) /\ CutoffsOK(k) /\ WalkOK(k) /\ WantsOK(k) /\ GoneOK(k)

LEMMA RuleDates ==
  ASSUME NEW rule, NEW today
  PROVE  DatesForRule(rule, today) \subseteq Dates
BY DEF DatesForRule

\* A job that is about no rule has nothing to know.
LEMMA NothingToKnow ==
  ASSUME NEW k, k.plan \in TickPlans
  PROVE  SteadyJob(k) /\ SteadyJob(k)' /\ k.plan \notin WalkPlans
<1>1. k.plan \notin RulePlans
  BY PlanKinds
<1>2. {TickWalk, LastWalk, TickMark, LastMark, EditRewrite, LastCutoff} \subseteq WrittenPlans
  BY DEF WrittenPlans
<1>3. {Withdrawal, LastReset, LastUpsert} \subseteq UpsertPlans
  BY DEF UpsertPlans, DeactivatePlans
<1>4. QED
  BY <1>1, <1>2, <1>3 DEF SteadyJob, Knows, CutoffsDone, CutoffsOK, WalkOK, WantsOK, GoneOK, Reached,
                          RulePlans, WalkPlans, MarkPlans

\* The dates the job left behind stay done in a quiet step.
LEMMA QuietJob ==
  ASSUME TypeOK, NEW j, JobOK(j), SteadyJob(j), NEW k, k.plan = j.plan, Carries(j, k),
         k.todo = j.todo, UNCHANGED <<rows, slots, rules, userCutoff, version>>,
         now' \in {now, now + 1}
  PROVE  SteadyJob(k)'
<1>1. CASE k.plan \notin RulePlans
  BY <1>1, NothingToKnow DEF JobOK, Job, Plans
<1>2. CASE k.plan \in RulePlans
  <2>1. k.rule \in Rules /\ k.rule = j.rule
    BY <1>2 DEF JobOK, Carries
  <2>2. \A d \in Dates : DateKept(k.rule, d)
    BY <2>1, DateQuiet
  <2>3. Knows(k)'
    BY DEF SteadyJob, Knows, Reached, Carries
  <2>4. CutoffsOK(k)'
    BY <2>1, <2>2 DEF SteadyJob, CutoffsOK, CutoffsDone, InPlace, Carries, DateKept
  <2>5. WalkOK(k)'
    BY <2>1, <2>2, RuleDates DEF SteadyJob, WalkOK, Carries, DateKept
  <2>6. WantsOK(k)'
    BY <2>1, <2>2, RuleDates DEF SteadyJob, WantsOK, InPlace, Carries, DateKept
  <2>7. GoneOK(k)'
    BY <2>1, <2>2, RuleDates DEF SteadyJob, GoneOK, Carries, DateKept
  <2>8. QED
    BY <2>3, <2>4, <2>5, <2>6, <2>7 DEF SteadyJob
<1>3. QED
  BY <1>1, <1>2

LEMMA QuietSteady ==
  ASSUME TypeOK, JobsOK, NEW p \in Jobs, Steady(p), job'[p] = job[p],
         UNCHANGED <<rows, slots, rules, userCutoff, version>>, now' \in {now, now + 1}
  PROVE  Steady(p)'
<1>1. PICK k : k = job[p] /\ k = job'[p] /\ JobOK(k) /\ SteadyJob(k)
  BY DEF JobsOK, Steady, SteadyJob
<1>2. SteadyJob(k)'
  BY <1>1, QuietJob DEF Carries
<1>3. InsertOK(p)'
  BY DEF Steady, InsertOK, Own, OwnId, Day
<1>4. QED
  BY <1>1, <1>2, <1>3 DEF Steady, SteadyJob

\* The job decided what to do with the next date of its loop.
LEMMA DecideSteady ==
  ASSUME TypeOK, JobsOK, NEW p \in Jobs, Steady(p), NEW act, Decides(job[p], job'[p], act),
         UNCHANGED <<rows, slots, rules, userCutoff, version, now>>,
         act = "insert" => Own(p).status = "absent"
  PROVE  Steady(p)'
<1>1. PICK j, k : j = job[p] /\ k = job'[p] /\ JobOK(j) /\ SteadyJob(j)
  BY DEF JobsOK, Steady, SteadyJob
<1>2. SteadyJob(k)'
  BY <1>1, QuietJob DEF Decides
<1>3. Own(p)' = Own(p) /\ job'[p].act = act
  BY DEF Own, OwnId, Day, Decides, Carries
<1>4. InsertOK(p)'
  BY <1>3 DEF InsertOK
<1>5. QED
  BY <1>1, <1>2, <1>4 DEF Steady, SteadyJob
-----------------------------------------------------------------------------
(* A date of a loop is done *)

VisitPlans == {Withdrawal, MoveWithdraw, EditRewrite} \cup WalkPlans

LEMMA VisitPlansOnly ==
  /\ \A plan \in Plans : plan # <<>> /\ Head(plan) \in DateLoops => plan \in VisitPlans
  /\ VisitPlans \cap ({LastCutoff, LastReset, LastUpsert} \cup MarkPlans) = {}
  /\ \A plan \in VisitPlans : plan \in RulePlans /\ plan # RulePlan
<1>1. \A plan \in Plans : plan # <<>> /\ Head(plan) \in DateLoops => plan \in VisitPlans
  BY PlanStep DEF PlanGoes, DateLoops, VisitPlans, WalkPlans
<1>2. \A plan \in VisitPlans : Head(plan) \in DateLoops
  BY PlanSizes DEF VisitPlans, WalkPlans, DateLoops
<1>3. \A plan \in {LastCutoff, LastReset, LastUpsert, RulePlan} \cup MarkPlans :
         Head(plan) \notin DateLoops
  BY PlanSizes DEF MarkPlans, DateLoops
<1>4. VisitPlans \subseteq RulePlans
  BY DEF VisitPlans, WalkPlans, RulePlans, UpsertPlans, WrittenPlans, DeactivatePlans
<1>5. QED
  BY <1>1, <1>2, <1>3, <1>4

\* What the job is to leave true of the date it is at.
DateDone(j, d) ==
    /\ CutoffsDone(j) => CutoffFresh(j.rule, d)'
    /\ j.plan \in WalkPlans => Placed(j.rule, d)'
    /\ InPlace(j) /\ j.plan \in {EditRewrite, LastWalk} /\ d \in DatesForRule(j.new, j.today)
          => WantFresh(j.rule, d)'
    /\ j.old.active /\ j.plan = Withdrawal => Gone(j.rule, d)'

LEMMA LeaveSteady ==
  ASSUME JobsOK, NEW p \in Jobs, Steady(p), NEW d \in Dates, NEW j, j = job[p],
         Leaves(j, job'[p], d), j.plan \in VisitPlans, UNCHANGED <<userCutoff, version>>,
         \A e \in Dates \ {d} : DateKept(j.rule, e), DateDone(j, d)
  PROVE  Steady(p)'
<1>1. PICK k : k = job'[p] /\ JobOK(j) /\ SteadyJob(j) /\ Leaves(j, k, d)
  BY DEF JobsOK, Steady, SteadyJob
<1>2. DateDone(j, d)
  OBVIOUS
<1>3. k.rule = j.rule /\ k.plan = j.plan /\ k.act = "none" /\ k.todo = j.todo \ {d}
  BY <1>1 DEF Leaves, Carries
<1>4. Knows(k)'
  BY <1>1 DEF SteadyJob, Knows, Reached, Leaves, Carries
<1>5. CutoffsOK(k)'
  BY <1>1, <1>2, <1>3 DEF SteadyJob, CutoffsOK, CutoffsDone, InPlace, Leaves, Carries, DateKept,
                          DateDone
<1>6. WalkOK(k)'
  <2>1. j.plan \notin MarkPlans
    BY <1>1, VisitPlansOnly
  <2>2. QED
    BY <1>1, <1>2, <1>3, <2>1, RuleDates
       DEF SteadyJob, WalkOK, Leaves, Carries, DateKept, DateDone
<1>7. WantsOK(k)'
  <2>1. j.plan \notin {LastCutoff, LastMark}
    BY <1>1, VisitPlansOnly DEF MarkPlans
  <2>2. QED
    BY <1>1, <1>2, <1>3, <2>1, RuleDates
       DEF SteadyJob, WantsOK, InPlace, Leaves, Carries, DateKept, DateDone
<1>8. GoneOK(k)'
  <2>1. j.plan \notin {LastReset, LastUpsert}
    BY <1>1, VisitPlansOnly
  <2>2. QED
    BY <1>1, <1>2, <1>3, <2>1, RuleDates
       DEF SteadyJob, GoneOK, Leaves, Carries, DateKept, DateDone
<1>9. InsertOK(p)'
  BY <1>1, <1>3 DEF InsertOK
<1>10. QED
  BY <1>1, <1>4, <1>5, <1>6, <1>7, <1>8, <1>9 DEF Steady
-----------------------------------------------------------------------------
(* What the store's calls leave of the one row they write *)

LEMMA InsertEffect ==
  ASSUME LeaseInv, NEW r \in Rules, NEW d \in Dates, InsertRuleRow(r, d)
  PROVE  /\ OnlyRow(<<r, d>>) /\ UserLawful /\ UNCHANGED <<rules, userCutoff, now>>
         /\ rows'[<<r, d>>].status \in {"pending", "superseded"}
         /\ rows'[<<r, d>>].cutoff = RuleCutoffAt(<<r, d>>)
         /\ rows'[<<r, d>>].want = rules[r].want
<1> DEFINE id     == <<r, d>>
           status == IF slots[d] = NoRow THEN "pending" ELSE "superseded"
           at     == RuleCutoffAt(id)
           want   == RuleOf(id).want
           row    == [AbsentRow EXCEPT !.status = status, !.cutoff = at, !.want = want]
<1>1. id \in RowIds /\ want = rules[r].want
  BY RuleCutoffAtType DEF LeaseInv, RuleOf, OriginOf
<1>2. Write(id, row) /\ UNCHANGED <<rules, userCutoff, now>>
  BY DEF InsertRuleRow
<1>3. row.status \in {"pending", "superseded"} /\ row.cutoff = at /\ row.want = want
  BY DEF AbsentRow
<1> HIDE DEF row, id
<1>4. rows'[id] = row /\ OnlyRow(id)
  BY <1>1, <1>2, WrittenRow DEF LeaseInv
<1>5. UserLawful
  BY InsertForUser
<1>6. QED
  BY <1>1, <1>2, <1>3, <1>4, <1>5 DEF id

LEMMA ReactivateEffect ==
  ASSUME LeaseInv, NEW r \in Rules, NEW d \in Dates, ReactivateRuleRow(r, d)
  PROVE  /\ OnlyRow(<<r, d>>) /\ UserLawful /\ UNCHANGED <<rules, userCutoff, now>>
         /\ rows'[<<r, d>>].status \in {"pending", "skipped"}
         /\ rows'[<<r, d>>].cutoff = RuleCutoffAt(<<r, d>>)
         /\ rows'[<<r, d>>].want = rules[r].want
<1> DEFINE id    == <<r, d>>
           at    == RuleCutoffAt(id)
           want  == RuleOf(id).want
           to    == Prior(rows[id])
           fresh == [rows[id] EXCEPT !.cutoff = at]
           row   == [UnleasedWrite(fresh) EXCEPT !.status = to, !.reason = "none",
                                                 !.from = "none", !.want = want]
<1>1. id \in RowIds /\ at \in Int /\ want \in Wants /\ want = rules[r].want
  BY RuleCutoffAtType DEF LeaseInv, RuleOf, OriginOf, Rule
<1>2. PICK old \in Row : old = rows[id]
  BY <1>1, StoredRow DEF LeaseInv
<1>3. Write(id, row) /\ UNCHANGED <<rules, userCutoff, now>>
  BY DEF ReactivateRuleRow
<1>4. to \in {"pending", "skipped"}
  BY <1>2, PriorType
<1>5. fresh \in Row /\ fresh.cutoff = at
  BY <1>1, <1>2 DEF Row
<1> HIDE DEF fresh, to, at, want
<1>6. PICK u \in Row : u = UnleasedWrite(fresh) /\ u.cutoff = at
  BY <1>5, UnleasedWriteType DEF UnleasedWrite, Row
<1>7. row.status = to /\ row.cutoff = at /\ row.want = want
  <2>1. LET v == [u EXCEPT !.status = to, !.reason = "none", !.from = "none", !.want = want] IN
        v.status = to /\ v.cutoff = at /\ v.want = want
    BY <1>6 DEF Row
  <2>2. QED
    BY <1>6, <2>1
<1> HIDE DEF row, id
<1>8. rows'[id] = row /\ OnlyRow(id)
  BY <1>1, <1>3, WrittenRow DEF LeaseInv
<1>9. UserLawful
  BY ReactivateForUser
<1>10. QED
  BY <1>1, <1>3, <1>4, <1>7, <1>8, <1>9 DEF id, at

LEMMA WithdrawEffect ==
  ASSUME LeaseInv, NEW r \in Rules, NEW d \in Dates, WithdrawRuleRow(r, d)
  PROVE  /\ OnlyRow(<<r, d>>) /\ UserLawful /\ UNCHANGED <<rules, userCutoff, now>>
         /\ rows'[<<r, d>>].status = "withdrawn"
<1> DEFINE id  == <<r, d>>
           row == [UnleasedWrite(rows[id]) EXCEPT !.status = "withdrawn", !.reason = "system"]
<1>1. id \in RowIds
  BY RuleCutoffAtType DEF LeaseInv
<1>2. PICK old \in Row, u \in Row : old = rows[id] /\ u = UnleasedWrite(rows[id])
  BY <1>1, StoredRow, UnleasedWriteType DEF LeaseInv
<1>3. Write(id, row) /\ UNCHANGED <<rules, userCutoff, now>>
  BY DEF WithdrawRuleRow
<1>4. row.status = "withdrawn"
  <2>1. [u EXCEPT !.status = "withdrawn", !.reason = "system"].status = "withdrawn"
    BY DEF Row
  <2>2. QED
    BY <1>2, <2>1
<1> HIDE DEF row, id
<1>5. rows'[id] = row /\ OnlyRow(id)
  BY <1>1, <1>3, WrittenRow DEF LeaseInv
<1>6. UserLawful
  BY WithdrawForUser
<1>7. QED
  BY <1>3, <1>4, <1>5, <1>6 DEF id

LEMMA RewriteEffect ==
  ASSUME LeaseInv, NEW r \in Rules, NEW d \in Dates, RewritePendingRuleRow(r, d)
  PROVE  /\ OnlyRow(<<r, d>>) /\ UserLawful /\ UNCHANGED <<rules, userCutoff, now>>
         /\ rows'[<<r, d>>].want = rules[r].want
         /\ rows'[<<r, d>>].status = rows[<<r, d>>].status
         /\ rows'[<<r, d>>].cutoff = rows[<<r, d>>].cutoff
         /\ rows'[<<r, d>>].live = rows[<<r, d>>].live
<1> DEFINE id   == <<r, d>>
           want == RuleOf(id).want
           row  == [UnleasedWrite(rows[id]) EXCEPT !.want = want]
<1>1. id \in RowIds /\ want = rules[r].want
  BY RuleCutoffAtType DEF LeaseInv, RuleOf, OriginOf
<1>2. PICK old \in Row, u \in Row : /\ old = rows[id] /\ u = UnleasedWrite(rows[id])
                                    /\ u.status = old.status /\ u.cutoff = old.cutoff
                                    /\ u.live = old.live
  <2>1. PICK old \in Row : old = rows[id]
    BY <1>1, StoredRow DEF LeaseInv
  <2>2. LET u == UnleasedWrite(old) IN
        u \in Row /\ u.status = old.status /\ u.cutoff = old.cutoff /\ u.live = old.live
    BY UnleasedWriteType DEF UnleasedWrite, Row
  <2>3. QED
    BY <2>1, <2>2
<1>3. Write(id, row) /\ UNCHANGED <<rules, userCutoff, now>>
  BY DEF RewritePendingRuleRow
<1> HIDE DEF want
<1>4. row.want = want /\ row.status = old.status /\ row.cutoff = old.cutoff /\ row.live = old.live
  <2>1. LET v == [u EXCEPT !.want = want] IN
        v.want = want /\ v.status = u.status /\ v.cutoff = u.cutoff /\ v.live = u.live
    BY DEF Row
  <2>2. QED
    BY <1>2, <2>1
<1> HIDE DEF row, id
<1>5. rows'[id] = row /\ OnlyRow(id)
  BY <1>1, <1>3, WrittenRow DEF LeaseInv
<1>6. UserLawful
  BY RewriteForUser
<1>7. QED
  BY <1>1, <1>2, <1>3, <1>4, <1>5, <1>6 DEF id

\* A rule's cutoff reaches its rows; a row that is on it already is not written.
LEMMA CutoffEffect ==
  ASSUME LeaseInv, NEW r \in Rules, RewriteRuleCutoff(r), NEW d \in Dates
  PROVE  /\ UNCHANGED <<rules, userCutoff, now>>
         /\ CutoffFresh(r, d)'
         /\ CutoffFresh(r, d) => rows'[<<r, d>>] = rows[<<r, d>>]
<1> DEFINE id == <<r, d>>
           at == RuleCutoffAt(id)
           late == /\ rows[id].status \in CutoffRewriteStatuses /\ d >= Today
                   /\ rows[id].cutoff # at /\ ~rows[id].live
<1>1. /\ id \in RowIds /\ OriginOf(id) = r /\ DateOf(id) = d
  BY RuleCutoffAtType DEF LeaseInv, OriginOf, DateOf
<1>2. UNCHANGED <<rules, userCutoff, now>>
  BY DEF RewriteRuleCutoff
<1>3. rows'[id] = IF late THEN [UnleasedWrite(rows[id]) EXCEPT !.cutoff = at] ELSE rows[id]
  BY <1>1 DEF RewriteRuleCutoff, RewriteCutoffs, LeaseHeld
<1>4. late => rows'[id].cutoff = at
  <2>1. PICK u \in Row : u = UnleasedWrite(rows[id])
    BY <1>1, StoredRow, UnleasedWriteType DEF LeaseInv
  <2>2. [u EXCEPT !.cutoff = at].cutoff = at
    BY DEF Row
  <2>3. QED
    BY <1>3, <2>1, <2>2
<1>5. Today' = Today /\ RuleCutoffAt(id)' = at
  BY <1>2, CutoffKept DEF Today
<1>6. CutoffFresh(r, d)'
  BY <1>3, <1>4, <1>5 DEF CutoffFresh
<1>7. CutoffFresh(r, d) => ~late
  BY DEF CutoffFresh
<1>8. QED
  BY <1>2, <1>3, <1>6, <1>7
-----------------------------------------------------------------------------
(* The visits: a date of a loop is read, and acted on *)

CalmInv == LeaseInv /\ WithdrawnBySystem /\ JobsOK /\ JobsFit

LEMMA VisitSite ==
  ASSUME CalmInv, NEW p \in Jobs, NEW ph \in DateLoops, NEW act, Visits(p, ph, act)
  PROVE  /\ job[p].rule \in Rules /\ Day(p) \in Dates /\ job[p].plan \in VisitPlans
         /\ Own(p) = rows[<<job[p].rule, Day(p)>>] /\ Own(p) \in Row
         /\ ph = "walk" => job[p].plan \in WalkPlans
         /\ ph = "rewrite" => job[p].plan = EditRewrite
         /\ ph = "withdraw" => job[p].plan \in {Withdrawal, MoveWithdraw}
<1>1. TypeOK /\ JobsOK /\ At(p, ph) /\ job[p].todo # {}
  BY DEF CalmInv, LeaseInv, Visits
<1>2. /\ job[p].rule \in Rules /\ Day(p) \in Dates /\ Own(p) \in Row
      /\ Own(p) = rows[<<job[p].rule, Day(p)>>]
  BY <1>1, LoopSite DEF Own, OwnId
<1>3. job[p].plan \in Plans /\ job[p].plan # <<>> /\ Head(job[p].plan) = ph
  BY <1>1, Site DEF JobOK, Job
<1>4. job[p].plan \in VisitPlans
  BY <1>3, VisitPlansOnly
<1>5. QED
  BY <1>2, <1>3, <1>4, PlanSizes DEF VisitPlans, WalkPlans

\* After its first guarded call a job nobody wrote beside carries what is stored.
LEMMA FreshCopy ==
  ASSUME CalmInv, NEW p \in Jobs, Steady(p), job[p].plan \in WrittenPlans \ {RulePlan}
  PROVE  ~Stale(p) /\ job[p].new = rules[job[p].rule] /\ job[p].cut = userCutoff
<1>1. Knows(job[p]) /\ JobFits(job[p])
  BY DEF CalmInv, JobsFit, Steady
<1>2. QED
  BY <1>1 DEF Knows, Reached, JobFits, CopyOK, Stale, RulePlans

LEMMA QuietVisit ==
  ASSUME CalmInv, NEW p \in Jobs, Steady(p), NextDay(p), NoStoreWrite,
         NEW j, j = job[p], NEW d \in Dates, d = Day(p), j.rule \in Rules, j.plan \in VisitPlans,
         j.plan \in WalkPlans => Placed(j.rule, d),
         j.plan = EditRewrite /\ InPlace(j) => WantFresh(j.rule, d),
         j.plan = Withdrawal => Gone(j.rule, d)
  PROVE  Steady(p)'
<1>1. UNCHANGED <<rows, slots, rules, userCutoff, version, now>>
  BY DEF NoStoreWrite, vars
<1>2. TypeOK /\ JobsOK
  BY DEF CalmInv, LeaseInv
<1>3. Leaves(j, job'[p], d)
  BY <1>2, NextDayEffect
<1>4. \A e \in Dates : DateKept(j.rule, e)
  BY <1>1, <1>2, DateQuiet DEF TypeOK
<1>5. DateDone(j, d)
  <2>1. CutoffsDone(j) => CutoffFresh(j.rule, d)
    BY DEF Steady, CutoffsOK
  <2>2. j.plan \in WalkPlans => j.plan # EditRewrite
    BY PlanSizes DEF WalkPlans
  <2>3. InPlace(j) /\ j.plan = LastWalk /\ d \in DatesForRule(j.new, j.today)
          => WantFresh(j.rule, d)
    BY PlanSizes DEF Steady, WantsOK
  <2>4. QED
    BY <1>4, <2>1, <2>2, <2>3 DEF DateDone, DateKept
<1>6. QED
  BY <1>1, <1>2, <1>3, <1>4, <1>5, LeaveSteady

LEMMA WriteVisit ==
  ASSUME CalmInv, LeaseInv', NEW p \in Jobs, Steady(p), NextDay(p), RowsOnly,
         NEW j, j = job[p], NEW d \in Dates, d = Day(p), j.rule \in Rules, j.plan \in VisitPlans,
         OnlyRow(<<j.rule, d>>), UserLawful, UNCHANGED <<rules, userCutoff, now>>,
         DateDone(j, d)
  PROVE  Steady(p)'
<1>1. LeaseInv /\ JobsOK
  BY DEF CalmInv
<1>2. Leaves(j, job'[p], d)
  BY <1>1, NextDayEffect
<1>3. \A e \in Dates \ {d} : DateKept(j.rule, e)
  BY <1>1, OtherDates
<1>4. QED
  BY <1>1, <1>2, <1>3, LeaveSteady DEF RowsOnly

LEMMA DecideVisit ==
  ASSUME CalmInv, NEW p \in Jobs, Steady(p), Own(p) \in Row, NEW act \in Calls, act # "none",
         Decide(p, act), NoStoreWrite, act = "insert" => Own(p).status = "absent"
  PROVE  Steady(p)'
<1>1. UNCHANGED <<rows, slots, rules, userCutoff, version, now>> /\ TypeOK /\ JobsOK
  BY DEF NoStoreWrite, vars, CalmInv, LeaseInv
<1>2. QED
  BY <1>1, DecideEffect, DecideSteady

\* A job that gave up has nothing to know.
LEMMA AbortSteady ==
  ASSUME CalmInv, NEW p \in Jobs, Abort(p)
  PROVE  Steady(p)'
<1>1. PICK k : k = job'[p] /\ k.plan \in TickPlans
  BY AbortEffect, IdleType DEF CalmInv, GivesUp, TickPlans
<1>2. SteadyJob(k)' /\ k.plan \notin WalkPlans
  BY <1>1, NothingToKnow
<1>3. QED
  BY <1>1, <1>2 DEF Steady, SteadyJob, InsertOK

LEMMA WalkSteady ==
  ASSUME CalmInv, LeaseInv', NEW p \in Jobs, Steady(p),
         ReadHistory(p) \/ Insert(p) \/ Reactivate(p)
  PROVE  Steady(p)'
<1>1. PICK j, r, d :
      /\ j = job[p] /\ r = j.rule /\ d = Day(p) /\ r \in Rules /\ d \in Dates /\ j.plan \in VisitPlans /\ j.plan \in WalkPlans
      /\ Own(p) = rows[<<r, d>>] /\ Own(p) \in Row
  BY VisitSite DEF ReadHistory, Insert, Reactivate, DateLoops
<1>2. /\ j.plan \in WrittenPlans \ {RulePlan}
      /\ j.plan \notin {EditRewrite, Withdrawal}
  BY <1>1, PlanSizes DEF WalkPlans, WrittenPlans
<1>3. ~Stale(p) /\ j.new = rules[r] /\ j.cut = userCutoff
  BY <1>1, <1>2, FreshCopy
<1>4. CASE ReadHistory(p)
  <2>1. Decide(p, Classify(p)) /\ NoStoreWrite
    BY <1>4 DEF ReadHistory
  <2>2. Classify(p) \in Calls
    BY DEF Classify, Calls
  <2>3. Classify(p) = "insert" => Own(p).status = "absent"
    BY DEF Classify
  <2>4. CASE Classify(p) = "none"
    <3>1. Placed(r, d)
      <4>1. RuleCutoffAt(<<r, d>>) = CutoffAt(d, Resolve(j.new.cutoff, j.cut))
        BY <1>3 DEF RuleCutoffAt, RuleOf, OriginOf, DateOf
      <4>2. SUFFICES ASSUME Due(r, d)
                     PROVE  /\ Own(p).status # "absent"
                            /\ Own(p).status = "withdrawn" => slots[d] # NoRow
        BY <1>1 DEF Placed
      <4>3. ~(Frozen(d, RuleCutoffAt(<<r, d>>)) \/ DateClosed(d))
        BY <4>2 DEF Due
      <4>4. /\ Own(p).status # "absent"
            /\ ~(Own(p).status = "withdrawn" /\ Own(p).reason = "system" /\ slots[d] = NoRow)
        BY <1>1, <2>4, <4>1, <4>3 DEF Classify
      <4>5. Own(p).status = "withdrawn" => Own(p).reason = "system"
        BY <1>1 DEF CalmInv, WithdrawnBySystem, IsRuleRow, OriginOf, RowIds, Origins
      <4>6. QED
        BY <4>4, <4>5
    <3>2. NextDay(p)
      BY <2>1, <2>4 DEF Decide
    <3>3. QED
      BY <1>1, <1>2, <2>1, <3>1, <3>2, QuietVisit
  <2>5. CASE Classify(p) # "none"
    BY <1>1, <2>1, <2>2, <2>3, <2>5, DecideVisit
  <2>6. QED
    BY <2>4, <2>5
<1>5. CASE Insert(p)
  <2>1. Own(p).status = "absent"
    BY <1>1, <1>5 DEF Insert, Visits, Steady, InsertOK
  <2>2. CASE InsertRuleRow(r, d) /\ NextDay(p) /\ RowsOnly
    <3>1. /\ OnlyRow(<<r, d>>) /\ UserLawful /\ UNCHANGED <<rules, userCutoff, now>>
          /\ rows'[<<r, d>>].status \in {"pending", "superseded"}
          /\ rows'[<<r, d>>].cutoff = RuleCutoffAt(<<r, d>>)
          /\ rows'[<<r, d>>].want = rules[r].want
      BY <1>1, <2>2, InsertEffect DEF CalmInv
    <3>2. DateDone(j, d)
      BY <1>1, <1>2, <3>1, CutoffKept DEF DateDone, CutoffFresh, Placed, WantFresh
    <3>3. QED
      BY <1>1, <2>2, <3>1, <3>2, WriteVisit
  <2>3. CASE Abort(p)
    BY <2>3, AbortSteady
  <2>4. QED
    BY <1>1, <1>5, <2>1, <2>2, <2>3 DEF Insert
<1>6. CASE Reactivate(p)
  <2>1. CASE ReactivateRuleRow(r, d) /\ NextDay(p) /\ RowsOnly
    <3>1. /\ OnlyRow(<<r, d>>) /\ UserLawful /\ UNCHANGED <<rules, userCutoff, now>>
          /\ rows'[<<r, d>>].status \in {"pending", "skipped"}
          /\ rows'[<<r, d>>].cutoff = RuleCutoffAt(<<r, d>>)
          /\ rows'[<<r, d>>].want = rules[r].want
      BY <1>1, <2>1, ReactivateEffect DEF CalmInv
    <3>2. DateDone(j, d)
      BY <1>1, <1>2, <3>1, CutoffKept DEF DateDone, CutoffFresh, Placed, WantFresh
    <3>3. QED
      BY <1>1, <2>1, <3>1, <3>2, WriteVisit
  <2>2. CASE Abort(p)
    BY <2>2, AbortSteady
  <2>3. QED
    BY <1>1, <1>6, <2>1, <2>2 DEF Reactivate
<1>7. QED
  BY <1>4, <1>5, <1>6

LEMMA WithdrawSteady ==
  ASSUME CalmInv, LeaseInv', NEW p \in Jobs, Steady(p), ReadWithdrawable(p) \/ Withdraw(p)
  PROVE  Steady(p)'
<1>1. PICK j, r, d :
      /\ j = job[p] /\ r = j.rule /\ d = Day(p) /\ r \in Rules /\ d \in Dates /\ j.plan \in VisitPlans
      /\ j.plan \in {Withdrawal, MoveWithdraw}
      /\ Own(p) = rows[<<r, d>>] /\ Own(p) \in Row
  BY VisitSite DEF ReadWithdrawable, Withdraw, DateLoops
<1>2. /\ j.plan \notin WalkPlans \cup {EditRewrite, LastWalk}
      /\ ~CutoffsDone(j)
  BY <1>1, PlanSizes DEF WalkPlans, MarkPlans, CutoffsDone
<1>3. CASE ReadWithdrawable(p)
  <2>1. CASE Own(p).status \in Withdrawable
    <3>1. Decide(p, "withdraw") /\ NoStoreWrite /\ "withdraw" \in Calls
      BY <1>3, <2>1 DEF ReadWithdrawable, Calls
    <3>2. QED
      BY <1>1, <3>1, DecideVisit
  <2>2. CASE Own(p).status \notin Withdrawable
    <3>1. NextDay(p) /\ NoStoreWrite
      BY <1>3, <2>2 DEF ReadWithdrawable, Decide
    <3>2. Gone(r, d)
      BY <1>1, <2>2 DEF Gone, Withdrawable
    <3>3. QED
      BY <1>1, <1>2, <3>1, <3>2, QuietVisit
  <2>3. QED
    BY <2>1, <2>2
<1>4. CASE Withdraw(p)
  <2>1. CASE WithdrawRuleRow(r, d) /\ NextDay(p) /\ RowsOnly
    <3>1. /\ OnlyRow(<<r, d>>) /\ UserLawful /\ UNCHANGED <<rules, userCutoff, now>>
          /\ rows'[<<r, d>>].status = "withdrawn"
      BY <1>1, <2>1, WithdrawEffect DEF CalmInv
    <3>2. DateDone(j, d)
      BY <1>1, <1>2, <3>1 DEF DateDone, Gone
    <3>3. QED
      BY <1>1, <2>1, <3>1, <3>2, WriteVisit
  <2>2. CASE LeaseHeld(OwnId(p)) /\ NextDay(p) /\ NoStoreWrite
    <3>1. Gone(r, d)
      BY <1>1, <2>2 DEF Gone, OwnId
    <3>2. QED
      BY <1>1, <1>2, <2>2, <3>1, QuietVisit
  <2>3. CASE Abort(p)
    BY <2>3, AbortSteady
  <2>4. QED
    BY <1>1, <1>4, <2>1, <2>2, <2>3 DEF Withdraw
<1>5. QED
  BY <1>3, <1>4

LEMMA RewriteSteady ==
  ASSUME CalmInv, LeaseInv', NEW p \in Jobs, Steady(p), ReadRewritable(p) \/ Rewrite(p)
  PROVE  Steady(p)'
<1>1. PICK j, r, d :
      /\ j = job[p] /\ r = j.rule /\ d = Day(p) /\ r \in Rules /\ d \in Dates /\ j.plan \in VisitPlans /\ j.plan = EditRewrite
      /\ Own(p) = rows[<<r, d>>] /\ Own(p) \in Row
  BY VisitSite DEF ReadRewritable, Rewrite, DateLoops
<1>2. /\ j.plan \notin WalkPlans \cup {Withdrawal}
      /\ CutoffsDone(j)
  BY <1>1, PlanSizes DEF WalkPlans, MarkPlans, CutoffsDone
<1>3. CASE ReadRewritable(p)
  <2>1. CASE Own(p).status = "pending" /\ ~Frozen(d, Own(p).cutoff)
    <3>1. Decide(p, "rewrite") /\ NoStoreWrite /\ "rewrite" \in Calls
      BY <1>1, <1>3, <2>1 DEF ReadRewritable, Calls
    <3>2. QED
      BY <1>1, <3>1, DecideVisit
  <2>2. CASE ~(Own(p).status = "pending" /\ ~Frozen(d, Own(p).cutoff))
    <3>1. NextDay(p) /\ NoStoreWrite
      BY <1>1, <1>3, <2>2 DEF ReadRewritable, Decide
    <3>2. WantFresh(r, d)
      BY <1>1, <2>2 DEF WantFresh
    <3>3. QED
      BY <1>1, <1>2, <3>1, <3>2, QuietVisit
  <2>3. QED
    BY <2>1, <2>2
<1>4. CASE Rewrite(p)
  <2>1. CASE RewritePendingRuleRow(r, d) /\ NextDay(p) /\ RowsOnly
    <3>1. /\ OnlyRow(<<r, d>>) /\ UserLawful /\ UNCHANGED <<rules, userCutoff, now>>
          /\ rows'[<<r, d>>].want = rules[r].want
          /\ rows'[<<r, d>>].status = rows[<<r, d>>].status
          /\ rows'[<<r, d>>].cutoff = rows[<<r, d>>].cutoff
          /\ rows'[<<r, d>>].live = rows[<<r, d>>].live
      BY <1>1, <2>1, RewriteEffect DEF CalmInv
    <3>2. CutoffFresh(r, d)
      BY <1>1, <1>2 DEF Steady, CutoffsOK
    <3>3. CutoffFresh(r, d)'
      BY <3>1, <3>2, CutoffKept DEF CutoffFresh, Today
    <3>4. DateDone(j, d)
      BY <1>1, <1>2, <3>1, <3>3 DEF DateDone, WantFresh
    <3>5. QED
      BY <1>1, <2>1, <3>1, <3>4, WriteVisit
  <2>2. CASE LeaseHeld(OwnId(p)) /\ NextDay(p) /\ NoStoreWrite
    <3>1. WantFresh(r, d)
      BY <1>1, <2>2 DEF WantFresh, OwnId, LeaseHeld
    <3>2. QED
      BY <1>1, <1>2, <2>2, <3>1, QuietVisit
  <2>3. CASE Abort(p)
    BY <2>3, AbortSteady
  <2>4. QED
    BY <1>1, <1>4, <2>1, <2>2, <2>3 DEF Rewrite
<1>5. QED
  BY <1>3, <1>4
-----------------------------------------------------------------------------
(* The calls between the loops *)

LEMMA GoneOn ==
  ASSUME NEW p, NEW k, k = job'[p], k.plan = <<>> => k = Idle, k.plan # <<>> => k.act = "none",
         SteadyJob(k)'
  PROVE  Steady(p)'
<1>1. k.act = "none"
  BY DEF Idle
<1>2. QED
  BY <1>1 DEF Steady, SteadyJob, InsertOK

\* The job that goes on with j's plan, where it stands and what it knows already.
LEMMA GoingOn ==
  ASSUME CalmInv, NEW p \in Jobs, Steady(p), NEW ph, At(p, ph), Advance(p)
  PROVE  \E j, k : /\ j = job[p] /\ k = job'[p] /\ JobOK(j) /\ GoesOn(j, k)
                   /\ SteadyJob(j) /\ JobFits(j)
                   /\ Head(j.plan) = ph /\ PlanGoes(j.plan)
                   /\ (ph \in RuleCalls => j.rule \in Rules /\ j.plan \in RulePlans)
<1>1. JobsOK /\ Busy(p)
  BY DEF CalmInv, At
<1>2. GoesOn(job[p], job'[p])
  BY <1>1, AdvanceEffect
<1>3. QED
  BY <1>1, <1>2, Site DEF CalmInv, JobsFit, Steady, SteadyJob

LEMMA ResetSteady ==
  ASSUME CalmInv, NEW p \in Jobs, Steady(p), Reset(p)
  PROVE  Steady(p)'
<1>1. PICK j, k : /\ j = job[p] /\ k = job'[p] /\ JobOK(j) /\ GoesOn(j, k) /\ SteadyJob(j)
                  /\ Head(j.plan) = "reset" /\ PlanGoes(j.plan) /\ j.plan \in RulePlans
  BY GoingOn DEF Reset, RuleCalls
<1>2. UNCHANGED <<rows, userCutoff, version>>
  BY DEF Reset, vars
<1>3. \/ j.plan = Deactivate /\ k.plan = Withdrawal
      \/ j.plan = LastReset /\ k.plan = LastUpsert
  BY <1>1 DEF PlanGoes, GoesOn
<1>4. k.plan \in UpsertPlans /\ k.plan # <<>>
  BY <1>3, PlanKinds DEF UpsertPlans, DeactivatePlans, RulePlans
<1>5. Carries(j, k) /\ k.todo = Loop(j, Head(k.plan))
  BY <1>1, <1>4 DEF GoesOn
<1>6. Knows(k)'
  BY <1>1, <1>2, <1>4, <1>5, PlanKinds DEF SteadyJob, Knows, Reached, Carries
<1>7. CutoffsOK(k)' /\ WalkOK(k)' /\ WantsOK(k)'
  BY <1>3, PlanSizes DEF CutoffsOK, CutoffsDone, WalkOK, WantsOK, WalkPlans, MarkPlans
<1>8. GoneOK(k)'
  <2>1. CASE k.plan = Withdrawal
    BY <1>5, <2>1, PlanSizes DEF GoneOK, Loop, DateLoops, Carries
  <2>2. CASE j.plan = LastReset /\ k.plan = LastUpsert
    BY <1>1, <1>2, <1>5, <2>2, PlanSizes DEF SteadyJob, GoneOK, Gone, LeaseHeld, Carries
  <2>3. QED
    BY <1>3, <2>1, <2>2
<1>9. QED
  BY <1>1, <1>6, <1>7, <1>8, GoneOn DEF GoesOn, SteadyJob

LEMMA UpsertSteady ==
  ASSUME CalmInv, NEW p \in Jobs, Steady(p), Upsert(p)
  PROVE  Steady(p)'
<1>1. CASE Upserted(p)
  <2>1. PICK j, k : /\ j = job[p] /\ k = job'[p] /\ JobOK(j) /\ SteadyJob(j) /\ Fits(j)
                    /\ Head(j.plan) = "upsert" /\ PlanGoes(j.plan) /\ j.plan \in RulePlans
    BY Site DEF CalmInv, Upsert, RuleCalls, JobsFit, JobFits, Steady, SteadyJob
  <2>2. /\ k.plan = Tail(j.plan) /\ (k.plan = <<>> => k = Idle)
        /\ k.plan # <<>> => /\ k.rule = j.rule /\ k.old = j.old /\ k.new = j.new
                            /\ k.ver = j.ver + 1 /\ k.cut = j.cut /\ k.act = "none"
        /\ j.ver = version[j.rule] /\ j.rule \in Rules /\ UNCHANGED userCutoff
        /\ version' = [version EXCEPT ![j.rule] = version[j.rule] + 1]
    BY <1>1, <2>1 DEF Upserted, Stale
  <2>3. \/ j.plan = LastUpsert /\ k.plan = <<>>
        \/ j.plan = Activate /\ k.plan = LastCutoff
        \/ j.plan = Move /\ k.plan = MoveWithdraw
        \/ j.plan = Edit /\ k.plan = EditCutoff
    BY <2>1, <2>2 DEF PlanGoes
  <2>4. CASE k.plan = <<>>
    <3>1. k = job'[p] /\ k = Idle /\ k.plan \in TickPlans
      BY <2>1, <2>2, <2>4 DEF TickPlans
    <3>2. SteadyJob(k)'
      BY <3>1, NothingToKnow
    <3>3. QED
      BY <2>4, <3>1, <3>2, GoneOn
  <2>5. CASE k.plan # <<>>
    <3>1. k.ver = version'[k.rule]
      BY <2>2, <2>5 DEF CalmInv, JobsOK
    <3>2. Knows(k)'
      BY <2>1, <2>2, <2>5, <3>1 DEF SteadyJob, Knows
    <3>3. ~(k.plan = LastCutoff /\ InPlace(k))
      <4>1. SUFFICES ASSUME k.plan = LastCutoff, InPlace(k)
                     PROVE  FALSE
        OBVIOUS
      <4>2. j.plan = Activate
        BY <2>3, <4>1, <2>5, PlanSizes
      <4>5. InPlace(j)
        BY <2>2, <2>5, <4>1 DEF InPlace
      <4>3. Activate \in RequestPlans /\ Activate \notin EditPlans
        BY PlanFamilies
      <4>4. QED
        BY <2>1, <4>2, <4>3, <4>5 DEF Fits
    <3>4. CutoffsOK(k)' /\ WalkOK(k)' /\ WantsOK(k)' /\ GoneOK(k)'
      <4>1. k.plan \in {LastCutoff, MoveWithdraw, EditCutoff}
        BY <2>3, <2>5
      <4>2. /\ k.plan \notin WalkPlans \cup MarkPlans \cup {EditRewrite}
            /\ k.plan \notin {Withdrawal, LastReset, LastUpsert}
        BY <4>1, PlanSizes DEF WalkPlans, MarkPlans
      <4>3. k.plan \notin {LastWalk, LastMark, EditRewrite}
        BY <4>2 DEF WalkPlans, MarkPlans
      <4>4. QED
        BY <3>3, <4>2, <4>3 DEF CutoffsOK, CutoffsDone, WalkOK, WantsOK, GoneOK
    <3>5. QED
      BY <2>1, <2>2, <3>2, <3>4, GoneOn DEF SteadyJob
  <2>6. QED
    BY <2>4, <2>5
<1>2. CASE GivesUp(job[p], job'[p])
  <2>1. PICK k : k = job'[p] /\ k.plan \in TickPlans
    BY <1>2, IdleType DEF GivesUp, TickPlans
  <2>2. SteadyJob(k)' /\ k.plan \notin WalkPlans
    BY <2>1, NothingToKnow
  <2>3. QED
    BY <2>1, <2>2 DEF Steady, SteadyJob, InsertOK
<1>3. QED
  BY <1>1, <1>2, UpsertEffect DEF CalmInv, LeaseInv

LEMMA CutoffSteady ==
  ASSUME CalmInv, NEW p \in Jobs, Steady(p), Cutoff(p)
  PROVE  Steady(p)'
<1>1. CASE Abort(p)
  BY <1>1, AbortSteady
<1>2. CASE ~Stale(p) /\ RewriteRuleCutoff(job[p].rule) /\ Advance(p) /\ RowsOnly
  <2>1. PICK j, k : /\ j = job[p] /\ k = job'[p] /\ JobOK(j) /\ GoesOn(j, k) /\ SteadyJob(j)
                    /\ Head(j.plan) = "cutoff" /\ PlanGoes(j.plan)
                    /\ j.rule \in Rules /\ j.plan \in RulePlans
    BY <1>2, GoingOn DEF Cutoff, RuleCalls
  <2>2. /\ j.ver = version[j.rule] /\ UNCHANGED <<userCutoff, version, rules, now>>
        /\ \A d \in Dates : /\ CutoffFresh(j.rule, d)'
                            /\ CutoffFresh(j.rule, d) => rows'[<<j.rule, d>>] = rows[<<j.rule, d>>]
    <3>1. LeaseInv /\ RewriteRuleCutoff(j.rule) /\ UNCHANGED version
      BY <1>2, <2>1 DEF CalmInv, RowsOnly
    <3>2. UNCHANGED <<userCutoff, rules, now>>
      BY <3>1 DEF RewriteRuleCutoff
    <3>3. QED
      BY <1>2, <2>1, <3>1, <3>2, CutoffEffect DEF Stale
  <2>3. \/ j.plan = RulePlan /\ k.plan = TickWalk
        \/ j.plan = EditCutoff /\ k.plan = EditRewrite
        \/ j.plan = LastCutoff /\ k.plan = LastWalk
    BY <2>1 DEF PlanGoes, GoesOn
  <2>4. k.plan # <<>> /\ Carries(j, k) /\ k.todo = Loop(j, Head(k.plan)) /\ k.rule = j.rule
    <3>1. k.plan \in WrittenPlans /\ k.plan # <<>>
      BY <2>3, PlanKinds DEF WrittenPlans, RulePlans
    <3>2. QED
      BY <2>1, <3>1 DEF GoesOn, Carries
  <2>5. Knows(k)'
    BY <2>1, <2>2, <2>4 DEF SteadyJob, Knows, Carries
  <2>6. CutoffsOK(k)'
    BY <2>2, <2>4 DEF CutoffsOK
  <2>7. WalkOK(k)'
    BY <2>3, <2>4, PlanSizes DEF WalkOK, WalkPlans, MarkPlans, Loop, DateLoops, Carries
  <2>8. WantsOK(k)'
    <3>1. CASE k.plan \in {TickWalk, EditRewrite}
      <4>1. k.plan = EditRewrite => k.todo = DatesForRule(j.new, j.today)
        BY <2>4, PlanSizes DEF Loop, DateLoops
      <4>2. k.plan \notin {LastCutoff, LastWalk, LastMark}
        BY <3>1, PlanSizes
      <4>3. QED
        BY <2>4, <4>1, <4>2 DEF WantsOK, Carries
    <3>2. CASE j.plan = LastCutoff /\ k.plan = LastWalk
      <4>1. SUFFICES ASSUME InPlace(k), NEW d \in DatesForRule(k.new, k.today)
                     PROVE  WantFresh(k.rule, d)'
        BY <3>2, PlanSizes DEF WantsOK
      <4>2. d \in Dates /\ d \in DatesForRule(j.new, j.today) /\ InPlace(j)
        BY <2>4, <4>1, RuleDates DEF Carries, InPlace
      <4>3. CutoffFresh(j.rule, d) /\ WantFresh(j.rule, d)
        BY <2>1, <3>2, <4>2, PlanSizes DEF SteadyJob, CutoffsOK, CutoffsDone, WantsOK
      <4>4. rows'[<<j.rule, d>>] = rows[<<j.rule, d>>]
        BY <2>2, <4>2, <4>3
      <4>5. QED
        BY <2>2, <2>4, <4>3, <4>4 DEF WantFresh, Frozen, Today
    <3>3. QED
      BY <2>3, <3>1, <3>2
  <2>9. GoneOK(k)'
    BY <2>3, PlanSizes DEF GoneOK
  <2>10. QED
    BY <2>1, <2>5, <2>6, <2>7, <2>8, <2>9, GoneOn DEF GoesOn, SteadyJob
<1>3. QED
  BY <1>1, <1>2 DEF Cutoff

LEMMA LoopDoneSteady ==
  ASSUME CalmInv, NEW p \in Jobs, Steady(p), LoopDone(p)
  PROVE  Steady(p)'
<1>1. PICK ph \in DateLoops : At(p, ph)
  BY DEF LoopDone
<1>2. PICK j, k : /\ j = job[p] /\ k = job'[p] /\ JobOK(j) /\ GoesOn(j, k) /\ SteadyJob(j)
                  /\ JobFits(j) /\ Head(j.plan) = ph /\ PlanGoes(j.plan)
                  /\ j.rule \in Rules /\ j.plan \in RulePlans
  BY <1>1, GoingOn DEF LoopDone, RuleCalls, DateLoops
<1>3. j.todo = {} /\ UNCHANGED <<rows, slots, rules, userCutoff, version, now>>
  BY <1>2 DEF LoopDone, NoStoreWrite, vars
<1>4. \/ j.plan = Withdrawal /\ k.plan = LastReset
      \/ j.plan = MoveWithdraw /\ k.plan = LastCutoff
      \/ j.plan = EditRewrite /\ k.plan = LastCutoff
      \/ j.plan = TickWalk /\ k.plan = TickMark
      \/ j.plan = LastWalk /\ k.plan = LastMark
  BY <1>1, <1>2 DEF PlanGoes, GoesOn, DateLoops
<1>5. k.plan # <<>> /\ Carries(j, k) /\ k.rule = j.rule
  BY <1>2, <1>4, PlanSizes DEF GoesOn, Carries
<1>6. \A d \in Dates : DateKept(j.rule, d)
  BY <1>2, <1>3, DateQuiet DEF CalmInv, LeaseInv, TypeOK
\* A job that moves its rule is no edit in place.
<1>7. k.plan = LastCutoff /\ InPlace(k) => j.plan = EditRewrite /\ InPlace(j)
  <2>1. k.plan = LastCutoff => j.plan \in {MoveWithdraw, EditRewrite}
    BY <1>4, PlanSizes
  <2>2. InPlace(k) => InPlace(j)
    BY <1>5 DEF InPlace, Carries
  <2>3. MoveWithdraw \in RequestPlans /\ MoveWithdraw \notin EditPlans
    BY PlanFamilies
  <2>4. InPlace(j) => j.plan # MoveWithdraw
    BY <1>2, <2>3 DEF JobFits, Fits
  <2>5. QED
    BY <2>1, <2>2, <2>4
<1>8. Knows(k)'
  <2>1. Reached(k) => Reached(j)
    BY <1>4, PlanSizes, PlanKinds DEF Reached, WrittenPlans, UpsertPlans, DeactivatePlans
  <2>2. QED
    BY <1>2, <1>3, <1>5, <2>1 DEF SteadyJob, Knows, Reached, Carries
<1>9. CutoffsOK(k)'
  <2>1. CutoffsDone(k) => CutoffsDone(j)
    BY <1>4, <1>7, PlanSizes DEF CutoffsDone, WalkPlans, MarkPlans
  <2>2. QED
    BY <1>2, <1>5, <1>6, <2>1 DEF SteadyJob, CutoffsOK, DateKept
<1>10. WalkOK(k)'
  <2>1. k.plan \notin WalkPlans /\ (k.plan \in MarkPlans => j.plan \in WalkPlans)
    BY <1>4, PlanSizes DEF WalkPlans, MarkPlans
  <2>2. QED
    BY <1>2, <1>3, <1>5, <1>6, <2>1, RuleDates DEF SteadyJob, WalkOK, DateKept, Carries
<1>11. WantsOK(k)'
  <2>1. InPlace(k) /\ k.plan \in {EditRewrite, LastCutoff, LastWalk, LastMark}
          => InPlace(j) /\ j.plan \in {EditRewrite, LastWalk}
    <3>1. k.plan \in {LastCutoff, LastMark, LastReset, TickMark}
      BY <1>4
    <3>2. k.plan = LastMark => j.plan = LastWalk
      BY <1>4, PlanSizes
    <3>3. InPlace(k) => InPlace(j)
      BY <1>5 DEF InPlace, Carries
    <3>4. k.plan \notin {EditRewrite, LastWalk}
      BY <3>1, PlanSizes
    <3>5. QED
      BY <1>7, <3>2, <3>3, <3>4
  <2>2. QED
    BY <1>2, <1>3, <1>5, <1>6, <2>1, RuleDates DEF SteadyJob, WantsOK, DateKept, Carries
<1>12. GoneOK(k)'
  <2>1. k.plan \in {Withdrawal, LastReset, LastUpsert} => j.plan = Withdrawal
    BY <1>4, PlanSizes
  <2>2. QED
    BY <1>2, <1>3, <1>5, <1>6, <2>1, RuleDates DEF SteadyJob, GoneOK, DateKept, Carries
<1>13. QED
  BY <1>2, <1>8, <1>9, <1>10, <1>11, <1>12, GoneOn DEF GoesOn, SteadyJob

\* After the watermark, and in the sweep, a job is about no rule any more.
LEMMA LastSteady ==
  ASSUME CalmInv, JobsOK', NEW p \in Jobs, Steady(p), Mark(p) \/ QueryStragglers(p) \/ Sweep(p)
  PROVE  Steady(p)'
<1>1. job'[p].plan \in TickPlans
  <2>1. CASE Mark(p)
    <3>1. PICK j, k : j = job[p] /\ k = job'[p] /\ GoesOn(j, k) /\ Head(j.plan) = "mark"
                      /\ PlanGoes(j.plan)
      BY <2>1, GoingOn DEF Mark
    <3>2. QED
      BY <3>1 DEF PlanGoes, GoesOn, TickPlans
  <2>2. CASE QueryStragglers(p) \/ Sweep(p)
    <3>1. JobChange(p) /\ ~At(p, "upsert")
      BY <2>2, OtherChange DEF CalmInv, LeaseInv, QueryStragglers, Sweep, At
    <3>2. PlanGoes(job[p].plan) /\ Head(job[p].plan) \in {"query", "sweep"}
      BY <2>2, Site DEF CalmInv, QueryStragglers, Sweep
    <3>3. job[p].plan \in {QueryPlan, SweepPlan} /\ Tail(job[p].plan) \in TickPlans
      BY <3>2 DEF PlanGoes, TickPlans
    <3>4. QED
      BY <3>1, <3>3, IdleType DEF JobChange, GoesOn, GivesUp, TickPlans
  <2>3. QED
    BY <2>1, <2>2
<1>2. PICK k : k = job'[p] /\ k.plan \in TickPlans
  BY <1>1
<1>3. SteadyJob(k)' /\ k.plan \notin WalkPlans
  BY <1>2, NothingToKnow
<1>4. QED
  BY <1>2, <1>3 DEF Steady, SteadyJob, InsertOK
-----------------------------------------------------------------------------
(* Starts *)

LEMMA StartSteady ==
  ASSUME CalmInv, NEW p \in Jobs, StartJob(p)
  PROVE  Steady(p)'
<1>1. TypeOK /\ JobsOK
  BY DEF CalmInv, LeaseInv
<1>2. CASE \E r \in Rules, new \in Rule, v \in 0..MaxVersion : StartRequest(p, r, new, v)
  <2>1. PICK k : /\ k = job'[p] /\ k.plan \in {Deactivate, LastUpsert, Activate, Move, Edit}
                 /\ k.cut = userCutoff /\ k.act = "none"
                 /\ (k.old.active /\ k.plan = LastUpsert => FALSE)
    <3>1. PICK r \in Rules, new \in Rule, v \in 0..MaxVersion : StartRequest(p, r, new, v)
      BY <1>2
    <3>2. PICK old, k : /\ k = job'[p] /\ k.plan = EditPlan(old, new) /\ k.old = old
                        /\ k.new = new /\ k.cut = userCutoff /\ k.act = "none"
                        /\ old = rules[r] /\ old \in Rule
      BY <1>1, <3>1, StartRequestEffect DEF TypeOK
    <3>3. k.plan \in {Deactivate, LastUpsert, Activate, Move, Edit}
      BY <3>2 DEF EditPlan, Deactivate, LastUpsert, Activate, Move, Edit, Rule
    <3>4. k.old.active => k.plan \in {Deactivate, Move, Edit}
      BY <3>2 DEF EditPlan, Deactivate, Move, Edit, Rule
    <3>5. QED
      BY <3>2, <3>3, <3>4, PlanSizes
  <2>2. NoStoreWrite
    BY <1>1, <1>2, StartRequestEffect
  <2>3. k.plan \in UpsertPlans
    BY <2>1 DEF UpsertPlans, DeactivatePlans
  <2>4. Knows(k)'
    BY <2>1, <2>2, <2>3, PlanKinds DEF Knows, Reached, NoStoreWrite, vars
  <2>5. /\ k.plan \notin WalkPlans \cup MarkPlans \cup {EditRewrite}
        /\ k.plan \notin {LastCutoff, LastWalk, LastMark, Withdrawal, LastReset}
    BY <2>1, PlanSizes DEF WalkPlans, MarkPlans
  <2>6. CutoffsOK(k)' /\ WalkOK(k)' /\ WantsOK(k)' /\ GoneOK(k)'
    BY <2>1, <2>5 DEF CutoffsOK, CutoffsDone, WalkOK, WantsOK, GoneOK
  <2>7. QED
    BY <2>1, <2>4, <2>5, <2>6 DEF Steady, InsertOK
<1>3. CASE StartTick(p) \/ NextRule(p)
  <2>1. NoStoreWrite
    BY <1>1, <1>3, StartTickEffect, NextRuleEffect
  <2>2. CASE job'[p].plan \in TickPlans
    <3>1. PICK k : k = job'[p] /\ k.plan \in TickPlans
      BY <2>2
    <3>2. QED
      BY <3>1, NothingToKnow DEF Steady, SteadyJob, InsertOK
  <2>3. CASE job'[p].plan = RulePlan /\ job'[p].cut = userCutoff
    <3>1. PICK k : k = job'[p] /\ k.plan = RulePlan /\ k.cut = userCutoff
      BY <2>3
    <3>2. k.plan \notin WalkPlans \cup MarkPlans \cup
                        {EditRewrite, LastCutoff, LastWalk, LastMark, Withdrawal, LastReset,
                         LastUpsert}
      BY <3>1, PlanSizes DEF WalkPlans, MarkPlans
    <3>3. Knows(k)'
      BY <2>1, <3>1 DEF Knows, Reached, NoStoreWrite, vars
    <3>4. CutoffsOK(k)' /\ WalkOK(k)' /\ WantsOK(k)' /\ GoneOK(k)'
      BY <3>2 DEF CutoffsOK, CutoffsDone, WalkOK, WantsOK, GoneOK
    <3>5. QED
      BY <3>1, <3>2, <3>3, <3>4 DEF Steady, InsertOK
  <2>4. QED
    BY <1>1, <1>3, <2>2, <2>3, StartTickEffect, NextRuleEffect DEF TickPlans
<1>4. QED
  BY <1>2, <1>3 DEF StartJob
-----------------------------------------------------------------------------
(* The invariant *)

LEMMA OwnSteady ==
  ASSUME CalmInv, LeaseInv', JobsOK', NEW p \in Jobs, Steady(p), StepJob(p)
  PROVE  Steady(p)'
BY ResetSteady, UpsertSteady, CutoffSteady, LoopDoneSteady, LastSteady, WalkSteady,
   WithdrawSteady, RewriteSteady DEF StepJob

\* Only the clock moves beside the jobs' calls, one step at a time.
LEMMA ClockStep ==
  ASSUME CalmInv, [MNext]_allVars
  PROVE  now' \in {now, now + 1}
<1>1. [Next]_vars
  BY MNextStep DEF CalmInv, LeaseInv
<1>2. CASE Tick
  BY <1>2 DEF Tick
<1>3. CASE MaterializerStep
  BY <1>3 DEF MaterializerStep, InsertRuleRow, ReactivateRuleRow, WithdrawRuleRow,
              RewritePendingRuleRow
<1>4. CASE BotStep
  BY <1>4 DEF BotStep, ClaimRow, AcquireRowLease, ReleaseRowLease, RecordOutcome, LeaseExpires,
              FinalizeLost
<1>5. CASE WebStep
  BY <1>5 DEF WebStep, UserStep, RuleStep, SkipRow, UnskipRow, WebTransition, WithdrawExplicit,
              CreateExplicitRow, SetBookingCutoff, RewriteRuleCutoff, UpsertRule
<1>6. QED
  BY <1>1, <1>2, <1>3, <1>4, <1>5 DEF Next, vars

LEMMA CalmStep ==
  ASSUME CalmInv, CalmOK, LeaseInv', JobsOK', [MNext]_allVars
  PROVE  CalmOK'
<1>1. TypeOK /\ JobsOK /\ calm \subseteq Jobs /\ \A p \in calm : Steady(p)
  BY DEF CalmInv, LeaseInv, CalmOK
<1>2. ASSUME NEW q \in calm, job'[q] = job[q],
             UNCHANGED <<rows, slots, rules, userCutoff, version>>
      PROVE  Steady(q)'
  BY <1>1, <1>2, ClockStep, QuietSteady
<1>3. CASE \E p \in Jobs : StartJob(p) /\ calm' = calm \cup {p}
  <2>1. PICK p \in Jobs : StartJob(p) /\ calm' = calm \cup {p}
    BY <1>3
  <2>2. OnlyJob(p) /\ UNCHANGED <<rows, slots, rules, userCutoff, version>>
    <3>1. OnlyJob(p) /\ NoStoreWrite
      BY <1>1, <2>1, StartRequestEffect, StartTickEffect, NextRuleEffect DEF StartJob
    <3>2. QED
      BY <3>1 DEF NoStoreWrite, vars
  <2>3. Steady(p)'
    BY <2>1, StartSteady
  <2>4. \A q \in calm \ {p} : Steady(q)'
    BY <1>1, <1>2, <2>2 DEF OnlyJob
  <2>5. QED
    BY <1>1, <2>1, <2>3, <2>4 DEF CalmOK
<1>4. CASE \E p \in Jobs : /\ StepJob(p)
                           /\ calm' = IF StoreState' = StoreState THEN calm ELSE calm \cap {p}
  <2>1. PICK p \in Jobs : /\ StepJob(p)
                          /\ calm' = IF StoreState' = StoreState THEN calm ELSE calm \cap {p}
    BY <1>4
  <2>2. OnlyJob(p)
    BY <1>1, <2>1, StepChange DEF JobChange
  <2>3. p \in calm => Steady(p)'
    BY <1>1, <2>1, OwnSteady
  <2>4. StoreState' = StoreState => \A q \in calm \ {p} : Steady(q)'
    BY <1>1, <1>2, <2>2 DEF OnlyJob, StoreState
  <2>5. \A q \in calm' : q \in calm /\ (q = p \/ StoreState' = StoreState)
    BY <2>1
  <2>6. \A q \in calm' : Steady(q)'
    BY <2>3, <2>4, <2>5
  <2>7. QED
    BY <1>1, <2>5, <2>6 DEF CalmOK
<1>5. CASE \E p \in Jobs : DieJob(p) /\ calm' = calm \ {p}
  <2>1. PICK p \in Jobs : DieJob(p) /\ calm' = calm \ {p}
    BY <1>5
  <2>2. OnlyJob(p) /\ UNCHANGED <<rows, slots, rules, userCutoff, version>>
    BY <1>1, <2>1, OneJob DEF DieJob, NoStoreWrite, vars
  <2>3. \A q \in calm \ {p} : Steady(q)'
    BY <1>1, <1>2, <2>2 DEF OnlyJob
  <2>4. QED
    BY <1>1, <2>1, <2>3 DEF CalmOK
<1>6. CASE Others /\ calm' = IF StoreState' = StoreState THEN calm ELSE {}
  <2>1. \A q \in calm' : q \in calm /\ StoreState' = StoreState
    BY <1>6
  <2>2. \A q \in calm' : Steady(q)'
    BY <1>2, <1>6, <2>1 DEF Others, StoreState
  <2>3. QED
    BY <1>1, <2>1, <2>2 DEF CalmOK
<1>7. CASE UNCHANGED allVars
  <2>1. UNCHANGED <<rows, slots, rules, userCutoff, version, job, calm>>
    BY <1>7 DEF allVars, vars, materializerVars
  <2>2. \A q \in calm : Steady(q)'
    BY <1>2, <2>1
  <2>3. QED
    BY <1>1, <2>1, <2>2 DEF CalmOK
<1>8. QED
  BY <1>3, <1>4, <1>5, <1>6, <1>7 DEF MNext

LEMMA CalmInit == MInit => CalmOK
BY DEF MInit, CalmOK

\* The inductive invariant of a job nobody wrote beside: the version it carries is the stored
\* one, and every date that its loops have passed is as those loops leave it, whatever it was
\* before (materialize_rule, _edit_window and _deactivate, materialize.py 289-573).
THEOREM CalmInvariant == MSpec => [](CalmInv /\ CalmOK)
<1>1. MSpec => [](LeaseInv /\ WithdrawnBySystem)
  BY MaterializerUsesStore, LeaseInvariant, RuleRowsWithdrawnBySystem, PTL
<1>2. CalmInv /\ CalmInv' /\ CalmOK /\ [MNext]_allVars => CalmOK'
  BY CalmStep DEF CalmInv
<1>3. LeaseInv /\ WithdrawnBySystem /\ JobsOK /\ JobsFit => CalmInv
  BY DEF CalmInv
<1>4. QED
  BY <1>1, <1>2, <1>3, CalmInit, JobsTyped, CopiesAreVersions, PTL DEF MSpec
-----------------------------------------------------------------------------
(* What is reached *)

LEMMA MarkPlan ==
  ASSUME CalmInv, NEW p \in Jobs, At(p, "mark")
  PROVE  job[p].plan \in MarkPlans /\ (p \in Requests => job[p].plan = LastMark)
<1>1. PlanGoes(job[p].plan) /\ Head(job[p].plan) = "mark"
  BY Site DEF CalmInv
<1>2. job[p].plan \in {TickMark, LastMark}
  BY <1>1 DEF PlanGoes
<1>3. p \in Requests => job[p].plan \in RequestPlans \cup {<<>>}
  BY DEF CalmInv, JobsFit
<1>4. TickMark \notin RequestPlans \cup {<<>>}
  BY PlanFamilies, PlanSizes DEF TickRulePlans
<1>5. QED
  BY <1>2, <1>3, <1>4 DEF MarkPlans

\* A full walk beside which nobody wrote has repaired every date of the rule, whatever
\* an interrupted edit, a stale form, a killed tick or a race had left, for any horizon
\* and any number of rules, dates and jobs (materialize_rule, materialize.py 289-330).
THEOREM WalksRepair == MSpec => []WalkRepairs
<1>1. CalmInv /\ CalmOK => WalkRepairs
  <2> SUFFICES ASSUME CalmInv, CalmOK, NEW p \in calm, At(p, "mark"),
                      NEW d \in DatesForRule(job[p].new, job[p].today)
               PROVE  Repaired(job[p].rule, d)
    BY DEF WalkRepairs
  <2>1. p \in Jobs /\ Steady(p) /\ d \in Dates
    BY RuleDates DEF CalmOK
  <2>2. job[p].plan \in MarkPlans /\ job[p].plan \notin WalkPlans
    BY <2>1, MarkPlan, PlanSizes DEF MarkPlans, WalkPlans
  <2>3. Placed(job[p].rule, d)
    BY <2>1, <2>2 DEF Steady, WalkOK
  <2>4. CutoffFresh(job[p].rule, d)
    BY <2>1, <2>2 DEF Steady, CutoffsOK, CutoffsDone
  <2>5. QED
    BY <2>3, <2>4 DEF Repaired, Placed, CutoffFresh
<1>2. QED
  BY <1>1, CalmInvariant, PTL

\* An edit in place beside which nobody wrote has given its window to every row that is
\* still to be booked, also to one that only the new cutoff re-opened: the cutoffs are
\* rewritten before the windows (_edit_window, materialize.py 550-619).
THEOREM EditsReach == MSpec => []EditReachesRows
<1>1. CalmInv /\ CalmOK => EditReachesRows
  <2> SUFFICES ASSUME CalmInv, CalmOK, NEW p \in calm \cap Requests, At(p, "mark"),
                      job[p].old.active, job[p].old.weekday = job[p].new.weekday,
                      NEW d \in DatesForRule(job[p].new, job[p].today)
               PROVE  LET row == rows[<<job[p].rule, d>>]
                      IN  row.status = "pending" /\ ~Frozen(d, row.cutoff) /\ ~row.live
                            => row.want = job[p].new.want
    BY DEF EditReachesRows
  <2>1. p \in Jobs /\ Steady(p) /\ d \in Dates
    BY RuleDates DEF CalmOK
  <2>2. job[p].plan = LastMark
    BY <2>1, MarkPlan
  <2>3. job[p].new.active
    <3>1. LastMark \in RequestPlans /\ LastMark \notin DeactivatePlans \cup {LastUpsert}
      BY PlanFamilies, PlanSizes DEF EditPlans, DeactivatePlans
    <3>2. Fits(job[p])
      BY <2>1 DEF CalmInv, JobsFit, JobFits
    <3>3. QED
      BY <2>2, <3>1, <3>2 DEF Fits
  <2>4. WantFresh(job[p].rule, d)
    BY <2>1, <2>2, <2>3, PlanSizes DEF Steady, WantsOK, InPlace
  <2>5. job[p].new = rules[job[p].rule]
    <3>1. LastMark \in WrittenPlans \ {RulePlan}
      BY PlanSizes DEF WrittenPlans
    <3>2. QED
      BY <2>1, <2>2, <3>1, FreshCopy
  <2>6. QED
    BY <2>4, <2>5 DEF WantFresh
<1>2. QED
  BY <1>1, CalmInvariant, PTL

\* A deactivation beside which nobody wrote leaves no row of its rule behind but those
\* under a live lease, before it writes the rule inactive (_deactivate, round-4 D1).
THEOREM DeactivationsWithdraw == MSpec => []DeactivationWithdraws
<1>1. CalmInv /\ CalmOK => DeactivationWithdraws
  <2> SUFFICES ASSUME CalmInv, CalmOK, NEW p \in calm \cap Requests, At(p, "upsert"),
                      job[p].old.active, ~job[p].new.active,
                      NEW d \in DatesForRule(job[p].old, job[p].today)
               PROVE  Gone(job[p].rule, d)
    BY DEF DeactivationWithdraws, Gone
  <2>1. p \in Jobs /\ Steady(p)
    BY DEF CalmOK
  <2>2. job[p].plan \in RequestPlans /\ Head(job[p].plan) = "upsert"
    <3>1. job[p].plan # <<>> /\ Head(job[p].plan) = "upsert"
      BY DEF At, Busy
    <3>2. QED
      BY <3>1 DEF CalmInv, JobsFit
  <2>3. job[p].plan \in DeactivatePlans \cup {LastUpsert}
    BY <2>1, <2>2 DEF CalmInv, JobsFit, JobFits, Fits
  <2>4. job[p].plan = LastUpsert
    BY <2>2, <2>3, PlanSizes DEF DeactivatePlans
  <2>5. QED
    BY <2>1, <2>4, PlanSizes DEF Steady, GoneOK
<1>2. QED
  BY <1>1, CalmInvariant, PTL
=============================================================================
