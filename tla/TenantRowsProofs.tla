-------------------------- MODULE TenantRowsProofs --------------------------
(***************************************************************************)
(* Proofs about TenantRows, for every value of its constants.  Every       *)
(* action either commits one batch of row writes or leaves each row's      *)
(* status and the slot pointers alone; the invariants about the slots rest *)
(* on that fact and on one lemma about a batch.                            *)
(***************************************************************************)
EXTENDS TenantRows, TLAPS

\* What an action does to the rows: one batch of typed writes, or writes that
\* move neither a status nor a pointer.
BatchStep == \E S \in SUBSET RowIds : \E w \in [S -> Row] : Commit(w)
QuietStep == /\ rows' \in [RowIds -> Row]
             /\ \A id \in RowIds : rows'[id].status = rows[id].status
             /\ UNCHANGED slots
RowStep == BatchStep \/ QuietStep

LEMMA AbsentRowType == AbsentRow \in Row /\ AnyWant \in Wants
<1>1. AnyWant \in Wants
  BY DataAssumption DEF AnyWant
<1>2. QED
  BY <1>1 DEF AbsentRow, Row, Statuses, ActiveStatuses, Reasons

LEMMA InitType == Init => TypeOK
<1> SUFFICES ASSUME Init PROVE TypeOK
  OBVIOUS
<1>1. 0 \in Weekdays
  BY TimeAssumption DEF Weekdays
<1>2. QED
  BY <1>1, AbsentRowType DEF Init, TypeOK, Rule, LedgerStates

\* A cutoff instant is an integer, whichever setting it resolves from.
LEMMA CutoffAtType ==
  ASSUME NEW d \in Dates, NEW own \in Cutoffs \cup {NoCutoff},
         NEW owner \in Cutoffs \cup {NoCutoff}
  PROVE  CutoffAt(d, Resolve(own, owner)) \in Int
<1>1. Resolve(own, owner) \in Int
  BY CutoffAssumption DEF Resolve
<1>2. QED
  BY <1>1, TimeAssumption DEF CutoffAt

LEMMA RuleCutoffAtType ==
  ASSUME TypeOK, NEW r \in Rules, NEW d \in Dates
  PROVE  /\ RuleCutoffAt(<<r, d>>) \in Int
         /\ RuleOf(<<r, d>>) \in Rule
         /\ <<r, d>> \in RowIds
<1>1. RuleOf(<<r, d>>) \in Rule /\ <<r, d>> \in RowIds
  BY DEF TypeOK, RuleOf, OriginOf, RowIds, Origins
<1>2. RuleOf(<<r, d>>).cutoff \in Cutoffs \cup {NoCutoff}
  BY <1>1 DEF Rule
<1>3. QED
  BY <1>1, <1>2, CutoffAtType DEF RuleCutoffAt, DateOf, TypeOK

LEMMA UnleasedWriteType ==
  ASSUME NEW row \in Row
  PROVE  /\ UnleasedWrite(row) \in Row
         /\ UnleasedWrite(row).status = row.status
BY DEF UnleasedWrite, Row

LEMMA StoredRow ==
  ASSUME TypeOK, NEW id \in RowIds
  PROVE  rows[id] \in Row
BY DEF TypeOK

\* Two or three fields of a row replaced leave a row.
LEMMA LeaseFieldsType ==
  ASSUME NEW row \in Row, NEW owner \in Owners \cup {NoOwner}, NEW live \in BOOLEAN
  PROVE  [row EXCEPT !.owner = owner, !.live = live] \in Row
BY DEF Row

\* One written row is a batch.
LEMMA WriteIsBatch ==
  ASSUME NEW id \in RowIds, NEW row \in Row, Write(id, row)
  PROVE  BatchStep
<1> DEFINE w == [x \in {id} |-> row]
<1>1. {id} \in SUBSET RowIds /\ w \in [{id} -> Row]
  OBVIOUS
<1>2. Commit(w)
  BY DEF Write
<1>3. QED
  BY <1>1, <1>2 DEF BatchStep

\* What a batch does to the rows and the slots, whatever it was guarded by.
Batch(w) ==
    /\ rows' = [id \in RowIds |-> IF id \in DOMAIN w THEN w[id] ELSE rows[id]]
    /\ slots' = [d \in Dates |->
                   IF \E id \in Entering(w) : DateOf(id) = d
                   THEN CHOOSE id \in Entering(w) : DateOf(id) = d
                   ELSE Freed(w)[d]]

LEMMA BatchType ==
  ASSUME TypeOK, NEW S \in SUBSET RowIds, NEW w \in [S -> Row], Batch(w)
  PROVE  /\ rows' \in [RowIds -> Row]
         /\ slots' \in [Dates -> RowIds \cup {NoRow}]
<1>1. rows' \in [RowIds -> Row]
  BY DEF Batch, TypeOK
<1>2. Entering(w) \subseteq RowIds
  BY DEF Entering
<1>3. \A d \in Dates : Freed(w)[d] \in RowIds \cup {NoRow}
  BY DEF Freed, TypeOK
<1>4. ASSUME NEW d \in Dates, \E id \in Entering(w) : DateOf(id) = d
      PROVE  (CHOOSE id \in Entering(w) : DateOf(id) = d) \in RowIds
  BY <1>2, <1>4
<1>5. QED
  BY <1>1, <1>3, <1>4 DEF Batch

LEMMA RowStepType ==
  ASSUME TypeOK, RowStep
  PROVE  /\ rows' \in [RowIds -> Row]
         /\ slots' \in [Dates -> RowIds \cup {NoRow}]
<1>1. CASE BatchStep
  BY <1>1, BatchType DEF BatchStep, Commit, Batch
<1>2. CASE QuietStep
  BY <1>2 DEF QuietStep, TypeOK
<1>3. QED
  BY <1>1, <1>2 DEF RowStep
-----------------------------------------------------------------------------
(* One lemma per action: what it does to the rows *)

LEMMA LeaseStep ==
  ASSUME TypeOK, NEW owner \in Owners, NEW id \in RowIds, Lease(id, owner)
  PROVE  RowStep
<1>1. [rows[id] EXCEPT !.owner = owner, !.live = TRUE] \in Row
  BY StoredRow, LeaseFieldsType
<1>2. QED
  BY <1>1, WriteIsBatch DEF Lease, RowStep

LEMMA ReleaseStep ==
  ASSUME TypeOK, NEW owner \in Owners, NEW id \in RowIds, ReleaseRowLease(owner, id)
  PROVE  RowStep
<1>1. [rows[id] EXCEPT !.owner = NoOwner, !.live = FALSE] \in Row
  BY StoredRow, LeaseFieldsType
<1>2. CASE rows[id].owner = owner
  BY <1>1, <1>2, WriteIsBatch DEF ReleaseRowLease, RowStep
<1>3. CASE rows[id].owner # owner
  BY <1>3 DEF ReleaseRowLease, RowStep, QuietStep, TypeOK
<1>4. QED
  BY <1>2, <1>3

LEMMA ExpiryStep ==
  ASSUME TypeOK, NEW id \in RowIds, LeaseExpires(id)
  PROVE  RowStep
<1>1. rows' = [rows EXCEPT ![id].live = FALSE] /\ UNCHANGED slots
  BY DEF LeaseExpires
<1>2. \A row \in Row : /\ [row EXCEPT !.live = FALSE] \in Row
                        /\ [row EXCEPT !.live = FALSE].status = row.status
  BY DEF Row
<1>3. rows' = [rows EXCEPT ![id] = [rows[id] EXCEPT !.live = FALSE]]
  BY <1>1
<1>4. /\ rows' \in [RowIds -> Row]
      /\ \A x \in RowIds : rows'[x].status = rows[x].status
  BY <1>2, <1>3 DEF TypeOK
<1>5. QED
  BY <1>1, <1>4 DEF RowStep, QuietStep

OutcomeType == [to : {"same", "booked", "pending", "cancelled"},
                reason : Reasons, reconcile : BOOLEAN, raw : Raws \cup {NoRaw},
                held : SUBSET Raws, extras : SUBSET Raws, dropped : SUBSET Raws]

LEMMA OutcomeTyped ==
  ASSUME NEW to \in {"same", "booked", "pending", "cancelled"}, NEW reason \in Reasons,
         NEW f \in BOOLEAN, NEW raw \in Raws \cup {NoRaw}, NEW held \in SUBSET Raws,
         NEW extras \in SUBSET Raws, NEW dropped \in SUBSET Raws
  PROVE  Outcome(to, reason, f, raw, held, extras, dropped) \in OutcomeType
BY DEF Outcome, OutcomeType

LEMMA OutcomesType ==
  ASSUME NEW a \in {"runner", "watcher", "web"}, NEW o \in Outcomes(a)
  PROVE  o \in OutcomeType
<1>1. /\ \A b \in Raws : {b} \in SUBSET Raws /\ Raws \ {b} \in SUBSET Raws
      /\ {} \in SUBSET Raws
      /\ \A S \in AtMostOne : S \in SUBSET Raws
  BY DEF AtMostOne
<1>2. CASE o \in Notes
  <2>1. PICK f \in BOOLEAN, S \in AtMostOne : o = Outcome("same", "none", f, NoRaw, {}, {}, S)
    BY <1>2 DEF Notes
  <2>2. QED
    BY <1>1, <2>1, OutcomeTyped DEF Reasons
<1>3. CASE o \in Interruptions
  <2>1. PICK b \in Raws : o = Outcome("same", "none", TRUE, NoRaw, {}, {b}, {})
    BY <1>3 DEF Interruptions
  <2>2. QED
    BY <1>1, <2>1, OutcomeTyped DEF Reasons
<1>4. CASE o \in Bookings
  <2>1. PICK f \in BOOLEAN, b \in Raws :
          o = Outcome("booked", "none", f, b, {b}, Raws \ {b}, {})
    BY <1>4 DEF Bookings
  <2>2. QED
    BY <1>1, <2>1, OutcomeTyped DEF Reasons
<1>5. CASE o \in Upgrades
  <2> DEFINE U(f, b) == Outcome("booked", "none", f, b, {b}, {}, Raws \ {b})
  <2>0. Upgrades = {U(f, b) : f \in BOOLEAN, b \in Raws}
    BY DEF Upgrades
  <2> HIDE DEF U
  <2>1. PICK f \in BOOLEAN, b \in Raws : o = U(f, b)
    BY <1>5, <2>0
  <2> USE DEF U
  <2>2. QED
    BY <1>1, <2>1, OutcomeTyped DEF Reasons
<1>6. CASE o \in Adoptions(BOOLEAN) \cup Adoptions({FALSE})
  <2>0. PICK flags \in SUBSET BOOLEAN : o \in Adoptions(flags)
    BY <1>6
  <2>1. PICK f \in flags, b \in Raws : o = Outcome("booked", "none", f, b, {}, {}, {})
    BY <2>0 DEF Adoptions
  <2>2. QED
    BY <1>1, <2>1, OutcomeTyped DEF Reasons
<1>7. CASE o \in FailedRebooks
  <2>1. PICK S \in AtMostOne : o = Outcome("pending", "none", TRUE, NoRaw, {}, {}, S)
    BY <1>7 DEF FailedRebooks
  <2>2. QED
    BY <1>1, <2>1, OutcomeTyped DEF Reasons
<1>8. CASE o \in Downgrades
  <2>1. PICK b \in Raws : o = Outcome("pending", "group_downgrade", FALSE, NoRaw, {}, {}, {b})
    BY <1>8 DEF Downgrades
  <2>2. QED
    BY <1>1, <2>1, OutcomeTyped DEF Reasons
<1>9. CASE o \in UserCancels
  <2>1. PICK S \in AtMostOne : o = Outcome("cancelled", "user", FALSE, NoRaw, {}, {}, S)
    BY <1>9 DEF UserCancels
  <2>2. QED
    BY <1>1, <2>1, OutcomeTyped DEF Reasons
<1>10. CASE o \in Vanishes
  <2>1. o = Outcome("cancelled", "external", FALSE, NoRaw, {}, {}, {})
    BY <1>10 DEF Vanishes
  <2>2. QED
    BY <1>1, <2>1, OutcomeTyped DEF Reasons
<1>11. o \in Notes \cup Interruptions \cup Bookings \cup Upgrades
          \cup Adoptions(BOOLEAN) \cup Adoptions({FALSE}) \cup FailedRebooks
          \cup Downgrades \cup UserCancels \cup Vanishes
  <2>1. CASE a = "runner"
    BY <2>1 DEF Outcomes
  <2>2. CASE a = "watcher"
    BY <2>2 DEF Outcomes
  <2>3. CASE a = "web"
    BY <2>3 DEF Outcomes
  <2>4. QED
    BY <2>1, <2>2, <2>3
<1>12. QED
  BY <1>2, <1>3, <1>4, <1>5, <1>6, <1>7, <1>8, <1>9, <1>10, <1>11

LEMMA OutcomeRowType ==
  ASSUME TypeOK, NEW owner \in Owners, NEW id \in RowIds, NEW o \in OutcomeType
  PROVE  /\ OutcomeRow(owner, id, o) \in Row
         /\ OutcomeRow(owner, id, o).status = IF o.to = "same" THEN rows[id].status
                                                               ELSE o.to
<1>1. PICK row \in Row : row = rows[id]
  BY StoredRow
<1> DEFINE noted == [row EXCEPT !.reconcile = @ \/ o.reconcile]
           moved == [BookingFields(row, o) EXCEPT !.status = o.to, !.reason = o.reason,
                                                  !.reconcile = o.reconcile]
           new   == IF o.to = "same" THEN noted ELSE moved
<1>2. BookingFields(row, o) \in Row
  BY DEF BookingFields, Row, OutcomeType
<1>3. noted \in Row /\ noted.status = row.status
  BY DEF Row, OutcomeType
<1>4. o.to # "same" => moved \in Row /\ moved.status = o.to
  BY <1>2 DEF Row, OutcomeType, Statuses, ActiveStatuses
<1>5. OutcomeRow(owner, id, o) =
        IF row.owner = owner THEN [new EXCEPT !.owner = NoOwner, !.live = FALSE] ELSE new
  BY <1>1 DEF OutcomeRow
<1>6. new \in Row /\ new.status = IF o.to = "same" THEN row.status ELSE o.to
  BY <1>3, <1>4
<1> HIDE DEF new
<1>7. [new EXCEPT !.owner = NoOwner, !.live = FALSE].status = new.status
  BY <1>6 DEF Row
<1>8. QED
  BY <1>1, <1>5, <1>6, <1>7, LeaseFieldsType

LEMMA FlagStep ==
  ASSUME TypeOK, NEW d \in Dates, FlagActiveRow(d), UNCHANGED slots
  PROVE  RowStep
<1>1. CASE slots[d] = NoRow
  BY <1>1 DEF FlagActiveRow, RowStep, QuietStep, TypeOK
<1>2. CASE slots[d] # NoRow
  <2> DEFINE id == slots[d]
  <2>1. id \in RowIds /\ rows' = [rows EXCEPT ![id].reconcile = TRUE]
    BY <1>2 DEF FlagActiveRow, TypeOK
  <2> HIDE DEF id
  <2>2. \A row \in Row : /\ [row EXCEPT !.reconcile = TRUE] \in Row
                          /\ [row EXCEPT !.reconcile = TRUE].status = row.status
    BY DEF Row
  <2>3. rows' = [rows EXCEPT ![id] = [rows[id] EXCEPT !.reconcile = TRUE]]
    BY <2>1
  <2>4. /\ rows' \in [RowIds -> Row]
        /\ \A x \in RowIds : rows'[x].status = rows[x].status
    BY <2>1, <2>2, <2>3 DEF TypeOK
  <2>5. QED
    BY <2>4 DEF RowStep, QuietStep
<1>3. QED
  BY <1>1, <1>2

LEMMA RecordStep ==
  ASSUME TypeOK, NEW owner \in Owners, NEW id \in RowIds,
         NEW o \in Outcomes(ActorOf[owner]), RecordOutcome(owner, id, o)
  PROVE  /\ RowStep
         /\ ledger' \in [Raws -> LedgerStates]
<1>1. o \in OutcomeType
  BY OutcomesType, OwnerAssumption
<1>2. OutcomeRow(owner, id, o) \in Row
  BY <1>1, OutcomeRowType
<1>3. ASSUME Accepted(owner, id, o) PROVE RowStep
  <2>1. Write(id, OutcomeRow(owner, id, o))
    BY <1>3 DEF RecordOutcome, Applied
  <2>2. QED
    BY <1>2, <2>1, WriteIsBatch DEF RowStep
<1>4. ASSUME ~Accepted(owner, id, o) PROVE RowStep
  <2>1. DateOf(id) \in Dates
    BY DEF RowIds, DateOf
  <2>2. FlagActiveRow(DateOf(id)) /\ UNCHANGED slots
    BY <1>4 DEF RecordOutcome, Refused
  <2>3. QED
    BY <2>1, <2>2, FlagStep
<1>5. WriteLedger(o)
  BY DEF RecordOutcome, Applied, Refused
<1>6. ledger' \in [Raws -> LedgerStates]
  BY <1>1, <1>5 DEF WriteLedger, OutcomeType, TypeOK, LedgerStates
<1>7. QED
  BY <1>3, <1>4, <1>6

\* The fields the web, the materializer and the finalizer replace.
LEMMA StatusFieldsType ==
  ASSUME NEW row \in Row, NEW status \in Statuses, NEW reason \in Reasons
  PROVE  [UnleasedWrite(row) EXCEPT !.status = status, !.reason = reason] \in Row
<1>1. UnleasedWrite(row) \in Row
  BY UnleasedWriteType
<1>2. QED
  BY <1>1 DEF Row

LEMMA IntentFieldsType ==
  ASSUME NEW row \in Row, NEW status \in Statuses, NEW reason \in Reasons,
         NEW from \in {"none", "pending", "skipped"}, NEW want \in Wants
  PROVE  /\ [UnleasedWrite(row) EXCEPT !.status = status, !.reason = reason,
                                       !.from = from] \in Row
         /\ [UnleasedWrite(row) EXCEPT !.status = status, !.reason = reason,
                                       !.from = from, !.want = want] \in Row
<1>1. UnleasedWrite(row) \in Row
  BY UnleasedWriteType
<1>2. QED
  BY <1>1 DEF Row

LEMMA PriorType ==
  ASSUME NEW row \in Row
  PROVE  Prior(row) \in {"pending", "skipped"}
BY DEF Prior, Row

LEMMA FinalizeStep ==
  ASSUME TypeOK, FinalizeLost
  PROVE  RowStep
<1> DEFINE w == [id \in FrozenPending |-> Finalized(id)]
<1>1. FrozenPending \in SUBSET RowIds
  BY DEF FrozenPending
<1>2. ASSUME NEW id \in FrozenPending
      PROVE  Finalized(id) \in Row
  <2>1. rows[id] \in Row
    BY <1>1, StoredRow
  <2>2. QED
    BY <2>1, StatusFieldsType DEF Finalized, Statuses, ActiveStatuses, Reasons
<1>3. w \in [FrozenPending -> Row]
  BY <1>2
<1>4. Commit(w)
  BY DEF FinalizeLost
<1>5. QED
  BY <1>1, <1>3, <1>4 DEF RowStep, BatchStep

LEMMA InsertStep ==
  ASSUME TypeOK, NEW r \in Rules, NEW d \in Dates, InsertRuleRow(r, d)
  PROVE  RowStep
<1> DEFINE id     == <<r, d>>
           status == IF slots[d] = NoRow THEN "pending" ELSE "superseded"
           row    == [AbsentRow EXCEPT !.status = status, !.cutoff = RuleCutoffAt(id),
                                       !.want = RuleOf(id).want]
<1>1. id \in RowIds /\ RuleCutoffAt(id) \in Int /\ RuleOf(id).want \in Wants
  BY RuleCutoffAtType DEF Rule
<1>2. status \in Statuses
  BY DEF Statuses, ActiveStatuses
<1>3. row \in Row
  BY <1>1, <1>2, AbsentRowType DEF Row
<1>4. Write(id, row)
  BY DEF InsertRuleRow
<1>5. QED
  BY <1>1, <1>3, <1>4, WriteIsBatch DEF RowStep

LEMMA ReactivateStep ==
  ASSUME TypeOK, NEW r \in Rules, NEW d \in Dates, ReactivateRuleRow(r, d)
  PROVE  RowStep
<1> DEFINE id    == <<r, d>>
           to    == Prior(rows[id])
           fresh == [rows[id] EXCEPT !.cutoff = RuleCutoffAt(id)]
           row   == [UnleasedWrite(fresh) EXCEPT !.status = to, !.reason = "none",
                                        !.from = "none", !.want = RuleOf(id).want]
<1>1. id \in RowIds /\ RuleCutoffAt(id) \in Int /\ RuleOf(id).want \in Wants
  BY RuleCutoffAtType DEF Rule
<1>2. fresh \in Row /\ to \in Statuses
  BY <1>1, StoredRow, PriorType DEF Row, Statuses, ActiveStatuses
<1>3. row \in Row
  BY <1>1, <1>2, IntentFieldsType DEF Reasons
<1>4. Write(id, row)
  BY DEF ReactivateRuleRow
<1>5. QED
  BY <1>1, <1>3, <1>4, WriteIsBatch DEF RowStep

LEMMA WithdrawStep ==
  ASSUME TypeOK, NEW r \in Rules, NEW d \in Dates, WithdrawRuleRow(r, d)
  PROVE  RowStep
<1> DEFINE id  == <<r, d>>
           row == [UnleasedWrite(rows[id]) EXCEPT !.status = "withdrawn", !.reason = "system"]
<1>1. id \in RowIds
  BY RuleCutoffAtType
<1>2. row \in Row
  BY <1>1, StoredRow, StatusFieldsType DEF Statuses, Reasons
<1>3. Write(id, row)
  BY DEF WithdrawRuleRow
<1>4. QED
  BY <1>1, <1>2, <1>3, WriteIsBatch DEF RowStep

LEMMA RewriteStep ==
  ASSUME TypeOK, NEW r \in Rules, NEW d \in Dates, RewritePendingRuleRow(r, d)
  PROVE  RowStep
<1> DEFINE id  == <<r, d>>
           row == [UnleasedWrite(rows[id]) EXCEPT !.want = RuleOf(id).want]
<1>1. id \in RowIds /\ RuleOf(id).want \in Wants
  BY RuleCutoffAtType DEF Rule
<1>2. UnleasedWrite(rows[id]) \in Row
  BY <1>1, StoredRow, UnleasedWriteType
<1>3. row \in Row
  BY <1>1, <1>2 DEF Row
<1>4. Write(id, row)
  BY DEF RewritePendingRuleRow
<1>5. QED
  BY <1>1, <1>3, <1>4, WriteIsBatch DEF RowStep

\* A cutoff rewrite keeps every status, whichever rows it picks.
LEMMA CutoffStep ==
  ASSUME TypeOK, NEW S, NEW f \in [RowIds -> Int], UNCHANGED slots,
         rows' = [id \in RowIds |->
                    IF id \in S THEN [UnleasedWrite(rows[id]) EXCEPT !.cutoff = f[id]]
                                ELSE rows[id]]
  PROVE  RowStep
<1>1. ASSUME NEW row \in Row, NEW c \in Int
      PROVE  /\ [UnleasedWrite(row) EXCEPT !.cutoff = c] \in Row
             /\ [UnleasedWrite(row) EXCEPT !.cutoff = c].status = row.status
  <2>1. UnleasedWrite(row) \in Row /\ UnleasedWrite(row).status = row.status
    BY UnleasedWriteType
  <2>2. QED
    BY <2>1 DEF Row
<1>2. ASSUME NEW id \in RowIds
      PROVE  rows'[id] \in Row /\ rows'[id].status = rows[id].status
  BY <1>1, StoredRow
<1>3. QED
  BY <1>2 DEF RowStep, QuietStep

LEMMA SetCutoffStep ==
  ASSUME TypeOK, NEW c \in Cutoffs \cup {NoCutoff}, SetBookingCutoff(c)
  PROVE  RowStep
<1> DEFINE S == {id \in RowIds : OwnCutoffOf(id) = NoCutoff}
           g == [id \in S |-> CutoffAt(DateOf(id), Resolve(NoCutoff, c))]
           f == [id \in RowIds |-> CutoffAt(DateOf(id), Resolve(NoCutoff, c))]
           T == {id \in RowIds : /\ id \in S
                                 /\ rows[id].status \in CutoffRewriteStatuses
                                 /\ DateOf(id) >= Today
                                 /\ rows[id].cutoff # f[id]
                                 /\ ~LeaseHeld(id)}
<1>1. f \in [RowIds -> Int]
  BY CutoffAtType DEF RowIds, DateOf
<1>2. rows' = [id \in RowIds |->
                 IF id \in T THEN [UnleasedWrite(rows[id]) EXCEPT !.cutoff = f[id]]
                             ELSE rows[id]]
  <2>1. \A id \in RowIds : id \in DOMAIN g <=> id \in S
    OBVIOUS
  <2>2. \A id \in S : g[id] = f[id]
    OBVIOUS
  <2>3. RewriteCutoffs(g)
    BY DEF SetBookingCutoff
  <2> HIDE DEF f, g, S
  <2>4. QED
    BY <2>1, <2>2, <2>3 DEF RewriteCutoffs
<1>3. UNCHANGED slots
  BY DEF SetBookingCutoff
<1> HIDE DEF f, T
<1>4. QED
  BY <1>1, <1>2, <1>3, CutoffStep

LEMMA RuleCutoffStep ==
  ASSUME TypeOK, NEW r \in Rules, RewriteRuleCutoff(r)
  PROVE  RowStep
<1> DEFINE S == {id \in RowIds : OriginOf(id) = r}
           g == [id \in S |-> RuleCutoffAt(id)]
           f == [id \in RowIds |-> IF id \in S THEN RuleCutoffAt(id) ELSE 0]
           T == {id \in RowIds : /\ id \in S
                                 /\ rows[id].status \in CutoffRewriteStatuses
                                 /\ DateOf(id) >= Today
                                 /\ rows[id].cutoff # f[id]
                                 /\ ~LeaseHeld(id)}
<1>1. ASSUME NEW id \in S
      PROVE  RuleCutoffAt(id) \in Int
  <2>1. PICK d \in Dates : id = <<r, d>>
    BY DEF RowIds, Origins, OriginOf
  <2>2. QED
    BY <2>1, RuleCutoffAtType
<1>2. f \in [RowIds -> Int]
  BY <1>1
<1>3. rows' = [id \in RowIds |->
                 IF id \in T THEN [UnleasedWrite(rows[id]) EXCEPT !.cutoff = f[id]]
                             ELSE rows[id]]
  <2>1. \A id \in RowIds : id \in DOMAIN g <=> id \in S
    OBVIOUS
  <2>2. \A id \in S : g[id] = f[id]
    OBVIOUS
  <2>3. RewriteCutoffs(g)
    BY DEF RewriteRuleCutoff
  <2> HIDE DEF f, g, S
  <2>4. QED
    BY <2>1, <2>2, <2>3 DEF RewriteCutoffs
<1>4. UNCHANGED slots
  BY DEF RewriteRuleCutoff
<1> HIDE DEF f, T
<1>5. QED
  BY <1>2, <1>3, <1>4, CutoffStep

LEMMA CreateStep ==
  ASSUME TypeOK, NEW o \in OneOffs, NEW d \in Dates, NEW own \in Cutoffs \cup {NoCutoff},
         CreateExplicitRow(o, d, own)
  PROVE  RowStep
<1> DEFINE id     == <<o, d>>
           row    == [AbsentRow EXCEPT !.status = "pending", !.own = own,
                                       !.cutoff = CutoffAt(d, Resolve(own, userCutoff))]
           holder == slots[d]
           displaced == [UnleasedWrite(rows[holder]) EXCEPT
                           !.status = "superseded", !.from = rows[holder].status]
           w == [x \in {id, holder} |-> IF x = id THEN row ELSE displaced]
<1>1. id \in RowIds
  BY DEF RowIds, Origins
<1>2. CutoffAt(d, Resolve(own, userCutoff)) \in Int
  BY CutoffAtType DEF TypeOK
<1>3. row \in Row
  BY <1>2, AbsentRowType DEF Row, Statuses, ActiveStatuses
<1>4. CASE holder = NoRow
  <2>1. Write(id, row)
    BY <1>4 DEF CreateExplicitRow
  <2>2. QED
    BY <1>1, <1>3, <2>1, WriteIsBatch DEF RowStep
<1>5. CASE holder # NoRow
  <2>1. /\ Commit(w)
        /\ MayTransition(holder, rows[holder], "superseded", "web", "none", FALSE)
    BY <1>5 DEF CreateExplicitRow
  <2>2. holder \in RowIds
    BY <1>5 DEF TypeOK
  <2>3. rows[holder].status \in {"pending", "skipped"}
    BY <2>1 DEF MayTransition, TransitionOwners
  <2>4. PICK old \in Row : old = rows[holder]
    BY <2>2, StoredRow
  <2>5. displaced \in Row
    <3>1. PICK u \in Row : u = UnleasedWrite(old)
      BY UnleasedWriteType
    <3>2. PICK from \in {"pending", "skipped"} : from = old.status
      BY <2>3, <2>4
    <3>3. [u EXCEPT !.status = "superseded", !.from = from] \in Row
      BY DEF Row, Statuses
    <3>4. QED
      BY <2>4, <3>1, <3>2, <3>3
  <2>6. w \in [{id, holder} -> Row] /\ {id, holder} \in SUBSET RowIds
    BY <1>1, <1>3, <2>2, <2>5
  <2>7. QED
    BY <2>1, <2>6 DEF RowStep, BatchStep
<1>6. QED
  BY <1>4, <1>5

LEMMA WebTransitionStep ==
  ASSUME TypeOK, NEW id \in RowIds, NEW to \in {"pending", "skipped"}, WebTransition(id, to)
  PROVE  RowStep
<1> DEFINE row == [UnleasedWrite(rows[id]) EXCEPT !.status = to, !.reason = "none",
                                                  !.from = "none"]
<1>1. rows[id].want \in Wants
  BY StoredRow DEF Row
<1>2. row \in Row
  BY <1>1, StoredRow, IntentFieldsType DEF Statuses, ActiveStatuses, Reasons
<1>3. Write(id, row)
  BY DEF WebTransition
<1>4. QED
  BY <1>2, <1>3, WriteIsBatch DEF RowStep

LEMMA RestoredType ==
  ASSUME TypeOK, NEW d \in Dates, NEW id \in Restorable(d)
  PROVE  /\ id \in RowIds /\ DateOf(id) = d /\ IsRuleRow(id)
         /\ Restored(id) \in Row
<1>1. id \in RowIds /\ DateOf(id) = d /\ IsRuleRow(id)
  BY DEF Restorable
<1>2. RuleOf(id).want \in Wants
  BY <1>1 DEF RuleOf, IsRuleRow, TypeOK, Rule
<1>3. PICK row \in Row : row = rows[id]
  BY <1>1, StoredRow
<1>4. UnleasedWrite(row) \in Row /\ Prior(row) \in Statuses
  BY UnleasedWriteType, PriorType DEF Statuses, ActiveStatuses
<1>5. PICK u \in Row : u = UnleasedWrite(row)
  BY <1>4
<1> DEFINE want == IF row.status = "withdrawn" THEN RuleOf(id).want ELSE u.want
<1>6. want \in Wants
  BY <1>2 DEF Row
<1>7. Restored(id) = [u EXCEPT !.status = Prior(row), !.reason = "none",
                               !.from = "none", !.want = want]
  BY <1>3, <1>5 DEF Restored
<1> HIDE DEF want
<1>8. QED
  BY <1>1, <1>4, <1>6, <1>7 DEF Row, Reasons

LEMMA WithdrawExplicitStep ==
  ASSUME TypeOK, NEW id \in RowIds, WithdrawExplicit(id)
  PROVE  RowStep
<1> DEFINE back == Restorable(DateOf(id))
           gone == [UnleasedWrite(rows[id]) EXCEPT !.status = "withdrawn",
                                                   !.reason = "user_withdrawn"]
           w == [x \in back \cup {id} |-> IF x = id THEN gone ELSE Restored(x)]
<1>1. DateOf(id) \in Dates
  BY DEF RowIds, DateOf
<1>2. gone \in Row
  BY StoredRow, StatusFieldsType DEF Statuses, Reasons
<1>3. \A x \in back : x \in RowIds /\ Restored(x) \in Row
  BY <1>1, RestoredType
<1>4. w \in [back \cup {id} -> Row] /\ back \cup {id} \in SUBSET RowIds
  BY <1>2, <1>3
<1>5. Commit(w)
  BY DEF WithdrawExplicit
<1>6. QED
  BY <1>4, <1>5 DEF RowStep, BatchStep
-----------------------------------------------------------------------------
(* Type correctness *)

\* The variables other than the rows and the slot pointers.
OthersOK ==
    /\ rules \in [Rules -> Rule]
    /\ ruledays \in [Weekdays -> Rules \cup {NoRule}]
    /\ ledger \in [Raws -> LedgerStates]
    /\ userCutoff \in Cutoffs \cup {NoCutoff}
    /\ now \in Nat
    /\ working \in [Owners -> RowIds \cup {NoRow}]
    /\ skipWish \subseteq RowIds

LEMMA MaterializerStepType ==
  ASSUME TypeOK, MaterializerStep
  PROVE  RowStep /\ OthersOK'
<1>1. PICK r \in Rules, d \in Dates :
        \/ InsertRuleRow(r, d) \/ ReactivateRuleRow(r, d)
        \/ WithdrawRuleRow(r, d) \/ RewritePendingRuleRow(r, d)
  BY DEF MaterializerStep
<1>2. RowStep
  BY <1>1, InsertStep, ReactivateStep, WithdrawStep, RewriteStep
<1>3. UNCHANGED <<rules, ruledays, ledger, userCutoff, now, working, skipWish>>
  BY <1>1 DEF InsertRuleRow, ReactivateRuleRow, WithdrawRuleRow, RewritePendingRuleRow
<1>4. QED
  BY <1>2, <1>3 DEF TypeOK, OthersOK

LEMMA BotStepType ==
  ASSUME TypeOK, BotStep
  PROVE  RowStep /\ OthersOK'
<1>1. CASE \E owner \in Owners, id \in RowIds :
             ClaimRow(owner, id) \/ AcquireRowLease(owner, id)
  <2>1. PICK owner \in Owners, id \in RowIds :
          /\ Lease(id, owner)
          /\ UNCHANGED <<rules, ruledays, ledger, userCutoff, now, skipWish>>
    BY <1>1 DEF ClaimRow, AcquireRowLease
  <2>2. working' \in [Owners -> RowIds \cup {NoRow}]
    BY <2>1 DEF Lease, TypeOK
  <2>3. QED
    BY <2>1, <2>2, LeaseStep DEF TypeOK, OthersOK
<1>2. CASE \E owner \in Owners, id \in RowIds : ReleaseRowLease(owner, id)
  <2>1. PICK owner \in Owners, id \in RowIds : ReleaseRowLease(owner, id)
    BY <1>2
  <2>2. working' \in [Owners -> RowIds \cup {NoRow}]
    BY <2>1 DEF ReleaseRowLease, TypeOK
  <2>3. UNCHANGED <<rules, ruledays, ledger, userCutoff, now, skipWish>>
    BY <2>1 DEF ReleaseRowLease
  <2>4. QED
    BY <2>1, <2>2, <2>3, ReleaseStep DEF TypeOK, OthersOK
<1>3. CASE \E owner \in Owners, id \in RowIds :
             \E o \in Outcomes(ActorOf[owner]) : RecordOutcome(owner, id, o)
  <2>0. PICK owner \in Owners, id \in RowIds :
          \E o \in Outcomes(ActorOf[owner]) : RecordOutcome(owner, id, o)
    BY <1>3
  <2>1. PICK o \in Outcomes(ActorOf[owner]) : RecordOutcome(owner, id, o)
    BY <2>0
  <2>2. UNCHANGED <<rules, ruledays, userCutoff, now, working, skipWish>>
    BY <2>1 DEF RecordOutcome
  <2>3. QED
    BY <2>1, <2>2, RecordStep DEF TypeOK, OthersOK
<1>4. CASE \E id \in RowIds : LeaseExpires(id)
  <2>1. UNCHANGED <<rules, ruledays, ledger, userCutoff, now, working, skipWish>>
    BY <1>4 DEF LeaseExpires
  <2>2. QED
    BY <1>4, <2>1, ExpiryStep DEF TypeOK, OthersOK
<1>5. CASE FinalizeLost
  <2>1. UNCHANGED <<rules, ruledays, ledger, userCutoff, now, working, skipWish>>
    BY <1>5 DEF FinalizeLost
  <2>2. QED
    BY <1>5, <2>1, FinalizeStep DEF TypeOK, OthersOK
<1>6. QED
  BY <1>1, <1>2, <1>3, <1>4, <1>5 DEF BotStep

LEMMA UpsertType ==
  ASSUME TypeOK, NEW r \in Rules, NEW new \in Rule, UpsertRule(r, new)
  PROVE  RowStep /\ OthersOK'
<1>1. FreedRuledays(r) \in [Weekdays -> Rules \cup {NoRule}]
  BY DEF FreedRuledays, TypeOK
<1>2. new.weekday \in Weekdays
  BY DEF Rule
<1>3. ruledays' \in [Weekdays -> Rules \cup {NoRule}]
  BY <1>1, <1>2 DEF UpsertRule
<1>4. rules' \in [Rules -> Rule]
  BY DEF UpsertRule, TypeOK
<1>5. UNCHANGED <<rows, slots, ledger, userCutoff, now, working, skipWish>>
  BY DEF UpsertRule
<1>6. RowStep
  BY <1>5 DEF RowStep, QuietStep, TypeOK
<1>7. QED
  BY <1>3, <1>4, <1>5, <1>6 DEF OthersOK, TypeOK

LEMMA WebStepType ==
  ASSUME TypeOK, WebStep
  PROVE  RowStep /\ OthersOK'
<1>1. CASE \E id \in RowIds : SkipRow(id) \/ UnskipRow(id)
  <2>1. PICK id \in RowIds : SkipRow(id) \/ UnskipRow(id)
    BY <1>1
  <2>2. \E to \in {"pending", "skipped"} : WebTransition(id, to)
    BY <2>1 DEF SkipRow, UnskipRow
  <2>3. skipWish' \subseteq RowIds
    BY <2>1 DEF SkipRow, UnskipRow, TypeOK
  <2>4. UNCHANGED <<rules, ruledays, ledger, userCutoff, now, working>>
    BY <2>2 DEF WebTransition
  <2>5. QED
    BY <2>2, <2>3, <2>4, WebTransitionStep DEF TypeOK, OthersOK
<1>2. CASE \E id \in RowIds : WithdrawExplicit(id)
  <2>1. UNCHANGED <<rules, ruledays, ledger, userCutoff, now, working, skipWish>>
    BY <1>2 DEF WithdrawExplicit
  <2>2. QED
    BY <1>2, <2>1, WithdrawExplicitStep DEF TypeOK, OthersOK
<1>3. CASE \E o \in OneOffs, d \in Dates, own \in Cutoffs \cup {NoCutoff} :
             CreateExplicitRow(o, d, own)
  <2>1. UNCHANGED <<rules, ruledays, ledger, userCutoff, now, working, skipWish>>
    BY <1>3 DEF CreateExplicitRow
  <2>2. QED
    BY <1>3, <2>1, CreateStep DEF TypeOK, OthersOK
<1>4. CASE \E c \in Cutoffs \cup {NoCutoff} : SetBookingCutoff(c)
  <2>1. userCutoff' \in Cutoffs \cup {NoCutoff}
    BY <1>4 DEF SetBookingCutoff
  <2>2. UNCHANGED <<rules, ruledays, ledger, now, working, skipWish>>
    BY <1>4 DEF SetBookingCutoff
  <2>3. QED
    BY <1>4, <2>1, <2>2, SetCutoffStep DEF TypeOK, OthersOK
<1>5. CASE \E r \in Rules : RewriteRuleCutoff(r)
  <2>1. UNCHANGED <<rules, ruledays, ledger, userCutoff, now, working, skipWish>>
    BY <1>5 DEF RewriteRuleCutoff
  <2>2. QED
    BY <1>5, <2>1, RuleCutoffStep DEF TypeOK, OthersOK
<1>6. CASE \E r \in Rules, new \in Rule : UpsertRule(r, new)
  BY <1>6, UpsertType
<1>7. QED
  BY <1>1, <1>2, <1>3, <1>4, <1>5, <1>6 DEF WebStep, UserStep, RuleStep

\* Every action takes the rows by one batch or quietly, and keeps the types.
LEMMA NextStep ==
  ASSUME TypeOK, Next
  PROVE  RowStep /\ OthersOK'
<1>1. CASE MaterializerStep
  BY <1>1, MaterializerStepType
<1>2. CASE BotStep
  BY <1>2, BotStepType
<1>3. CASE WebStep
  BY <1>3, WebStepType
<1>4. CASE Tick
  <2>1. RowStep
    BY <1>4 DEF Tick, RowStep, QuietStep, TypeOK
  <2>2. QED
    BY <1>4, <2>1 DEF Tick, OthersOK, TypeOK
<1>5. QED
  BY <1>1, <1>2, <1>3, <1>4 DEF Next

LEMMA TypeStep ==
  ASSUME TypeOK, [Next]_vars
  PROVE  TypeOK'
<1>1. CASE Next
  <2>1. RowStep /\ OthersOK'
    BY <1>1, NextStep
  <2>2. rows' \in [RowIds -> Row] /\ slots' \in [Dates -> RowIds \cup {NoRow}]
    BY <2>1, RowStepType
  <2>3. QED
    BY <2>1, <2>2 DEF TypeOK, OthersOK
<1>2. CASE UNCHANGED vars
  BY <1>2 DEF vars, TypeOK
<1>3. QED
  BY <1>1, <1>2

\* Every reachable state of the store is well typed: in particular every batch,
\* whatever rows it writes, stores whole rows, and a slot pointer always names
\* a row or nothing (in_memory_store._commit and its callers).
THEOREM TypeCorrect == Spec => []TypeOK
<1>1. QED
  BY InitType, TypeStep, PTL DEF Spec
-----------------------------------------------------------------------------
(* One active row per date.  The conjunction SlotAgreement /\ SlotsInPlace is *)
(* inductive with the types: a batch frees the slots its rows leave before it *)
(* claims the ones they enter, and no action outside a batch moves a status.  *)

\* A date's slot is claimed by the batch, or keeps what the releases left.
LEMMA BatchStatus ==
  ASSUME TypeOK, NEW S \in SUBSET RowIds, NEW w \in [S -> Row], Batch(w),
         NEW id \in RowIds
  PROVE  /\ id \in Leaving(w) => Active(id) /\ ~Active(id)'
         /\ id \in Entering(w) => ~Active(id) /\ Active(id)'
         /\ id \notin Leaving(w) \cup Entering(w) => (Active(id)' <=> Active(id))
<1>1. rows'[id] = IF id \in S THEN w[id] ELSE rows[id]
  BY DEF Batch
<1>2. Active(id)' <=> rows'[id].status \in ActiveStatuses
  BY DEF Active, ActiveStatuses
<1>3. QED
  BY <1>1, <1>2 DEF Leaving, Entering, Active

LEMMA RowIdFacts ==
  ASSUME NEW id \in RowIds
  PROVE  DateOf(id) \in Dates /\ id # NoRow
BY RulesAssumption DEF RowIds, DateOf, Origins

\* One batch keeps the slot pointers and the statuses in agreement.
LEMMA BatchSlots ==
  ASSUME TypeOK, OneActiveRowPerDate,
         NEW S \in SUBSET RowIds, NEW w \in [S -> Row], Batch(w),
         \A e \in Entering(w) : Freed(w)[DateOf(e)] \in {NoRow, e},
         \A e, f \in Entering(w) : DateOf(e) = DateOf(f) => e = f
  PROVE  OneActiveRowPerDate'
<1>1. Entering(w) \subseteq RowIds /\ Leaving(w) \subseteq RowIds
  BY DEF Entering, Leaving
<1>2. ASSUME NEW d \in Dates
      PROVE  Freed(w)[d] = IF slots[d] \in Leaving(w) THEN NoRow ELSE slots[d]
  BY DEF Freed
<1>3. ASSUME NEW d \in Dates, NEW e \in Entering(w), DateOf(e) = d
      PROVE  slots'[d] = e
  <2>1. slots'[d] = CHOOSE id \in Entering(w) : DateOf(id) = d
    BY <1>3 DEF Batch
  <2>2. slots'[d] \in Entering(w) /\ DateOf(slots'[d]) = d
    BY <1>3, <2>1
  <2>3. QED
    BY <1>3, <2>2
<1>4. ASSUME NEW d \in Dates, \A e \in Entering(w) : DateOf(e) # d
      PROVE  slots'[d] = Freed(w)[d]
  BY <1>4 DEF Batch
<1>5. SlotsInPlace'
  <2> SUFFICES ASSUME NEW d \in Dates, slots'[d] # NoRow
               PROVE  DateOf(slots'[d]) = d
    BY DEF SlotsInPlace, DateOf
  <2>1. CASE \E e \in Entering(w) : DateOf(e) = d
    BY <1>3, <2>1
  <2>2. CASE \A e \in Entering(w) : DateOf(e) # d
    BY <1>2, <1>4, <2>2 DEF OneActiveRowPerDate, SlotsInPlace
  <2>3. QED
    BY <2>1, <2>2
<1>6. ASSUME NEW id \in RowIds
      PROVE  Active(id)' <=> slots'[DateOf(id)] = id
  <2> DEFINE d == DateOf(id)
  <2>1. d \in Dates /\ id # NoRow
    BY RowIdFacts
  <2>2. Active(id) <=> slots[d] = id
    BY DEF OneActiveRowPerDate, SlotAgreement
  <2>3. CASE id \in Entering(w)
    BY <1>3, <2>1, <2>3, BatchStatus
  <2>4. CASE id \notin Entering(w)
    <3>1. Active(id)' <=> Active(id) /\ id \notin Leaving(w)
      BY <2>4, BatchStatus
    <3>2. Active(id)' <=> Freed(w)[d] = id
      BY <1>2, <2>1, <2>2, <3>1
    <3>3. CASE \E e \in Entering(w) : DateOf(e) = d
      <4>1. PICK e \in Entering(w) : DateOf(e) = d
        BY <3>3
      <4>2. slots'[d] = e /\ e # id
        BY <1>3, <2>1, <2>4, <4>1
      <4>3. Freed(w)[d] \in {NoRow, e}
        BY <4>1
      <4>4. QED
        BY <2>1, <3>2, <4>2, <4>3
    <3>4. CASE \A e \in Entering(w) : DateOf(e) # d
      BY <1>4, <2>1, <3>2, <3>4
    <3>5. QED
      BY <3>3, <3>4
  <2>5. QED
    BY <2>3, <2>4
<1>7. SlotAgreement'
  BY <1>6 DEF SlotAgreement, DateOf, Active
<1>8. QED
  BY <1>5, <1>7 DEF OneActiveRowPerDate

LEMMA CommitSlots ==
  ASSUME TypeOK, OneActiveRowPerDate,
         NEW S \in SUBSET RowIds, NEW w \in [S -> Row], Commit(w)
  PROVE  OneActiveRowPerDate'
<1>1. /\ Batch(w)
      /\ \A e \in Entering(w) : Freed(w)[DateOf(e)] \in {NoRow, e}
      /\ \A e, f \in Entering(w) : DateOf(e) = DateOf(f) => e = f
  BY DEF Commit, CommitOK, Batch
<1>2. QED
  BY <1>1, BatchSlots

LEMMA QuietSlots ==
  ASSUME OneActiveRowPerDate, QuietStep
  PROVE  OneActiveRowPerDate'
BY DEF OneActiveRowPerDate, SlotAgreement, SlotsInPlace, QuietStep, Active, DateOf,
       ActiveStatuses

LEMMA SlotsStep ==
  ASSUME TypeOK, OneActiveRowPerDate, [Next]_vars
  PROVE  OneActiveRowPerDate'
<1>1. CASE Next
  <2>1. RowStep
    BY <1>1, NextStep
  <2>2. CASE BatchStep
    BY <2>2, CommitSlots DEF BatchStep
  <2>3. QED
    BY <2>1, <2>2, QuietSlots DEF RowStep
<1>2. CASE UNCHANGED vars
  BY <1>2 DEF vars, OneActiveRowPerDate, SlotAgreement, SlotsInPlace, Active, DateOf
<1>3. QED
  BY <1>1, <1>2

LEMMA SlotsInit == Init => OneActiveRowPerDate
BY RowIdFacts DEF Init, OneActiveRowPerDate, SlotAgreement, SlotsInPlace, Active,
                  AbsentRow, ActiveStatuses

\* A date never carries two active rows, and its slot pointer names the one it
\* carries, through every interleaving of bookings, supersedes, restores,
\* withdraws and finalizes: the account never books twice on a date because two
\* rows both asked for it (the partition's slot documents, models.py 98-102).
THEOREM OneRowPerDate == Spec => []OneActiveRowPerDate
<1>1. QED
  BY TypeCorrect, SlotsInit, SlotsStep, PTL DEF Spec
-----------------------------------------------------------------------------
(* One active rule per weekday: inductive on its own, only a rule write       *)
(* touches it.                                                                *)

RuleVars == <<rules, ruledays>>

LEMMA OnlyUpsertWritesRules ==
  ASSUME [Next]_vars, ~ \E r \in Rules, new \in Rule : UpsertRule(r, new)
  PROVE  UNCHANGED RuleVars
<1>1. CASE MaterializerStep
  <2>1. PICK r \in Rules, d \in Dates :
          \/ InsertRuleRow(r, d) \/ ReactivateRuleRow(r, d)
          \/ WithdrawRuleRow(r, d) \/ RewritePendingRuleRow(r, d)
    BY <1>1 DEF MaterializerStep
  <2>2. QED
    BY <2>1 DEF InsertRuleRow, ReactivateRuleRow, WithdrawRuleRow,
                RewritePendingRuleRow, RuleVars
<1>2. CASE BotStep
  <2>1. CASE FinalizeLost \/ \E id \in RowIds : LeaseExpires(id)
    BY <2>1 DEF FinalizeLost, LeaseExpires, RuleVars
  <2>2. CASE \E owner \in Owners, id \in RowIds :
               \/ ClaimRow(owner, id) \/ AcquireRowLease(owner, id)
               \/ ReleaseRowLease(owner, id)
    BY <2>2 DEF ClaimRow, AcquireRowLease, ReleaseRowLease, RuleVars
  <2>3. CASE \E owner \in Owners, id \in RowIds :
               \E o \in Outcomes(ActorOf[owner]) : RecordOutcome(owner, id, o)
    BY <2>3 DEF RecordOutcome, RuleVars
  <2>4. QED
    BY <1>2, <2>1, <2>2, <2>3 DEF BotStep
<1>3. CASE WebStep
  <2>1. CASE \E id \in RowIds : SkipRow(id) \/ UnskipRow(id)
    BY <2>1 DEF SkipRow, UnskipRow, WebTransition, RuleVars
  <2>2. CASE \E id \in RowIds : WithdrawExplicit(id)
    BY <2>2 DEF WithdrawExplicit, RuleVars
  <2>3. CASE \E o \in OneOffs, d \in Dates, own \in Cutoffs \cup {NoCutoff} :
               CreateExplicitRow(o, d, own)
    BY <2>3 DEF CreateExplicitRow, RuleVars
  <2>4. CASE \/ \E c \in Cutoffs \cup {NoCutoff} : SetBookingCutoff(c)
             \/ \E r \in Rules : RewriteRuleCutoff(r)
    BY <2>4 DEF SetBookingCutoff, RewriteRuleCutoff, RuleVars
  <2>5. QED
    BY <1>3, <2>1, <2>2, <2>3, <2>4 DEF WebStep, UserStep, RuleStep
<1>4. CASE Tick
  BY <1>4 DEF Tick, RuleVars
<1>5. CASE UNCHANGED vars
  BY <1>5 DEF vars, RuleVars
<1>6. QED
  BY <1>1, <1>2, <1>3, <1>4, <1>5 DEF Next

LEMMA UpsertKeepsRuledays ==
  ASSUME TypeOK, RuledayAgreement, NEW r \in Rules, NEW new \in Rule, UpsertRule(r, new)
  PROVE  RuledayAgreement'
<1> DEFINE freed == FreedRuledays(r)
<1>1. ASSUME NEW d \in Weekdays
      PROVE  /\ freed[d] # r
             /\ \A q \in Rules \ {r} : freed[d] = q <=> ruledays[d] = q
  BY RulesAssumption DEF FreedRuledays, RuledayAgreement
<1>2. rules' = [rules EXCEPT ![r] = new]
  BY DEF UpsertRule
<1>3. new.weekday \in Weekdays /\ new.active \in BOOLEAN
  BY DEF Rule
<1>4. ASSUME NEW d \in Weekdays, NEW q \in Rules
      PROVE  ruledays'[d] = q <=> rules'[q].active /\ rules'[q].weekday = d
  <2>1. rules'[q] = IF q = r THEN new ELSE rules[q]
    BY <1>2 DEF TypeOK
  <2>2. ruledays'[d] = IF new.active /\ d = new.weekday THEN r ELSE freed[d]
    BY <1>3 DEF UpsertRule, FreedRuledays
  <2>3. CASE q = r
    BY <1>1, <2>1, <2>2, <2>3
  <2>4. CASE q # r
    <3>1. rules'[q].active /\ rules'[q].weekday = d <=> freed[d] = q
      BY <1>1, <2>1, <2>4 DEF RuledayAgreement
    <3>2. CASE new.active /\ d = new.weekday
      <4>1. freed[d] \in {NoRule, r}
        BY <3>2 DEF UpsertRule
      <4>2. QED
        BY <2>2, <2>4, <3>1, <3>2, <4>1, RulesAssumption
    <3>3. CASE ~(new.active /\ d = new.weekday)
      BY <2>2, <3>1, <3>3
    <3>4. QED
      BY <3>2, <3>3
  <2>5. QED
    BY <2>3, <2>4
<1>5. QED
  BY <1>4 DEF RuledayAgreement

LEMMA RuledaysStep ==
  ASSUME TypeOK, RuledayAgreement, [Next]_vars
  PROVE  RuledayAgreement'
<1>1. CASE \E r \in Rules, new \in Rule : UpsertRule(r, new)
  BY <1>1, UpsertKeepsRuledays
<1>2. CASE ~ \E r \in Rules, new \in Rule : UpsertRule(r, new)
  <2>1. UNCHANGED RuleVars
    BY <1>2, OnlyUpsertWritesRules
  <2>2. QED
    BY <2>1 DEF RuleVars, RuledayAgreement
<1>3. QED
  BY <1>1, <1>2

LEMMA RuledaysInit == Init => RuledayAgreement
<1> SUFFICES ASSUME Init, NEW d \in Weekdays, NEW r \in Rules
             PROVE  ruledays[d] = r <=> rules[r].active /\ rules[r].weekday = d
  BY DEF RuledayAgreement
<1>1. ruledays[d] = NoRule
  BY DEF Init
<1>2. rules[r].active = FALSE
  BY DEF Init
<1>3. QED
  BY <1>1, <1>2, RulesAssumption

\* The ruleday pointer of a weekday names exactly its active rule, so two active
\* rules never share a weekday and at most one rule materializes a date
\* (upsert_rule's pointer operations, in_memory_store 979-1004).
THEOREM OneRulePerWeekday == Spec => []RuledayAgreement
<1>1. QED
  BY TypeCorrect, RuledaysInit, RuledaysStep, PTL DEF Spec

-----------------------------------------------------------------------------
(***************************************************************************)
(* Proofs about the leases of TenantRows, for every value of its           *)
(* constants.  One law says what a step may do to one row: keep it, grant  *)
(* a lease on it, move it under the lease, or write it unleased.  Every    *)
(* action obeys it for every row, and the four lease properties follow     *)
(* from the law and not from the actions.                                  *)
(***************************************************************************)

\* The row stays what it is; a lease may end and a flag may be set.
Kept(old, new) ==
    /\ new.status = old.status
    /\ new.raw = old.raw
    /\ old.reconcile => new.reconcile
    /\ new.live => old.live /\ new.owner = old.owner

LeaseGiven(old, new) ==
    /\ new.status = old.status
    /\ new.raw = old.raw
    /\ new.reconcile = old.reconcile
    /\ old.status \in {"pending", "booked"}
    /\ new.owner \in Owners

MovedUnderLease(old, new) ==
    /\ old.live
    /\ \E a \in Actors : <<old.status, new.status, a>> \in LeasedEdges
    /\ ~new.live
    /\ new.owner = NoOwner

WrittenUnleased(old, new) ==
    /\ ~old.live
    /\ ~new.live
    /\ old.status # "booked"
    /\ new.status # "booked"
    /\ old.reconcile => new.reconcile

\* The law of one row; nothing touches a row that does not exist.
RowLaw(old, new) ==
    /\ new.status = "absent" => new = old
    /\ \/ Kept(old, new)
       \/ LeaseGiven(old, new)
       \/ MovedUnderLease(old, new)
       \/ WrittenUnleased(old, new)

LawfulStep == \A id \in RowIds : RowLaw(rows[id], rows'[id])

\* Why the law holds: a row that does not exist carries no flag, and an owner
\* works on a row that exists.
AbsentIsBlank == \A id \in RowIds : rows[id].status = "absent" => ~rows[id].reconcile
WorksOnRow == \A o \in Owners : working[o] # NoRow => rows[working[o]].status # "absent"

LeaseInv ==
    /\ TypeOK
    /\ OneActiveRowPerDate
    /\ LiveLeaseIsLeasable
    /\ AbsentIsBlank
    /\ WorksOnRow
-----------------------------------------------------------------------------
(* Records and batches *)

LEMMA SameRow ==
  ASSUME NEW row
  PROVE  RowLaw(row, row)
BY DEF RowLaw, Kept

LEMMA UnleasedFacts ==
  ASSUME NEW row \in Row, ~row.live
  PROVE  /\ UnleasedWrite(row) \in Row
         /\ UnleasedWrite(row).live = FALSE
         /\ UnleasedWrite(row).status = row.status
         /\ UnleasedWrite(row).reconcile = row.reconcile
         /\ UnleasedWrite(row).raw = row.raw
BY DEF UnleasedWrite, Row

LEMMA StatusFieldsLaw ==
  ASSUME NEW row \in Row, ~row.live, row.status # "booked",
         NEW status \in Statuses \ {"booked", "absent"}, NEW reason \in Reasons
  PROVE  RowLaw(row, [UnleasedWrite(row) EXCEPT !.status = status, !.reason = reason])
<1>1. PICK u \in Row : /\ u = UnleasedWrite(row)
                       /\ u.live = FALSE
                       /\ u.reconcile = row.reconcile
  BY UnleasedFacts
<1>2. RowLaw(row, [u EXCEPT !.status = status, !.reason = reason])
  BY <1>1 DEF Row, RowLaw, WrittenUnleased
<1>3. QED
  BY <1>1, <1>2

\* base is the row itself, or the row with a fresh cutoff.
LEMMA IntentFieldsLaw ==
  ASSUME NEW row \in Row, ~row.live, row.status # "booked",
         NEW base \in Row, ~base.live, base.reconcile = row.reconcile,
         NEW status \in Statuses \ {"booked", "absent"}, NEW reason \in Reasons,
         NEW from \in {"none", "pending", "skipped"}, NEW want \in Wants
  PROVE  /\ RowLaw(row, [UnleasedWrite(base) EXCEPT !.status = status, !.reason = reason,
                                                    !.from = from])
         /\ RowLaw(row, [UnleasedWrite(base) EXCEPT !.status = status, !.reason = reason,
                                                    !.from = from, !.want = want])
<1>1. PICK u \in Row : /\ u = UnleasedWrite(base)
                       /\ u.live = FALSE
                       /\ u.reconcile = row.reconcile
  BY UnleasedFacts
<1>2. RowLaw(row, [u EXCEPT !.status = status, !.reason = reason, !.from = from])
  BY <1>1 DEF Row, RowLaw, WrittenUnleased
<1>3. RowLaw(row, [u EXCEPT !.status = status, !.reason = reason, !.from = from,
                            !.want = want])
  BY <1>1 DEF Row, RowLaw, WrittenUnleased
<1>4. QED
  BY <1>1, <1>2, <1>3

\* A batch whose written rows obey the law is a lawful step.
LEMMA CommitLaw ==
  ASSUME TypeOK, NEW S \in SUBSET RowIds, NEW w, DOMAIN w = S, Commit(w),
         \A id \in S : RowLaw(rows[id], w[id])
  PROVE  LawfulStep
<1> SUFFICES ASSUME NEW id \in RowIds PROVE RowLaw(rows[id], rows'[id])
  BY DEF LawfulStep
<1>1. rows'[id] = IF id \in S THEN w[id] ELSE rows[id]
  BY DEF Commit
<1>2. QED
  BY <1>1, SameRow

LEMMA WriteLaw ==
  ASSUME TypeOK, NEW id \in RowIds, NEW row, Write(id, row), RowLaw(rows[id], row)
  PROVE  LawfulStep
<1> DEFINE w == [x \in {id} |-> row]
<1>1. Commit(w) /\ DOMAIN w = {id} /\ {id} \in SUBSET RowIds
  BY DEF Write
<1>2. \A x \in {id} : RowLaw(rows[x], w[x])
  OBVIOUS
<1> HIDE DEF w
<1>3. QED
  BY <1>1, <1>2, CommitLaw

\* An unchanged store is a lawful step.
LEMMA IdleLaw ==
  ASSUME UNCHANGED rows
  PROVE  LawfulStep
BY SameRow DEF LawfulStep
-----------------------------------------------------------------------------
(* The bots: leases and outcomes *)

LEMMA LeaseLaw ==
  ASSUME LeaseInv, NEW owner \in Owners, NEW id \in RowIds,
         rows[id].status \in {"pending", "booked"}, Lease(id, owner)
  PROVE  LawfulStep
<1>1. PICK row \in Row : row = rows[id]
  BY StoredRow DEF LeaseInv
<1>2. RowLaw(row, [row EXCEPT !.owner = owner, !.live = TRUE])
  BY <1>1 DEF Row, RowLaw, LeaseGiven
<1>3. QED
  BY <1>1, <1>2, WriteLaw DEF Lease, LeaseInv

LEMMA ReleaseLaw ==
  ASSUME LeaseInv, NEW owner \in Owners, NEW id \in RowIds, ReleaseRowLease(owner, id)
  PROVE  LawfulStep
<1>1. PICK row \in Row : row = rows[id]
  BY StoredRow DEF LeaseInv
<1>2. row.status # "absent"
  BY <1>1, RowIdFacts DEF ReleaseRowLease, LeaseInv, WorksOnRow
<1>3. RowLaw(row, [row EXCEPT !.owner = NoOwner, !.live = FALSE])
  BY <1>2 DEF Row, RowLaw, Kept
<1>4. CASE row.owner = owner
  BY <1>1, <1>3, <1>4, WriteLaw DEF ReleaseRowLease, LeaseInv
<1>5. CASE row.owner # owner
  BY <1>1, <1>5, IdleLaw DEF ReleaseRowLease
<1>6. QED
  BY <1>4, <1>5

LEMMA ExpiryLaw ==
  ASSUME LeaseInv, NEW id \in RowIds, LeaseExpires(id)
  PROVE  LawfulStep
<1>1. PICK row \in Row : row = rows[id]
  BY StoredRow DEF LeaseInv
<1>2. row.status # "absent"
  BY <1>1 DEF LeaseExpires, LeaseHeld, LeaseInv, LiveLeaseIsLeasable
<1>3. RowLaw(row, [row EXCEPT !.live = FALSE])
  BY <1>2 DEF Row, RowLaw, Kept
<1>4. rows' = [rows EXCEPT ![id] = [row EXCEPT !.live = FALSE]]
  BY <1>1 DEF LeaseExpires
<1>5. ASSUME NEW x \in RowIds PROVE RowLaw(rows[x], rows'[x])
  BY <1>1, <1>3, <1>4, SameRow DEF LeaseInv, TypeOK
<1>6. QED
  BY <1>5 DEF LawfulStep

LEMMA FlagLaw ==
  ASSUME LeaseInv, NEW d \in Dates, FlagActiveRow(d)
  PROVE  LawfulStep
<1>1. CASE slots[d] = NoRow
  BY <1>1, IdleLaw DEF FlagActiveRow
<1>2. CASE slots[d] # NoRow
  <2>1. PICK id \in RowIds : id = slots[d]
    BY <1>2 DEF LeaseInv, TypeOK
  <2>2. PICK row \in Row : row = rows[id]
    BY StoredRow DEF LeaseInv
  <2>3. DateOf(id) = d
    BY <1>2, <2>1 DEF LeaseInv, OneActiveRowPerDate, SlotsInPlace
  <2>4. row.status # "absent"
    BY <2>1, <2>2, <2>3 DEF LeaseInv, OneActiveRowPerDate, SlotAgreement, Active,
                            ActiveStatuses
  <2>5. RowLaw(row, [row EXCEPT !.reconcile = TRUE])
    BY <2>4 DEF Row, RowLaw, Kept
  <2>6. rows' = [rows EXCEPT ![id] = [row EXCEPT !.reconcile = TRUE]]
    BY <1>2, <2>1, <2>2 DEF FlagActiveRow
  <2>7. ASSUME NEW x \in RowIds PROVE RowLaw(rows[x], rows'[x])
    BY <2>2, <2>5, <2>6, SameRow DEF LeaseInv, TypeOK
  <2>8. QED
    BY <2>7 DEF LawfulStep
<1>3. QED
  BY <1>1, <1>2

\* An accepted outcome: a note keeps the row, a move needs the live lease and
\* gives it back.
LEMMA OutcomeLaw ==
  ASSUME LeaseInv, NEW owner \in Owners, NEW id \in RowIds, NEW o \in OutcomeType,
         rows[id].status # "absent", Accepted(owner, id, o)
  PROVE  RowLaw(rows[id], OutcomeRow(owner, id, o))
<1>1. PICK row \in Row : row = rows[id]
  BY StoredRow DEF LeaseInv
<1>2. CASE o.to = "same"
  <2> DEFINE noted == [row EXCEPT !.reconcile = @ \/ o.reconcile]
  <2>1. /\ noted \in Row
        /\ noted.status = row.status
        /\ noted.raw = row.raw
        /\ noted.live = row.live
        /\ noted.owner = row.owner
        /\ row.reconcile => noted.reconcile
    BY DEF Row, OutcomeType
  <2>2. OutcomeRow(owner, id, o) =
          IF row.owner = owner THEN [noted EXCEPT !.owner = NoOwner, !.live = FALSE]
                               ELSE noted
    BY <1>1, <1>2 DEF OutcomeRow
  <2> HIDE DEF noted
  <2>3. RowLaw(row, noted)
    BY <1>1, <2>1 DEF RowLaw, Kept
  <2>4. RowLaw(row, [noted EXCEPT !.owner = NoOwner, !.live = FALSE])
    BY <1>1, <2>1 DEF Row, RowLaw, Kept
  <2>5. QED
    BY <1>1, <2>2, <2>3, <2>4
<1>3. CASE o.to # "same"
  <2> DEFINE fields == BookingFields(row, o)
             moved == [fields EXCEPT !.status = o.to, !.reason = o.reason,
                                     !.reconcile = o.reconcile]
  <2>1. /\ <<row.status, o.to, ActorOf[owner]>> \in LeasedEdges
        /\ row.live
        /\ row.owner = owner
    BY <1>1, <1>3 DEF Accepted, Holder, LeaseHeld
  <2>2. fields \in Row
    BY DEF BookingFields, Row, OutcomeType
  <2>3. moved \in Row /\ moved.status = o.to
    <3>1. /\ o.to \in Statuses /\ o.reason \in Reasons
          /\ o.reconcile \in BOOLEAN
      BY <1>3 DEF OutcomeType, Statuses, ActiveStatuses
    <3> HIDE DEF fields
    <3>2. QED
      BY <2>2, <3>1 DEF Row
  <2>4. OutcomeRow(owner, id, o) = [moved EXCEPT !.owner = NoOwner, !.live = FALSE]
    BY <1>1, <1>3, <2>1 DEF OutcomeRow
  <2> DEFINE new == [moved EXCEPT !.owner = NoOwner, !.live = FALSE]
  <2> HIDE DEF moved
  <2>5. /\ new.status = o.to
        /\ ~new.live
        /\ new.owner = NoOwner
    BY <2>3 DEF Row
  <2> HIDE DEF new
  <2>6. ActorOf[owner] \in Actors /\ o.to # "absent"
    BY OwnerAssumption DEF Actors, OutcomeType
  <2>7. RowLaw(row, new)
    BY <2>1, <2>5, <2>6 DEF RowLaw, MovedUnderLease
  <2>8. new = OutcomeRow(owner, id, o)
    BY <2>4 DEF new
  <2>9. QED
    BY <1>1, <2>7, <2>8
<1>4. QED
  BY <1>2, <1>3

LEMMA RecordLaw ==
  ASSUME LeaseInv, NEW owner \in Owners, NEW id \in RowIds,
         NEW o \in Outcomes(ActorOf[owner]), RecordOutcome(owner, id, o)
  PROVE  LawfulStep
<1>1. o \in OutcomeType
  BY OutcomesType, OwnerAssumption
<1>2. rows[id].status # "absent"
  BY RowIdFacts DEF RecordOutcome, LeaseInv, WorksOnRow
<1>3. CASE Accepted(owner, id, o)
  <2>1. Write(id, OutcomeRow(owner, id, o))
    BY <1>3 DEF RecordOutcome, Applied
  <2>2. QED
    BY <1>1, <1>2, <1>3, <2>1, OutcomeLaw, WriteLaw DEF LeaseInv
<1>4. CASE ~Accepted(owner, id, o)
  BY <1>4, RowIdFacts, FlagLaw DEF RecordOutcome, Refused
<1>5. QED
  BY <1>3, <1>4

LEMMA FinalizeLaw ==
  ASSUME LeaseInv, FinalizeLost
  PROVE  LawfulStep
<1> DEFINE w == [id \in FrozenPending |-> Finalized(id)]
<1>1. FrozenPending \in SUBSET RowIds
  BY DEF FrozenPending
<1>2. ASSUME NEW id \in FrozenPending
      PROVE  RowLaw(rows[id], Finalized(id))
  <2>1. PICK row \in Row : row = rows[id] /\ row.status = "pending" /\ ~row.live
    BY <1>1, StoredRow DEF FrozenPending, LeaseHeld, LeaseInv
  <2>2. \A status \in {"lost", "withdrawn"}, reason \in Reasons :
          RowLaw(row, [UnleasedWrite(row) EXCEPT !.status = status, !.reason = reason])
    BY <2>1, StatusFieldsLaw DEF Statuses
  <2>3. QED
    BY <2>1, <2>2 DEF Finalized, Reasons
<1>3. Commit(w) /\ DOMAIN w = FrozenPending
  BY DEF FinalizeLost
<1>4. \A id \in FrozenPending : RowLaw(rows[id], w[id])
  BY <1>2
<1> HIDE DEF w
<1>5. QED
  BY <1>1, <1>3, <1>4, CommitLaw DEF LeaseInv
-----------------------------------------------------------------------------
(* The materializer *)

\* A row that does not exist is under no lease and carries no flag.
LEMMA AbsentFacts ==
  ASSUME LeaseInv, NEW id \in RowIds, rows[id].status = "absent"
  PROVE  ~rows[id].live /\ ~rows[id].reconcile
BY StoredRow DEF LeaseInv, LiveLeaseIsLeasable, LeaseHeld, AbsentIsBlank, Row

\* A created row.
LEMMA CreatedLaw ==
  ASSUME LeaseInv, NEW id \in RowIds, rows[id].status = "absent",
         NEW status \in {"pending", "superseded"}, NEW cutoff \in Int, NEW want \in Wants,
         NEW own \in Cutoffs \cup {NoCutoff}
  PROVE  /\ RowLaw(rows[id], [AbsentRow EXCEPT !.status = status, !.cutoff = cutoff,
                                               !.want = want])
         /\ RowLaw(rows[id], [AbsentRow EXCEPT !.status = status, !.own = own,
                                               !.cutoff = cutoff])
<1>1. ~rows[id].live /\ ~rows[id].reconcile
  BY AbsentFacts
<1>2. QED
  BY <1>1 DEF AbsentRow, RowLaw, WrittenUnleased

LEMMA InsertLaw ==
  ASSUME LeaseInv, NEW r \in Rules, NEW d \in Dates, InsertRuleRow(r, d)
  PROVE  LawfulStep
<1> DEFINE id     == <<r, d>>
           status == IF slots[d] = NoRow THEN "pending" ELSE "superseded"
           row    == [AbsentRow EXCEPT !.status = status, !.cutoff = RuleCutoffAt(id),
                                       !.want = RuleOf(id).want]
<1>1. id \in RowIds /\ RuleCutoffAt(id) \in Int /\ RuleOf(id).want \in Wants
  BY RuleCutoffAtType DEF Rule, LeaseInv
<1>2. status \in {"pending", "superseded"} /\ NoCutoff \in Cutoffs \cup {NoCutoff}
  OBVIOUS
<1>3. Write(id, row) /\ rows[id].status = "absent"
  BY DEF InsertRuleRow
<1> HIDE DEF id, status
<1>4. RowLaw(rows[id], row)
  BY <1>1, <1>2, <1>3, CreatedLaw
<1> HIDE DEF row
<1>5. QED
  BY <1>1, <1>3, <1>4, WriteLaw DEF LeaseInv

LEMMA ReactivateLaw ==
  ASSUME LeaseInv, NEW r \in Rules, NEW d \in Dates, ReactivateRuleRow(r, d)
  PROVE  LawfulStep
<1> DEFINE id    == <<r, d>>
           to    == Prior(rows[id])
           fresh == [rows[id] EXCEPT !.cutoff = RuleCutoffAt(id)]
           row   == [UnleasedWrite(fresh) EXCEPT !.status = to, !.reason = "none",
                                        !.from = "none", !.want = RuleOf(id).want]
<1>1. id \in RowIds /\ RuleCutoffAt(id) \in Int /\ RuleOf(id).want \in Wants
  BY RuleCutoffAtType DEF Rule, LeaseInv
<1>2. PICK old \in Row : old = rows[id]
  BY <1>1, StoredRow DEF LeaseInv
<1>3. /\ Write(id, row)
      /\ MayTransition(id, fresh, to, "materializer", "none", FALSE)
      /\ ~old.live
  BY <1>2 DEF ReactivateRuleRow, LeaseHeld
<1>4. /\ fresh \in Row
      /\ fresh.status = old.status
      /\ fresh.live = old.live
      /\ fresh.reconcile = old.reconcile
  BY <1>1, <1>2 DEF Row
<1>5. to \in {"pending", "skipped"} /\ old.status # "booked"
  BY <1>2, <1>3, <1>4, PriorType DEF MayTransition, TransitionOwners
<1>6. to \in Statuses \ {"booked", "absent"} /\ "none" \in Reasons
  BY <1>5 DEF Statuses, ActiveStatuses, Reasons
<1> HIDE DEF fresh, to, id
<1>7. RowLaw(old, row)
  BY <1>1, <1>2, <1>3, <1>4, <1>5, <1>6, IntentFieldsLaw
<1>8. QED
  BY <1>1, <1>2, <1>3, <1>7, WriteLaw DEF LeaseInv

LEMMA WithdrawLaw ==
  ASSUME LeaseInv, NEW r \in Rules, NEW d \in Dates, WithdrawRuleRow(r, d)
  PROVE  LawfulStep
<1> DEFINE id  == <<r, d>>
<1>1. id \in RowIds
  BY RuleCutoffAtType DEF LeaseInv
<1>2. PICK old \in Row : old = rows[id]
  BY <1>1, StoredRow DEF LeaseInv
<1> DEFINE row == [UnleasedWrite(old) EXCEPT !.status = "withdrawn", !.reason = "system"]
<1>3. Write(id, row) /\ ~old.live /\ old.status # "booked"
  BY <1>2 DEF WithdrawRuleRow, LeaseHeld, MayTransition, TransitionOwners
<1>4. RowLaw(old, row)
  BY <1>3, StatusFieldsLaw DEF Statuses, Reasons
<1>5. QED
  BY <1>1, <1>2, <1>3, <1>4, WriteLaw DEF LeaseInv

\* A field no lease property looks at.
LEMMA DataLaw ==
  ASSUME NEW row \in Row, ~row.live, row.status # "absent"
  PROVE  /\ \A want \in Wants : RowLaw(row, [UnleasedWrite(row) EXCEPT !.want = want])
         /\ \A c \in Int : RowLaw(row, [UnleasedWrite(row) EXCEPT !.cutoff = c])
<1>1. PICK u \in Row : /\ u = UnleasedWrite(row)
                       /\ u.live = FALSE
                       /\ u.status = row.status
                       /\ u.reconcile = row.reconcile
                       /\ u.raw = row.raw
  BY UnleasedFacts
<1>2. /\ \A want \in Wants : RowLaw(row, [u EXCEPT !.want = want])
      /\ \A c \in Int : RowLaw(row, [u EXCEPT !.cutoff = c])
  BY <1>1 DEF Row, RowLaw, Kept
<1>3. QED
  BY <1>1, <1>2

LEMMA RewriteLaw ==
  ASSUME LeaseInv, NEW r \in Rules, NEW d \in Dates, RewritePendingRuleRow(r, d)
  PROVE  LawfulStep
<1> DEFINE id  == <<r, d>>
           want == RuleOf(id).want
<1>1. id \in RowIds /\ want \in Wants
  BY RuleCutoffAtType DEF Rule, LeaseInv
<1>2. PICK old \in Row : old = rows[id]
  BY <1>1, StoredRow DEF LeaseInv
<1> DEFINE row == [UnleasedWrite(old) EXCEPT !.want = want]
<1>3. Write(id, row) /\ ~old.live /\ old.status = "pending"
  BY <1>2 DEF RewritePendingRuleRow, LeaseHeld
<1>4. RowLaw(old, row)
  BY <1>1, <1>3, DataLaw
<1>5. QED
  BY <1>1, <1>2, <1>3, <1>4, WriteLaw DEF LeaseInv
-----------------------------------------------------------------------------
(* The web *)

LEMMA CutoffsLaw ==
  ASSUME LeaseInv, NEW at, \A id \in DOMAIN at : id \in RowIds => at[id] \in Int,
         RewriteCutoffs(at)
  PROVE  LawfulStep
<1> SUFFICES ASSUME NEW id \in RowIds PROVE RowLaw(rows[id], rows'[id])
  BY DEF LawfulStep
<1>1. PICK old \in Row : old = rows[id]
  BY StoredRow DEF LeaseInv
<1>2. CASE rows'[id] = old
  BY <1>1, <1>2, SameRow
<1>3. CASE rows'[id] # old
  <2>1. /\ id \in DOMAIN at
        /\ old.status \in CutoffRewriteStatuses
        /\ ~old.live
        /\ rows'[id] = [UnleasedWrite(old) EXCEPT !.cutoff = at[id]]
    BY <1>1, <1>3 DEF RewriteCutoffs, LeaseHeld
  <2>2. at[id] \in Int /\ old.status # "absent"
    BY <2>1 DEF CutoffRewriteStatuses
  <2>3. QED
    BY <1>1, <2>1, <2>2, DataLaw
<1>4. QED
  BY <1>2, <1>3

LEMMA SetCutoffLaw ==
  ASSUME LeaseInv, NEW c \in Cutoffs \cup {NoCutoff}, SetBookingCutoff(c)
  PROVE  LawfulStep
<1> DEFINE S  == {x \in RowIds : OwnCutoffOf(x) = NoCutoff}
           at == [id \in S |-> CutoffAt(DateOf(id), Resolve(NoCutoff, c))]
<1>1. \A id \in S : CutoffAt(DateOf(id), Resolve(NoCutoff, c)) \in Int
  BY RowIdFacts, CutoffAtType
<1>2. RewriteCutoffs(at)
  BY DEF SetBookingCutoff
<1>3. \A id \in DOMAIN at : id \in RowIds => at[id] \in Int
  BY <1>1
<1> HIDE DEF at
<1>4. QED
  BY <1>2, <1>3, CutoffsLaw

LEMMA RuleCutoffLaw ==
  ASSUME LeaseInv, NEW r \in Rules, RewriteRuleCutoff(r)
  PROVE  LawfulStep
<1> DEFINE S  == {x \in RowIds : OriginOf(x) = r}
           at == [id \in S |-> RuleCutoffAt(id)]
<1>1. ASSUME NEW id \in S PROVE RuleCutoffAt(id) \in Int
  <2>1. PICK d \in Dates : id = <<r, d>>
    BY DEF RowIds, Origins, OriginOf
  <2>2. QED
    BY <2>1, RuleCutoffAtType DEF LeaseInv
<1>2. RewriteCutoffs(at)
  BY DEF RewriteRuleCutoff
<1>3. \A id \in DOMAIN at : id \in RowIds => at[id] \in Int
  BY <1>1
<1> HIDE DEF at
<1>4. QED
  BY <1>2, <1>3, CutoffsLaw

LEMMA CreateLaw ==
  ASSUME LeaseInv, NEW o \in OneOffs, NEW d \in Dates, NEW own \in Cutoffs \cup {NoCutoff},
         CreateExplicitRow(o, d, own)
  PROVE  LawfulStep
<1> DEFINE id     == <<o, d>>
           cutoff == CutoffAt(d, Resolve(own, userCutoff))
           row    == [AbsentRow EXCEPT !.status = "pending", !.own = own, !.cutoff = cutoff]
           holder == slots[d]
           displaced == [UnleasedWrite(rows[holder]) EXCEPT
                           !.status = "superseded", !.from = rows[holder].status]
           w == [x \in {id, holder} |-> IF x = id THEN row ELSE displaced]
<1>1. id \in RowIds /\ rows[id].status = "absent" /\ cutoff \in Int
  BY CutoffAtType DEF CreateExplicitRow, RowIds, Origins, LeaseInv, TypeOK
<1>2. RowLaw(rows[id], row)
  <2>1. AnyWant \in Wants /\ "pending" \in {"pending", "superseded"}
    BY AbsentRowType
  <2> HIDE DEF id, cutoff
  <2>2. QED
    BY <1>1, <2>1, CreatedLaw
<1>3. CASE holder = NoRow
  <2>1. Write(id, row)
    BY <1>3 DEF CreateExplicitRow
  <2> HIDE DEF id, row
  <2>2. QED
    BY <1>1, <1>2, <2>1, WriteLaw DEF LeaseInv
<1>4. CASE holder # NoRow
  <2>1. /\ Commit(w)
        /\ MayTransition(holder, rows[holder], "superseded", "web", "none", FALSE)
        /\ ~LeaseHeld(holder)
    BY <1>4 DEF CreateExplicitRow
  <2>2. holder \in RowIds
    BY <1>4 DEF LeaseInv, TypeOK
  <2>3. PICK old \in Row : old = rows[holder]
    BY <2>2, StoredRow DEF LeaseInv
  <2>4. old.status \in {"pending", "skipped"} /\ ~old.live
    BY <2>1, <2>3 DEF MayTransition, TransitionOwners, LeaseHeld
  <2>5. RowLaw(rows[holder], displaced)
    <3>1. PICK u \in Row : /\ u = UnleasedWrite(old)
                           /\ u.live = FALSE
                           /\ u.reconcile = old.reconcile
      BY <2>4, UnleasedFacts
    <3>2. RowLaw(old, [u EXCEPT !.status = "superseded", !.from = old.status])
      BY <2>4, <3>1 DEF Row, RowLaw, WrittenUnleased
    <3>3. QED
      BY <2>3, <3>1, <3>2
  <2>6. \A x \in {id, holder} : RowLaw(rows[x], w[x])
    BY <1>2, <2>5
  <2>7. DOMAIN w = {id, holder} /\ {id, holder} \in SUBSET RowIds
    BY <1>1, <2>2
  <2> HIDE DEF w
  <2>8. QED
    BY <2>1, <2>6, <2>7, CommitLaw DEF LeaseInv
<1>5. QED
  BY <1>3, <1>4

LEMMA WebTransitionLaw ==
  ASSUME LeaseInv, NEW id \in RowIds, NEW to \in {"pending", "skipped"}, WebTransition(id, to)
  PROVE  LawfulStep
<1>1. PICK old \in Row : old = rows[id]
  BY StoredRow DEF LeaseInv
<1> DEFINE row == [UnleasedWrite(old) EXCEPT !.status = to, !.reason = "none",
                                             !.from = "none"]
<1>2. Write(id, row) /\ ~old.live /\ old.status # "booked"
  BY <1>1 DEF WebTransition, LeaseHeld, MayTransition, TransitionOwners
<1>3. RowLaw(old, row)
  BY <1>2, AbsentRowType, IntentFieldsLaw DEF Statuses, ActiveStatuses, Reasons
<1>4. QED
  BY <1>1, <1>2, <1>3, WriteLaw DEF LeaseInv

LEMMA RestoredLaw ==
  ASSUME LeaseInv, NEW d \in Dates, NEW id \in Restorable(d), ~LeaseHeld(id)
  PROVE  RowLaw(rows[id], Restored(id))
<1>1. /\ id \in RowIds
      /\ IsRuleRow(id)
      /\ rows[id].status \in {"superseded", "withdrawn"}
  BY DEF Restorable
<1>2. PICK old \in Row : old = rows[id]
  BY <1>1, StoredRow DEF LeaseInv
<1>3. ~old.live
  BY <1>2 DEF LeaseHeld
<1>4. RuleOf(id).want \in Wants
  BY <1>1 DEF RuleOf, IsRuleRow, LeaseInv, TypeOK, Rule
<1>5. PICK u \in Row : /\ u = UnleasedWrite(old)
                       /\ u.live = FALSE
                       /\ u.reconcile = old.reconcile
  BY <1>3, UnleasedFacts
<1> DEFINE want == IF old.status = "withdrawn" THEN RuleOf(id).want ELSE u.want
<1>6. want \in Wants
  BY <1>4 DEF Row
<1>7. Restored(id) = [u EXCEPT !.status = Prior(old), !.reason = "none",
                               !.from = "none", !.want = want]
  BY <1>2, <1>5 DEF Restored
<1> HIDE DEF want
<1>8. Prior(old) \in {"pending", "skipped"}
  BY PriorType
<1>9. RowLaw(old, [u EXCEPT !.status = Prior(old), !.reason = "none",
                            !.from = "none", !.want = want])
  BY <1>1, <1>2, <1>3, <1>5, <1>6, <1>8 DEF Row, RowLaw, WrittenUnleased
<1>10. QED
  BY <1>2, <1>7, <1>9

LEMMA WithdrawExplicitLaw ==
  ASSUME LeaseInv, NEW id \in RowIds, WithdrawExplicit(id)
  PROVE  LawfulStep
<1> DEFINE back == Restorable(DateOf(id))
           gone == [UnleasedWrite(rows[id]) EXCEPT !.status = "withdrawn",
                                                   !.reason = "user_withdrawn"]
           w == [x \in back \cup {id} |-> IF x = id THEN gone ELSE Restored(x)]
<1>1. DateOf(id) \in Dates
  BY RowIdFacts
<1>2. PICK old \in Row : old = rows[id]
  BY StoredRow DEF LeaseInv
<1>3. /\ Commit(w)
      /\ \A x \in back \cup {id} : ~LeaseHeld(x)
      /\ old.status # "booked"
  BY <1>2 DEF WithdrawExplicit, MayTransition, TransitionOwners
<1>4. RowLaw(rows[id], gone)
  BY <1>2, <1>3, StatusFieldsLaw DEF LeaseHeld, Statuses, Reasons
<1>5. \A x \in back : RowLaw(rows[x], Restored(x))
  BY <1>1, <1>3, RestoredLaw
<1>6. \A x \in back \cup {id} : RowLaw(rows[x], w[x])
  BY <1>4, <1>5
<1>7. DOMAIN w = back \cup {id} /\ back \cup {id} \in SUBSET RowIds
  BY DEF Restorable
<1> HIDE DEF w, back
<1>8. QED
  BY <1>3, <1>6, <1>7, CommitLaw DEF LeaseInv
-----------------------------------------------------------------------------
(* Every action is lawful, and the law keeps the invariant *)

\* An owner is given work only with a lease.
WorkStep == \A o \in Owners : \/ working'[o] \in {NoRow, working[o]}
                              \/ /\ working'[o] \in RowIds
                                 /\ rows[working'[o]].status # "absent"

LEMMA BotStepLaw ==
  ASSUME LeaseInv, BotStep
  PROVE  LawfulStep /\ WorkStep
<1>1. CASE \E owner \in Owners, id \in RowIds :
             ClaimRow(owner, id) \/ AcquireRowLease(owner, id)
  <2>1. PICK owner \in Owners, id \in RowIds :
          rows[id].status \in {"pending", "booked"} /\ Lease(id, owner)
    BY <1>1 DEF ClaimRow, AcquireRowLease
  <2>2. working' = [working EXCEPT ![owner] = id]
    BY <2>1 DEF Lease
  <2>3. \A o \in Owners : working'[o] = IF o = owner THEN id ELSE working[o]
    BY <2>2 DEF LeaseInv, TypeOK
  <2>4. WorkStep
    BY <2>1, <2>3 DEF WorkStep
  <2>5. QED
    BY <2>1, <2>4, LeaseLaw
<1>2. CASE \E owner \in Owners, id \in RowIds : ReleaseRowLease(owner, id)
  <2>1. PICK owner \in Owners, id \in RowIds : ReleaseRowLease(owner, id)
    BY <1>2
  <2>2. working' = [working EXCEPT ![owner] = NoRow]
    BY <2>1 DEF ReleaseRowLease
  <2>3. \A o \in Owners : working'[o] = IF o = owner THEN NoRow ELSE working[o]
    BY <2>2 DEF LeaseInv, TypeOK
  <2>4. QED
    BY <2>1, <2>3, ReleaseLaw DEF WorkStep
<1>3. CASE \E owner \in Owners, id \in RowIds :
             \E o \in Outcomes(ActorOf[owner]) : RecordOutcome(owner, id, o)
  <2>1. PICK owner \in Owners, id \in RowIds :
          \E o \in Outcomes(ActorOf[owner]) : RecordOutcome(owner, id, o)
    BY <1>3
  <2>2. PICK o \in Outcomes(ActorOf[owner]) : RecordOutcome(owner, id, o)
    BY <2>1
  <2>3. UNCHANGED working
    BY <2>2 DEF RecordOutcome
  <2>4. QED
    BY <2>2, <2>3, RecordLaw DEF WorkStep
<1>4. CASE \E id \in RowIds : LeaseExpires(id)
  BY <1>4, ExpiryLaw DEF LeaseExpires, WorkStep
<1>5. CASE FinalizeLost
  BY <1>5, FinalizeLaw DEF FinalizeLost, WorkStep
<1>6. QED
  BY <1>1, <1>2, <1>3, <1>4, <1>5 DEF BotStep

LEMMA MaterializerStepLaw ==
  ASSUME LeaseInv, MaterializerStep
  PROVE  LawfulStep /\ WorkStep
<1>1. PICK r \in Rules, d \in Dates :
        \/ InsertRuleRow(r, d) \/ ReactivateRuleRow(r, d)
        \/ WithdrawRuleRow(r, d) \/ RewritePendingRuleRow(r, d)
  BY DEF MaterializerStep
<1>2. UNCHANGED working
  BY <1>1 DEF InsertRuleRow, ReactivateRuleRow, WithdrawRuleRow, RewritePendingRuleRow
<1>3. LawfulStep
  BY <1>1, InsertLaw, ReactivateLaw, WithdrawLaw, RewriteLaw
<1>4. QED
  BY <1>2, <1>3 DEF WorkStep

LEMMA WebStepLaw ==
  ASSUME LeaseInv, WebStep
  PROVE  LawfulStep /\ WorkStep
<1>1. CASE \E id \in RowIds : SkipRow(id) \/ UnskipRow(id)
  <2>1. PICK id \in RowIds : SkipRow(id) \/ UnskipRow(id)
    BY <1>1
  <2>2. \E to \in {"pending", "skipped"} : WebTransition(id, to)
    BY <2>1 DEF SkipRow, UnskipRow
  <2>3. UNCHANGED working
    BY <2>2 DEF WebTransition
  <2>4. QED
    BY <2>2, <2>3, WebTransitionLaw DEF WorkStep
<1>2. CASE \E id \in RowIds : WithdrawExplicit(id)
  BY <1>2, WithdrawExplicitLaw DEF WithdrawExplicit, WorkStep
<1>3. CASE \E o \in OneOffs, d \in Dates, own \in Cutoffs \cup {NoCutoff} :
             CreateExplicitRow(o, d, own)
  BY <1>3, CreateLaw DEF CreateExplicitRow, WorkStep
<1>4. CASE \E c \in Cutoffs \cup {NoCutoff} : SetBookingCutoff(c)
  BY <1>4, SetCutoffLaw DEF SetBookingCutoff, WorkStep
<1>5. CASE \E r \in Rules : RewriteRuleCutoff(r)
  BY <1>5, RuleCutoffLaw DEF RewriteRuleCutoff, WorkStep
<1>6. CASE \E r \in Rules, new \in Rule : UpsertRule(r, new)
  BY <1>6, IdleLaw DEF UpsertRule, WorkStep
<1>7. QED
  BY <1>1, <1>2, <1>3, <1>4, <1>5, <1>6 DEF WebStep, UserStep, RuleStep

LEMMA StepLaw ==
  ASSUME LeaseInv, [Next]_vars
  PROVE  LawfulStep /\ WorkStep
<1>1. CASE Tick
  BY <1>1, IdleLaw DEF Tick, WorkStep
<1>2. CASE UNCHANGED vars
  BY <1>2, IdleLaw DEF vars, WorkStep
<1>3. QED
  BY <1>1, <1>2, BotStepLaw, MaterializerStepLaw, WebStepLaw DEF Next

LEMMA LawKeepsInv ==
  ASSUME LeaseInv, TypeOK', LawfulStep, WorkStep
  PROVE  /\ LiveLeaseIsLeasable'
         /\ AbsentIsBlank'
         /\ WorksOnRow'
<1>1. ASSUME NEW id \in RowIds
      PROVE  /\ rows'[id].live => /\ rows'[id].status \in {"pending", "booked"}
                                  /\ rows'[id].owner # NoOwner
             /\ rows'[id].status = "absent" => ~rows'[id].reconcile
             /\ rows'[id].status = "absent" => rows[id].status = "absent"
  <2>1. RowLaw(rows[id], rows'[id])
    BY DEF LawfulStep
  <2>2. rows[id].live => /\ rows[id].status \in {"pending", "booked"}
                         /\ rows[id].owner # NoOwner
    BY DEF LeaseInv, LiveLeaseIsLeasable, LeaseHeld
  <2>3. rows[id].status = "absent" => ~rows[id].reconcile
    BY DEF LeaseInv, AbsentIsBlank
  <2>4. QED
    BY <2>1, <2>2, <2>3, OwnerAssumption
       DEF RowLaw, Kept, LeaseGiven, MovedUnderLease, WrittenUnleased
<1>2. LiveLeaseIsLeasable'
  BY <1>1 DEF LiveLeaseIsLeasable, LeaseHeld
<1>3. AbsentIsBlank'
  BY <1>1 DEF AbsentIsBlank
<1>4. ASSUME NEW o \in Owners, working'[o] # NoRow
      PROVE  rows'[working'[o]].status # "absent"
  <2>1. working'[o] \in RowIds
    BY <1>4 DEF TypeOK
  <2>2. rows[working'[o]].status # "absent"
    BY <1>4 DEF WorkStep, LeaseInv, WorksOnRow
  <2>3. QED
    BY <1>1, <2>1, <2>2
<1>5. WorksOnRow'
  BY <1>4 DEF WorksOnRow
<1>6. QED
  BY <1>2, <1>3, <1>5

LEMMA LeaseInvStep ==
  ASSUME LeaseInv, [Next]_vars
  PROVE  LeaseInv'
<1>1. TypeOK' /\ OneActiveRowPerDate'
  BY TypeStep, SlotsStep DEF LeaseInv
<1>2. QED
  BY <1>1, StepLaw, LawKeepsInv DEF LeaseInv

LEMMA LeaseInvInit == Init => LeaseInv
<1> SUFFICES ASSUME Init PROVE LeaseInv
  OBVIOUS
<1>1. TypeOK /\ OneActiveRowPerDate
  BY InitType, SlotsInit
<1>2. LiveLeaseIsLeasable /\ AbsentIsBlank /\ WorksOnRow
  BY DEF Init, LiveLeaseIsLeasable, LeaseHeld, AbsentIsBlank, WorksOnRow, AbsentRow
<1>3. QED
  BY <1>1, <1>2 DEF LeaseInv

\* The inductive invariant of the leases.
THEOREM LeaseInvariant == Spec => []LeaseInv
<1>1. QED
  BY LeaseInvInit, LeaseInvStep, PTL DEF Spec
-----------------------------------------------------------------------------
(* The lease properties *)

\* Only a pending or booked row is ever under a live lease, and the lease names
\* its owner: no holder works on a row that was superseded, skipped, withdrawn,
\* cancelled or lost under it (semantics.LEASABLE_STATUSES).
THEOREM LeasesAreLeasable == Spec => []LiveLeaseIsLeasable
<1>1. LeaseInv => LiveLeaseIsLeasable
  BY DEF LeaseInv
<1>2. QED
  BY <1>1, LeaseInvariant, PTL

\* A row under a live lease changes status or reservation only along a leased
\* edge, in a step that ends the lease: whatever the number of runners, watchers
\* and web requests, nobody moves a row under its holder and no outcome counts
\* twice (semantics.LEASED_EDGES, in_memory_store.record_outcomes).
THEOREM HoldersAlone == Spec => LeaseDiscipline
<1>1. ASSUME LeaseInv, [Next]_vars, NEW id \in RowIds, rows[id].live,
             rows'[id].status # rows[id].status \/ rows'[id].raw # rows[id].raw
      PROVE  /\ \E a \in Actors : <<rows[id].status, rows'[id].status, a>> \in LeasedEdges
             /\ ~rows'[id].live
             /\ rows'[id].owner = NoOwner
  <2>1. RowLaw(rows[id], rows'[id])
    BY <1>1, StepLaw DEF LawfulStep
  <2>2. QED
    BY <1>1, <2>1 DEF RowLaw, Kept, LeaseGiven, MovedUnderLease, WrittenUnleased
<1>2. LeaseInv /\ [Next]_vars =>
        [\A id \in RowIds :
            LET old == rows[id]
                new == rows'[id]
            IN  old.live /\ (new.status # old.status \/ new.raw # old.raw)
                  => /\ \E a \in Actors : <<old.status, new.status, a>> \in LeasedEdges
                     /\ ~new.live
                     /\ new.owner = NoOwner]_vars
  BY <1>1
<1>3. QED
  BY <1>2, LeaseInvariant, PTL DEF Spec, LeaseDiscipline

\* A row becomes booked, or stops being booked, only while its writer holds a
\* live lease: an outcome that comes after the lease expired moves nothing
\* (semantics.lease_held, in_memory_store._apply_outcome).
THEOREM BookedUnderLease == Spec => BookingNeedsLease
<1>1. ASSUME LeaseInv, [Next]_vars, NEW id \in RowIds,
             (rows[id].status # "booked") # (rows'[id].status # "booked")
      PROVE  rows[id].live
  <2>1. RowLaw(rows[id], rows'[id])
    BY <1>1, StepLaw DEF LawfulStep
  <2>2. QED
    BY <1>1, <2>1 DEF RowLaw, Kept, LeaseGiven, MovedUnderLease, WrittenUnleased
<1>2. LeaseInv /\ [Next]_vars =>
        [\A id \in RowIds :
            LET old == rows[id]
                new == rows'[id]
            IN  \/ old.status # "booked" /\ new.status = "booked"
                \/ old.status = "booked" /\ new.status # "booked"
                => old.live]_vars
  BY <1>1
<1>3. QED
  BY <1>2, LeaseInvariant, PTL DEF Spec, BookingNeedsLease

\* needs_reconcile goes out only with an outcome that moved the row along a
\* leased edge under a live lease: nothing else forgets that a booking may have
\* landed (semantics.outcome_row, in_memory_store._flag_active_row).
THEOREM ReconcileIsKept == Spec => ReconcileKept
<1>1. ASSUME LeaseInv, [Next]_vars, NEW id \in RowIds,
             rows[id].reconcile, ~rows'[id].reconcile
      PROVE  /\ rows[id].live
             /\ \E a \in Actors : <<rows[id].status, rows'[id].status, a>> \in LeasedEdges
  <2>1. RowLaw(rows[id], rows'[id])
    BY <1>1, StepLaw DEF LawfulStep
  <2>2. QED
    BY <1>1, <2>1 DEF RowLaw, Kept, LeaseGiven, MovedUnderLease, WrittenUnleased
<1>2. LeaseInv /\ [Next]_vars =>
        [\A id \in RowIds :
            rows[id].reconcile /\ ~rows'[id].reconcile
              => /\ rows[id].live
                 /\ \E a \in Actors :
                      <<rows[id].status, rows'[id].status, a>> \in LeasedEdges]_vars
  BY <1>1
<1>3. QED
  BY <1>2, LeaseInvariant, PTL DEF Spec, ReconcileKept
-----------------------------------------------------------------------------
(* The ledger *)

\* A report that puts a reservation into the ledger as alive books the row, or asks
\* for a reconcile.
LEMMA AliveIsTold ==
  ASSUME NEW a \in {"runner", "watcher", "web"}, NEW o \in Outcomes(a),
         NEW b \in o.held \cup o.extras
  PROVE  o.to = "booked" \/ (o.to = "same" /\ o.reconcile = TRUE)
<1>1. CASE o \in Interruptions
  BY <1>1 DEF Interruptions, Outcome
<1>2. CASE o \in Bookings \cup Upgrades \cup Adoptions(BOOLEAN) \cup Adoptions({FALSE})
  <2> DEFINE U(f, x) == Outcome("booked", "none", f, x, {x}, {}, Raws \ {x})
  <2>1. Upgrades = {U(f, x) : f \in BOOLEAN, x \in Raws}
    BY DEF Upgrades
  <2>2. \A f, x : U(f, x).to = "booked"
    BY DEF Outcome
  <2> HIDE DEF U
  <2>3. CASE o \in Upgrades
    BY <2>1, <2>2, <2>3
  <2>4. CASE o \in Bookings
    BY <2>4 DEF Bookings, Outcome
  <2>5. CASE o \in Adoptions(BOOLEAN)
    BY <2>5 DEF Adoptions, Outcome
  <2>6. CASE o \in Adoptions({FALSE})
    BY <2>6 DEF Adoptions, Outcome
  <2>7. QED
    BY <1>2, <2>3, <2>4, <2>5, <2>6
<1>3. CASE o \in Notes \cup FailedRebooks \cup Downgrades \cup UserCancels \cup Vanishes
  <2>1. o.held = {} /\ o.extras = {}
    BY <1>3 DEF Notes, FailedRebooks, Downgrades, UserCancels, Vanishes, Outcome
  <2>2. QED
    BY <2>1
<1>4. o \in Notes \cup Interruptions \cup Bookings \cup Upgrades
          \cup Adoptions(BOOLEAN) \cup Adoptions({FALSE}) \cup FailedRebooks
          \cup Downgrades \cup UserCancels \cup Vanishes
  <2>1. CASE a = "runner"
    BY <2>1 DEF Outcomes
  <2>2. CASE a = "watcher"
    BY <2>2 DEF Outcomes
  <2>3. CASE a = "web"
    BY <2>3 DEF Outcomes
  <2>4. QED
    BY <2>1, <2>2, <2>3
<1>5. QED
  BY <1>1, <1>2, <1>3, <1>4

LEMMA OnlyReportsWriteLedger ==
  ASSUME [Next]_vars,
         ~ \E owner \in Owners, id \in RowIds :
              \E o \in Outcomes(ActorOf[owner]) : RecordOutcome(owner, id, o)
  PROVE  UNCHANGED ledger
<1>1. CASE MaterializerStep
  <2>1. PICK r \in Rules, d \in Dates :
          \/ InsertRuleRow(r, d) \/ ReactivateRuleRow(r, d)
          \/ WithdrawRuleRow(r, d) \/ RewritePendingRuleRow(r, d)
    BY <1>1 DEF MaterializerStep
  <2>2. QED
    BY <2>1 DEF InsertRuleRow, ReactivateRuleRow, WithdrawRuleRow, RewritePendingRuleRow
<1>2. CASE BotStep
  <2>1. CASE FinalizeLost \/ \E id \in RowIds : LeaseExpires(id)
    BY <2>1 DEF FinalizeLost, LeaseExpires
  <2>2. CASE \E owner \in Owners, id \in RowIds :
               \/ ClaimRow(owner, id) \/ AcquireRowLease(owner, id)
               \/ ReleaseRowLease(owner, id)
    BY <2>2 DEF ClaimRow, AcquireRowLease, ReleaseRowLease
  <2>3. QED
    BY <1>2, <2>1, <2>2 DEF BotStep
<1>3. CASE WebStep
  <2>1. CASE \E id \in RowIds : SkipRow(id) \/ UnskipRow(id)
    BY <2>1 DEF SkipRow, UnskipRow, WebTransition
  <2>2. CASE \E id \in RowIds : WithdrawExplicit(id)
    BY <2>2 DEF WithdrawExplicit
  <2>3. CASE \E o \in OneOffs, d \in Dates, own \in Cutoffs \cup {NoCutoff} :
               CreateExplicitRow(o, d, own)
    BY <2>3 DEF CreateExplicitRow
  <2>4. CASE \/ \E c \in Cutoffs \cup {NoCutoff} : SetBookingCutoff(c)
             \/ \E r \in Rules : RewriteRuleCutoff(r)
    BY <2>4 DEF SetBookingCutoff, RewriteRuleCutoff
  <2>5. CASE \E r \in Rules, new \in Rule : UpsertRule(r, new)
    BY <2>5 DEF UpsertRule
  <2>6. QED
    BY <1>3, <2>1, <2>2, <2>3, <2>4, <2>5 DEF WebStep, UserStep, RuleStep
<1>4. CASE Tick
  BY <1>4 DEF Tick
<1>5. CASE UNCHANGED vars
  BY <1>5 DEF vars
<1>6. QED
  BY <1>1, <1>2, <1>3, <1>4, <1>5 DEF Next

\* Told(id): the row is booked or flagged, or the date's active row is flagged.
Told(id) ==
    \/ rows'[id].status = "booked"
    \/ rows'[id].reconcile
    \/ slots'[DateOf(id)] # NoRow => rows'[slots'[DateOf(id)]].reconcile

LEMMA ReportIsTold ==
  ASSUME LeaseInv, NEW owner \in Owners, NEW id \in RowIds,
         NEW o \in Outcomes(ActorOf[owner]), RecordOutcome(owner, id, o),
         NEW b \in Raws, ~Alive(ledger[b]), Alive(ledger'[b])
  PROVE  Told(id)
<1>1. o \in OutcomeType
  BY OutcomesType, OwnerAssumption
<1>2. o.to = "booked" \/ (o.to = "same" /\ o.reconcile = TRUE)
  <2>1. ledger'[b] = CASE b \in o.dropped -> "cancelled"
                       [] b \in o.extras  -> "held_extra"
                       [] b \in o.held    -> "held"
                       [] OTHER           -> ledger[b]
    BY DEF RecordOutcome, Applied, Refused, WriteLedger
  <2>2. b \in o.held \cup o.extras
    BY <2>1 DEF Alive
  <2>3. QED
    BY <2>2, AliveIsTold, OwnerAssumption
<1>3. CASE Accepted(owner, id, o)
  <2>1. rows'[id] = OutcomeRow(owner, id, o)
    BY <1>3 DEF RecordOutcome, Applied, Write, Commit
  <2>2. CASE o.to = "booked"
    BY <1>1, <2>1, <2>2, OutcomeRowType DEF Told, LeaseInv
  <2>3. CASE o.to = "same" /\ o.reconcile = TRUE
    <3>1. PICK row \in Row : row = rows[id]
      BY StoredRow DEF LeaseInv
    <3> DEFINE noted == [row EXCEPT !.reconcile = @ \/ o.reconcile]
    <3>2. noted \in Row /\ noted.reconcile
      BY <1>1, <2>3 DEF Row, OutcomeType
    <3>3. rows'[id] = IF row.owner = owner THEN [noted EXCEPT !.owner = NoOwner, !.live = FALSE]
                                           ELSE noted
      BY <2>1, <2>3, <3>1 DEF OutcomeRow
    <3> HIDE DEF noted
    <3>4. [noted EXCEPT !.owner = NoOwner, !.live = FALSE].reconcile
      BY <3>2 DEF Row
    <3>5. rows'[id].reconcile
      BY <3>2, <3>3, <3>4
    <3>6. QED
      BY <3>5 DEF Told
  <2>4. QED
    BY <1>2, <2>2, <2>3
<1>4. CASE ~Accepted(owner, id, o)
  <2>1. FlagActiveRow(DateOf(id)) /\ UNCHANGED slots
    BY <1>4 DEF RecordOutcome, Refused
  <2>2. CASE slots[DateOf(id)] = NoRow
    BY <2>1, <2>2 DEF Told
  <2>3. CASE slots[DateOf(id)] # NoRow
    <3>1. PICK x \in RowIds : x = slots[DateOf(id)]
      BY <2>3, RowIdFacts DEF LeaseInv, TypeOK
    <3>2. PICK row \in Row : row = rows[x]
      BY StoredRow DEF LeaseInv
    <3>3. rows' = [rows EXCEPT ![x] = [row EXCEPT !.reconcile = TRUE]]
      BY <2>1, <2>3, <3>1, <3>2 DEF FlagActiveRow
    <3>4. rows'[x] = [row EXCEPT !.reconcile = TRUE]
      BY <3>3 DEF LeaseInv, TypeOK
    <3>5. rows'[x].reconcile = TRUE
      BY <3>4 DEF Row
    <3>6. QED
      BY <2>1, <3>1, <3>5 DEF Told
  <2>4. QED
    BY <2>2, <2>3
<1>5. QED
  BY <1>3, <1>4

\* No reservation goes into the ledger in silence: whatever the store refuses and
\* however late the report, the row that made it is booked or flagged, or the row that
\* holds its date now is flagged (in_memory_store._flag_active_row, M4).
THEOREM BookingsAreTold == Spec => NoSilentBooking
<1>1. ASSUME LeaseInv, [Next]_vars, NEW b \in Raws, ~Alive(ledger[b]), Alive(ledger'[b])
      PROVE  \E owner \in Owners : working[owner] # NoRow /\ Told(working[owner])
  <2>1. \E owner \in Owners, id \in RowIds :
           \E o \in Outcomes(ActorOf[owner]) : RecordOutcome(owner, id, o)
    BY <1>1, OnlyReportsWriteLedger
  <2>2. PICK owner \in Owners, id \in RowIds :
          \E o \in Outcomes(ActorOf[owner]) : RecordOutcome(owner, id, o)
    BY <2>1
  <2>3. PICK o \in Outcomes(ActorOf[owner]) : RecordOutcome(owner, id, o)
    BY <2>2
  <2>4. working[owner] = id /\ id # NoRow
    BY <2>3, RowIdFacts, RulesAssumption DEF RecordOutcome, RowIds, Origins
  <2>5. QED
    BY <1>1, <2>3, <2>4, ReportIsTold
<1>2. LeaseInv /\ [Next]_vars =>
        [\A b \in Raws :
            ~Alive(ledger[b]) /\ Alive(ledger'[b])
              => \E owner \in Owners :
                   LET id     == working[owner]
                       active == slots'[DateOf(id)]
                   IN  /\ id # NoRow
                       /\ \/ rows'[id].status = "booked"
                          \/ rows'[id].reconcile
                          \/ active # NoRow => rows'[active].reconcile]_vars
  BY <1>1 DEF Told
<1>3. QED
  BY <1>2, LeaseInvariant, PTL DEF Spec, NoSilentBooking

-----------------------------------------------------------------------------
(***************************************************************************)
(* What the user said stays said: a date whose booking was cancelled is    *)
(* closed to the rules for good, and a skip survives whatever happens to   *)
(* its row.  The argument is a second law of one row, beside the one of    *)
(* the leases: every step but two obeys it for every row, a cancel and an  *)
(* unskip break it for the one row they are about and touch no other.      *)
(***************************************************************************)

\* The row is skipped, or comes back as skipped.
Remembers(row) ==
    \/ row.status = "skipped"
    \/ row.status \in {"superseded", "withdrawn"} /\ row.from = "skipped"

Said(old, new) ==
    /\ Remembers(old) => Remembers(new)
    /\ "cancelled" \in {old.status, new.status} => new.status = old.status /\ new.reason = old.reason
UserLaw(old, new) ==
    /\ Said(old, new)
    /\ new.status = "withdrawn" /\ new.reason # "system"
         => old.status = "withdrawn" /\ new.reason = old.reason

UserLawful == \A id \in RowIds : UserLaw(rows[id], rows'[id])

\* The one row of a step that is about one row.
OnlyRow(id) == \A x \in RowIds \ {id} : rows'[x] = rows[x]

\* The user withdraws a one-off.
WithdrawalOf(id) ==
    /\ ~IsRuleRow(id)
    /\ Said(rows[id], rows'[id])
    /\ \A x \in RowIds \ {id} : UserLaw(rows[x], rows'[x])

CancelOf(id) == OnlyRow(id) /\ rows[id].status = "booked" /\ IsUserTerminal(rows'[id])
-----------------------------------------------------------------------------
(* Records and batches *)

LEMMA SameForUser ==
  ASSUME NEW row
  PROVE  UserLaw(row, row)
BY DEF Said, UserLaw

\* A row keeps what the user said when neither its status, its reason nor its
\* superseded_from is written.
LEMMA DataForUser ==
  ASSUME NEW old, NEW new, new.status = old.status, new.reason = old.reason, new.from = old.from
  PROVE  UserLaw(old, new)
BY DEF Said, UserLaw, Remembers

LEMMA UnleasedForUser ==
  ASSUME NEW row \in Row
  PROVE  /\ UnleasedWrite(row) \in Row
         /\ UnleasedWrite(row).status = row.status
         /\ UnleasedWrite(row).reason = row.reason
         /\ UnleasedWrite(row).from = row.from
BY DEF UnleasedWrite, Row

LEMMA CommitForUser ==
  ASSUME TypeOK, NEW S \in SUBSET RowIds, NEW w, DOMAIN w = S, Commit(w),
         \A id \in S : UserLaw(rows[id], w[id])
  PROVE  UserLawful
<1> SUFFICES ASSUME NEW id \in RowIds PROVE UserLaw(rows[id], rows'[id])
  BY DEF UserLawful
<1>1. rows'[id] = IF id \in S THEN w[id] ELSE rows[id]
  BY DEF Commit
<1>2. QED
  BY <1>1, SameForUser

LEMMA WrittenRow ==
  ASSUME TypeOK, NEW id \in RowIds, NEW row, Write(id, row)
  PROVE  rows'[id] = row /\ OnlyRow(id)
BY DEF Write, Commit, OnlyRow

LEMMA WriteForUser ==
  ASSUME TypeOK, NEW id \in RowIds, NEW row, Write(id, row), UserLaw(rows[id], row)
  PROVE  UserLawful
<1>1. rows'[id] = row /\ OnlyRow(id)
  BY WrittenRow
<1>2. QED
  BY <1>1, SameForUser DEF UserLawful, OnlyRow

LEMMA IdleForUser ==
  ASSUME UNCHANGED rows
  PROVE  UserLawful
BY SameForUser DEF UserLawful
-----------------------------------------------------------------------------
(* The bots *)

LEMMA LeaseForUser ==
  ASSUME LeaseInv, NEW owner \in Owners, NEW id \in RowIds,
         Lease(id, owner) \/ ReleaseRowLease(owner, id)
  PROVE  UserLawful
<1>1. PICK row \in Row : row = rows[id]
  BY StoredRow DEF LeaseInv
<1>2. ASSUME NEW o \in Owners \cup {NoOwner}, NEW live \in BOOLEAN
      PROVE  UserLaw(row, [row EXCEPT !.owner = o, !.live = live])
  BY DEF Row, Said, UserLaw, Remembers
<1>3. CASE Lease(id, owner)
  BY <1>1, <1>2, <1>3, WriteForUser DEF Lease, LeaseInv
<1>4. CASE ReleaseRowLease(owner, id)
  BY <1>1, <1>2, <1>4, WriteForUser, IdleForUser DEF ReleaseRowLease, LeaseInv
<1>5. QED
  BY <1>3, <1>4

LEMMA ExpiryForUser ==
  ASSUME LeaseInv, NEW id \in RowIds, LeaseExpires(id)
  PROVE  UserLawful
<1>1. PICK row \in Row : row = rows[id]
  BY StoredRow DEF LeaseInv
<1>2. UserLaw(row, [row EXCEPT !.live = FALSE])
  BY DEF Row, Said, UserLaw, Remembers
<1>3. rows' = [rows EXCEPT ![id] = [row EXCEPT !.live = FALSE]]
  BY <1>1 DEF LeaseExpires
<1>4. QED
  BY <1>1, <1>2, <1>3, SameForUser DEF UserLawful, LeaseInv, TypeOK

LEMMA FlagForUser ==
  ASSUME LeaseInv, NEW d \in Dates, FlagActiveRow(d)
  PROVE  UserLawful
<1>1. CASE slots[d] = NoRow
  BY <1>1, IdleForUser DEF FlagActiveRow
<1>2. CASE slots[d] # NoRow
  <2>1. PICK id \in RowIds : id = slots[d]
    BY <1>2 DEF LeaseInv, TypeOK
  <2>2. PICK row \in Row : row = rows[id]
    BY StoredRow DEF LeaseInv
  <2>3. UserLaw(row, [row EXCEPT !.reconcile = TRUE])
    BY DEF Row, Said, UserLaw, Remembers
  <2>4. rows' = [rows EXCEPT ![id] = [row EXCEPT !.reconcile = TRUE]]
    BY <1>2, <2>1, <2>2 DEF FlagActiveRow
  <2>5. QED
    BY <2>2, <2>3, <2>4, SameForUser DEF UserLawful, LeaseInv, TypeOK
<1>3. QED
  BY <1>1, <1>2

\* A note leaves status and reason; a report that moves the row moves it along a
\* leased edge, from pending or booked.
LEMMA OutcomeForUser ==
  ASSUME LeaseInv, NEW owner \in Owners, NEW id \in RowIds, NEW o \in OutcomeType,
         Accepted(owner, id, o)
  PROVE  \/ UserLaw(rows[id], OutcomeRow(owner, id, o))
         \/ rows[id].status = "booked" /\ IsUserTerminal(OutcomeRow(owner, id, o))
<1>1. PICK row \in Row : row = rows[id]
  BY StoredRow DEF LeaseInv
<1>2. CASE o.to = "same"
  <2> DEFINE noted == [row EXCEPT !.reconcile = @ \/ o.reconcile]
  <2>1. noted \in Row /\ noted.status = row.status /\ noted.reason = row.reason /\ noted.from = row.from
    BY DEF Row, OutcomeType
  <2>2. OutcomeRow(owner, id, o) =
          IF row.owner = owner THEN [noted EXCEPT !.owner = NoOwner, !.live = FALSE]
                               ELSE noted
    BY <1>1, <1>2 DEF OutcomeRow
  <2> HIDE DEF noted
  <2>3. UserLaw(row, noted)
    BY <2>1, DataForUser
  <2>4. UserLaw(row, [noted EXCEPT !.owner = NoOwner, !.live = FALSE])
    BY <2>1 DEF Row, Said, UserLaw, Remembers
  <2>5. QED
    BY <1>1, <2>2, <2>3, <2>4
<1>3. CASE o.to # "same"
  <2>1. <<row.status, o.to, ActorOf[owner]>> \in LeasedEdges
    BY <1>1, <1>3 DEF Accepted
  <2>2. OutcomeRow(owner, id, o).status = o.to
    BY <1>3, OutcomeRowType DEF LeaseInv
  <2>3. /\ row.status \in {"pending", "booked"} /\ o.to # "withdrawn"
        /\ o.to = "cancelled" => row.status = "booked"
    BY <2>1 DEF LeasedEdges
  <2>4. o.to = "cancelled" => o.reason \in {"user", "external"}
    BY <1>1, <1>3 DEF Accepted, MayTransition, GuardCancel
  <2>5. PICK moved \in Row : moved = BookingFields(row, o)
    BY DEF BookingFields, Row, OutcomeType
  <2>6. OutcomeRow(owner, id, o).reason = o.reason
    BY <1>1, <1>3, <2>5 DEF OutcomeRow, Row
  <2>7. QED
    BY <1>1, <2>2, <2>3, <2>4, <2>6 DEF Said, UserLaw, Remembers, IsUserTerminal
<1>4. QED
  BY <1>2, <1>3

LEMMA RecordForUser ==
  ASSUME LeaseInv, NEW owner \in Owners, NEW id \in RowIds,
         NEW o \in Outcomes(ActorOf[owner]), RecordOutcome(owner, id, o)
  PROVE  UserLawful \/ CancelOf(id)
<1>1. o \in OutcomeType
  BY OutcomesType, OwnerAssumption
<1>2. CASE Accepted(owner, id, o)
  <2>1. Write(id, OutcomeRow(owner, id, o))
    BY <1>2 DEF RecordOutcome, Applied
  <2>2. CASE UserLaw(rows[id], OutcomeRow(owner, id, o))
    BY <2>1, <2>2, WriteForUser DEF LeaseInv
  <2>3. CASE rows[id].status = "booked" /\ IsUserTerminal(OutcomeRow(owner, id, o))
    BY <2>1, <2>3, WrittenRow DEF CancelOf, LeaseInv
  <2>4. QED
    BY <1>1, <1>2, <2>2, <2>3, OutcomeForUser
<1>3. CASE ~Accepted(owner, id, o)
  BY <1>3, RowIdFacts, FlagForUser DEF RecordOutcome, Refused
<1>4. QED
  BY <1>2, <1>3

\* The finalizer only takes pending rows.
LEMMA FinalizeForUser ==
  ASSUME LeaseInv, FinalizeLost
  PROVE  UserLawful
<1> DEFINE w == [id \in FrozenPending |-> Finalized(id)]
<1>1. FrozenPending \in SUBSET RowIds
  BY DEF FrozenPending
<1>2. ASSUME NEW id \in FrozenPending
      PROVE  UserLaw(rows[id], Finalized(id))
  <2>1. PICK row \in Row : row = rows[id] /\ row.status = "pending"
    BY <1>1, StoredRow DEF FrozenPending, LeaseInv
  <2>2. PICK u \in Row : u = UnleasedWrite(row)
    BY UnleasedForUser
  <2>3. \A status \in {"lost", "withdrawn"}, reason \in Reasons :
          (status = "withdrawn" => reason = "system")
            => UserLaw(row, [u EXCEPT !.status = status, !.reason = reason])
    BY <2>1 DEF Said, UserLaw, Remembers, Row
  <2>4. QED
    BY <2>1, <2>2, <2>3 DEF Finalized, Reasons
<1>3. Commit(w) /\ DOMAIN w = FrozenPending
  BY DEF FinalizeLost
<1>4. \A id \in FrozenPending : UserLaw(rows[id], w[id])
  BY <1>2
<1> HIDE DEF w
<1>5. QED
  BY <1>1, <1>3, <1>4, CommitForUser DEF LeaseInv
-----------------------------------------------------------------------------
(* The materializer *)

LEMMA NewForUser ==
  ASSUME NEW id \in RowIds, rows[id].status = "absent", NEW row,
         row.status \notin {"cancelled", "withdrawn"}
  PROVE  UserLaw(rows[id], row)
BY DEF Said, UserLaw, Remembers

\* A row comes back with the status it had before a supersede.
LEMMA BackForUser ==
  ASSUME NEW old \in Row, NEW new, new.status = Prior(old), old.status \in {"superseded", "withdrawn"}
  PROVE  UserLaw(old, new)
BY PriorType DEF Said, UserLaw, Remembers, Prior

LEMMA InsertForUser ==
  ASSUME LeaseInv, NEW r \in Rules, NEW d \in Dates, InsertRuleRow(r, d)
  PROVE  UserLawful
<1> DEFINE id     == <<r, d>>
           status == IF slots[d] = NoRow THEN "pending" ELSE "superseded"
           row    == [AbsentRow EXCEPT !.status = status, !.cutoff = RuleCutoffAt(id),
                                       !.want = RuleOf(id).want]
<1>1. id \in RowIds
  BY RuleCutoffAtType DEF LeaseInv
<1>2. Write(id, row) /\ rows[id].status = "absent" /\ row.status \notin {"cancelled", "withdrawn"}
  BY DEF InsertRuleRow, AbsentRow
<1> HIDE DEF id, row
<1>3. QED
  BY <1>1, <1>2, NewForUser, WriteForUser DEF LeaseInv

LEMMA ReactivateForUser ==
  ASSUME LeaseInv, NEW r \in Rules, NEW d \in Dates, ReactivateRuleRow(r, d)
  PROVE  UserLawful
<1> DEFINE id    == <<r, d>>
           to    == Prior(rows[id])
           fresh == [rows[id] EXCEPT !.cutoff = RuleCutoffAt(id)]
           row   == [UnleasedWrite(fresh) EXCEPT !.status = to, !.reason = "none",
                                        !.from = "none", !.want = RuleOf(id).want]
<1>1. id \in RowIds /\ RuleCutoffAt(id) \in Int
  BY RuleCutoffAtType DEF LeaseInv
<1>2. PICK old \in Row : old = rows[id]
  BY <1>1, StoredRow DEF LeaseInv
<1>3. Write(id, row) /\ MayTransition(id, fresh, to, "materializer", "none", FALSE)
  BY DEF ReactivateRuleRow
<1>4. fresh \in Row /\ fresh.status = old.status
  BY <1>1, <1>2 DEF Row
<1>5. to \in {"pending", "skipped"}
  BY <1>2, PriorType
<1>6. old.status \in {"superseded", "withdrawn"}
  BY <1>3, <1>4, <1>5 DEF MayTransition, TransitionOwners
<1>7. PICK u \in Row : u = UnleasedWrite(fresh)
  BY <1>4, UnleasedForUser
<1>8. row.status = to
  BY <1>7 DEF Row
<1> HIDE DEF row, id, fresh
<1>9. UserLaw(old, row)
  BY <1>2, <1>6, <1>8, BackForUser
<1>10. QED
  BY <1>1, <1>2, <1>3, <1>9, WriteForUser DEF LeaseInv

\* A withdrawn row keeps its superseded_from; a skipped one is never withdrawn.
LEMMA WithdrawnForUser ==
  ASSUME NEW old \in Row, old.status \in {"pending", "superseded"}, NEW reason \in Reasons
  PROVE  LET new == [UnleasedWrite(old) EXCEPT !.status = "withdrawn", !.reason = reason] IN
         Said(old, new) /\ (reason = "system" => UserLaw(old, new))
<1>1. PICK u \in Row : u = UnleasedWrite(old) /\ u.from = old.from
  BY UnleasedForUser
<1>2. LET new == [u EXCEPT !.status = "withdrawn", !.reason = reason] IN
      Said(old, new) /\ (reason = "system" => UserLaw(old, new))
  BY <1>1 DEF Said, UserLaw, Remembers, Row
<1>3. QED
  BY <1>1, <1>2

LEMMA WithdrawForUser ==
  ASSUME LeaseInv, NEW r \in Rules, NEW d \in Dates, WithdrawRuleRow(r, d)
  PROVE  UserLawful
<1> DEFINE id == <<r, d>>
<1>1. id \in RowIds
  BY RuleCutoffAtType DEF LeaseInv
<1>2. PICK old \in Row : old = rows[id]
  BY <1>1, StoredRow DEF LeaseInv
<1> DEFINE row == [UnleasedWrite(old) EXCEPT !.status = "withdrawn", !.reason = "system"]
<1>3. Write(id, row) /\ old.status \in {"pending", "superseded"}
  BY <1>2 DEF WithdrawRuleRow, MayTransition, TransitionOwners
<1>4. UserLaw(old, row)
  BY <1>3, WithdrawnForUser DEF Reasons
<1>5. QED
  BY <1>1, <1>2, <1>3, <1>4, WriteForUser DEF LeaseInv

LEMMA FieldForUser ==
  ASSUME NEW row \in Row
  PROVE  /\ \A want \in Wants : UserLaw(row, [UnleasedWrite(row) EXCEPT !.want = want])
         /\ \A c \in Int : UserLaw(row, [UnleasedWrite(row) EXCEPT !.cutoff = c])
<1>1. PICK u \in Row : /\ u = UnleasedWrite(row) /\ u.status = row.status
                       /\ u.reason = row.reason /\ u.from = row.from
  BY UnleasedForUser
<1>2. /\ \A want \in Wants : UserLaw(row, [u EXCEPT !.want = want])
      /\ \A c \in Int : UserLaw(row, [u EXCEPT !.cutoff = c])
  BY <1>1 DEF Said, UserLaw, Remembers, Row
<1>3. QED
  BY <1>1, <1>2

LEMMA RewriteForUser ==
  ASSUME LeaseInv, NEW r \in Rules, NEW d \in Dates, RewritePendingRuleRow(r, d)
  PROVE  UserLawful
<1> DEFINE id  == <<r, d>>
           want == RuleOf(id).want
<1>1. id \in RowIds /\ want \in Wants
  BY RuleCutoffAtType DEF Rule, LeaseInv
<1>2. PICK old \in Row : old = rows[id]
  BY <1>1, StoredRow DEF LeaseInv
<1>3. Write(id, [UnleasedWrite(old) EXCEPT !.want = want])
  BY <1>2 DEF RewritePendingRuleRow
<1>4. QED
  BY <1>1, <1>2, <1>3, FieldForUser, WriteForUser DEF LeaseInv
-----------------------------------------------------------------------------
(* The web *)

LEMMA CutoffsForUser ==
  ASSUME LeaseInv, NEW at, \A id \in DOMAIN at : id \in RowIds => at[id] \in Int,
         RewriteCutoffs(at)
  PROVE  UserLawful
<1> SUFFICES ASSUME NEW id \in RowIds PROVE UserLaw(rows[id], rows'[id])
  BY DEF UserLawful
<1>1. PICK old \in Row : old = rows[id]
  BY StoredRow DEF LeaseInv
<1>2. CASE rows'[id] = old
  BY <1>1, <1>2, SameForUser
<1>3. CASE rows'[id] # old
  <2>1. id \in DOMAIN at /\ rows'[id] = [UnleasedWrite(old) EXCEPT !.cutoff = at[id]]
    BY <1>1, <1>3 DEF RewriteCutoffs
  <2>2. QED
    BY <1>1, <2>1, FieldForUser
<1>4. QED
  BY <1>2, <1>3

LEMMA SetCutoffForUser ==
  ASSUME LeaseInv, NEW c \in Cutoffs \cup {NoCutoff}, SetBookingCutoff(c)
  PROVE  UserLawful
<1> DEFINE S  == {x \in RowIds : OwnCutoffOf(x) = NoCutoff}
           at == [id \in S |-> CutoffAt(DateOf(id), Resolve(NoCutoff, c))]
<1>1. \A id \in S : CutoffAt(DateOf(id), Resolve(NoCutoff, c)) \in Int
  BY RowIdFacts, CutoffAtType
<1>2. RewriteCutoffs(at)
  BY DEF SetBookingCutoff
<1>3. \A id \in DOMAIN at : id \in RowIds => at[id] \in Int
  BY <1>1
<1> HIDE DEF at
<1>4. QED
  BY <1>2, <1>3, CutoffsForUser

LEMMA RuleCutoffForUser ==
  ASSUME LeaseInv, NEW r \in Rules, RewriteRuleCutoff(r)
  PROVE  UserLawful
<1> DEFINE S  == {x \in RowIds : OriginOf(x) = r}
           at == [id \in S |-> RuleCutoffAt(id)]
<1>1. ASSUME NEW id \in S PROVE RuleCutoffAt(id) \in Int
  <2>1. PICK d \in Dates : id = <<r, d>>
    BY DEF RowIds, Origins, OriginOf
  <2>2. QED
    BY <2>1, RuleCutoffAtType DEF LeaseInv
<1>2. RewriteCutoffs(at)
  BY DEF RewriteRuleCutoff
<1>3. \A id \in DOMAIN at : id \in RowIds => at[id] \in Int
  BY <1>1
<1> HIDE DEF at
<1>4. QED
  BY <1>2, <1>3, CutoffsForUser

\* The displaced row remembers whether it was skipped.
LEMMA CreateForUser ==
  ASSUME LeaseInv, NEW o \in OneOffs, NEW d \in Dates, NEW own \in Cutoffs \cup {NoCutoff},
         CreateExplicitRow(o, d, own)
  PROVE  UserLawful
<1> DEFINE id     == <<o, d>>
           cutoff == CutoffAt(d, Resolve(own, userCutoff))
           row    == [AbsentRow EXCEPT !.status = "pending", !.own = own, !.cutoff = cutoff]
           holder == slots[d]
           displaced == [UnleasedWrite(rows[holder]) EXCEPT
                           !.status = "superseded", !.from = rows[holder].status]
           w == [x \in {id, holder} |-> IF x = id THEN row ELSE displaced]
<1>1. id \in RowIds /\ rows[id].status = "absent" /\ row.status \notin {"cancelled", "withdrawn"}
  BY DEF CreateExplicitRow, RowIds, Origins, AbsentRow
<1>2. UserLaw(rows[id], row)
  <2> HIDE DEF id, row
  <2>1. QED
    BY <1>1, NewForUser
<1>3. CASE holder = NoRow
  <2>1. Write(id, row)
    BY <1>3 DEF CreateExplicitRow
  <2> HIDE DEF id, row
  <2>2. QED
    BY <1>1, <1>2, <2>1, WriteForUser DEF LeaseInv
<1>4. CASE holder # NoRow
  <2>1. /\ Commit(w)
        /\ MayTransition(holder, rows[holder], "superseded", "web", "none", FALSE)
    BY <1>4 DEF CreateExplicitRow
  <2>2. holder \in RowIds
    BY <1>4 DEF LeaseInv, TypeOK
  <2>3. PICK old \in Row : old = rows[holder]
    BY <2>2, StoredRow DEF LeaseInv
  <2>4. old.status \in {"pending", "skipped"}
    BY <2>1, <2>3 DEF MayTransition, TransitionOwners
  <2>5. UserLaw(rows[holder], displaced)
    <3>1. PICK u \in Row : u = UnleasedWrite(old)
      BY UnleasedForUser
    <3>2. UserLaw(old, [u EXCEPT !.status = "superseded", !.from = old.status])
      BY <2>4, <3>1 DEF Row, Said, UserLaw, Remembers
    <3>3. QED
      BY <2>3, <3>1, <3>2
  <2>6. \A x \in {id, holder} : UserLaw(rows[x], w[x])
    BY <1>2, <2>5
  <2>7. DOMAIN w = {id, holder} /\ {id, holder} \in SUBSET RowIds
    BY <1>1, <2>2
  <2> HIDE DEF w
  <2>8. QED
    BY <2>1, <2>6, <2>7, CommitForUser DEF LeaseInv
<1>5. QED
  BY <1>3, <1>4

LEMMA TransitionForUser ==
  ASSUME LeaseInv, NEW id \in RowIds, NEW to \in {"pending", "skipped"}, WebTransition(id, to)
  PROVE  OnlyRow(id) /\ rows'[id].status = to /\ rows[id].status # "cancelled"
<1>1. PICK u \in Row : u = UnleasedWrite(rows[id])
  BY StoredRow, UnleasedForUser DEF LeaseInv
<1> DEFINE row == [u EXCEPT !.status = to, !.reason = "none", !.from = "none"]
<1>2. Write(id, row) /\ row.status = to
  BY <1>1 DEF WebTransition, Row
<1>3. rows[id].status # "cancelled"
  BY DEF WebTransition, MayTransition, TransitionOwners
<1> HIDE DEF row
<1>4. QED
  BY <1>2, <1>3, WrittenRow DEF LeaseInv

LEMMA RestoredForUser ==
  ASSUME LeaseInv, NEW d \in Dates, NEW id \in Restorable(d)
  PROVE  UserLaw(rows[id], Restored(id))
<1>1. id \in RowIds /\ rows[id].status \in {"superseded", "withdrawn"}
  BY DEF Restorable
<1>2. PICK old \in Row : old = rows[id]
  BY <1>1, StoredRow DEF LeaseInv
<1>3. PICK u \in Row : u = UnleasedWrite(old)
  BY UnleasedForUser
<1>4. Restored(id).status = Prior(old)
  BY <1>2, <1>3 DEF Restored, Row
<1>5. QED
  BY <1>1, <1>2, <1>4, BackForUser

LEMMA WithdrawExplicitForUser ==
  ASSUME LeaseInv, NEW id \in RowIds, WithdrawExplicit(id)
  PROVE  WithdrawalOf(id)
<1> DEFINE back == Restorable(DateOf(id))
           gone == [UnleasedWrite(rows[id]) EXCEPT !.status = "withdrawn",
                                                   !.reason = "user_withdrawn"]
           w == [x \in back \cup {id} |-> IF x = id THEN gone ELSE Restored(x)]
<1>1. DateOf(id) \in Dates
  BY RowIdFacts
<1>2. PICK old \in Row : old = rows[id]
  BY StoredRow DEF LeaseInv
<1>3. Commit(w) /\ old.status \in {"pending", "superseded"} /\ ~IsRuleRow(id)
  BY <1>2 DEF WithdrawExplicit, MayTransition, TransitionOwners
<1>4. Said(rows[id], gone)
  BY <1>2, <1>3, WithdrawnForUser DEF Reasons
<1>5. \A x \in back : UserLaw(rows[x], Restored(x))
  BY <1>1, RestoredForUser
<1>6. Said(rows[id], w[id]) /\ \A x \in back \ {id} : UserLaw(rows[x], w[x])
  BY <1>4, <1>5
<1>7. DOMAIN w = back \cup {id} /\ back \cup {id} \in SUBSET RowIds
  BY DEF Restorable
<1> HIDE DEF w, back
<1>8. \A x \in RowIds : rows'[x] = IF x \in back \cup {id} THEN w[x] ELSE rows[x]
  BY <1>3, <1>7 DEF Commit
<1>9. \A x \in RowIds \ {id} : UserLaw(rows[x], rows'[x])
  BY <1>6, <1>8, SameForUser
<1>10. QED
  BY <1>3, <1>6, <1>8, <1>9 DEF WithdrawalOf
-----------------------------------------------------------------------------
(* Every action is one of five *)

SkipOf(id) ==
    /\ OnlyRow(id) /\ rows[id].status # "cancelled"
    /\ rows'[id].status = "skipped" /\ skipWish' = skipWish \cup {id}
UnskipOf(id) ==
    /\ OnlyRow(id) /\ rows[id].status # "cancelled"
    /\ rows'[id].status = "pending" /\ skipWish' = skipWish \ {id}

UserStepKinds ==
    \/ UserLawful /\ UNCHANGED skipWish
    \/ \E id \in RowIds : WithdrawalOf(id) /\ UNCHANGED skipWish
    \/ \E id \in RowIds : CancelOf(id) /\ UNCHANGED skipWish
    \/ \E id \in RowIds : SkipOf(id) \/ UnskipOf(id)

LEMMA BotForUser ==
  ASSUME LeaseInv, BotStep
  PROVE  UserStepKinds
<1>1. CASE \E owner \in Owners, id \in RowIds :
             ClaimRow(owner, id) \/ AcquireRowLease(owner, id) \/ ReleaseRowLease(owner, id)
  <2>1. PICK owner \in Owners, id \in RowIds : Lease(id, owner) \/ ReleaseRowLease(owner, id)
    BY <1>1 DEF ClaimRow, AcquireRowLease
  <2>2. UNCHANGED skipWish
    BY <1>1 DEF ClaimRow, AcquireRowLease, ReleaseRowLease
  <2>3. QED
    BY <2>1, <2>2, LeaseForUser DEF UserStepKinds
<1>2. CASE \E owner \in Owners, id \in RowIds :
             \E o \in Outcomes(ActorOf[owner]) : RecordOutcome(owner, id, o)
  <2>1. PICK owner \in Owners, id \in RowIds :
          \E o \in Outcomes(ActorOf[owner]) : RecordOutcome(owner, id, o)
    BY <1>2
  <2>2. PICK o \in Outcomes(ActorOf[owner]) : RecordOutcome(owner, id, o)
    BY <2>1
  <2>3. UNCHANGED skipWish
    BY <2>2 DEF RecordOutcome
  <2>4. QED
    BY <2>2, <2>3, RecordForUser DEF UserStepKinds
<1>3. CASE \E id \in RowIds : LeaseExpires(id)
  BY <1>3, ExpiryForUser DEF LeaseExpires, UserStepKinds
<1>4. CASE FinalizeLost
  BY <1>4, FinalizeForUser DEF FinalizeLost, UserStepKinds
<1>5. QED
  BY <1>1, <1>2, <1>3, <1>4 DEF BotStep

LEMMA MaterializerForUser ==
  ASSUME LeaseInv, MaterializerStep
  PROVE  UserStepKinds
<1>1. PICK r \in Rules, d \in Dates :
        \/ InsertRuleRow(r, d) \/ ReactivateRuleRow(r, d)
        \/ WithdrawRuleRow(r, d) \/ RewritePendingRuleRow(r, d)
  BY DEF MaterializerStep
<1>2. UNCHANGED skipWish
  BY <1>1 DEF InsertRuleRow, ReactivateRuleRow, WithdrawRuleRow, RewritePendingRuleRow
<1>3. UserLawful
  BY <1>1, InsertForUser, ReactivateForUser, WithdrawForUser, RewriteForUser
<1>4. QED
  BY <1>2, <1>3 DEF UserStepKinds

LEMMA WebForUser ==
  ASSUME LeaseInv, WebStep
  PROVE  UserStepKinds
<1>1. CASE \E id \in RowIds : SkipRow(id)
  BY <1>1, TransitionForUser DEF SkipRow, SkipOf, UserStepKinds
<1>2. CASE \E id \in RowIds : UnskipRow(id)
  BY <1>2, TransitionForUser DEF UnskipRow, UnskipOf, UserStepKinds
<1>3. CASE \E id \in RowIds : WithdrawExplicit(id)
  BY <1>3, WithdrawExplicitForUser DEF WithdrawExplicit, UserStepKinds
<1>4. CASE \E o \in OneOffs, d \in Dates, own \in Cutoffs \cup {NoCutoff} : CreateExplicitRow(o, d, own)
  BY <1>4, CreateForUser DEF CreateExplicitRow, UserStepKinds
<1>5. CASE \E c \in Cutoffs \cup {NoCutoff} : SetBookingCutoff(c)
  BY <1>5, SetCutoffForUser DEF SetBookingCutoff, UserStepKinds
<1>6. CASE \E r \in Rules : RewriteRuleCutoff(r)
  BY <1>6, RuleCutoffForUser DEF RewriteRuleCutoff, UserStepKinds
<1>7. CASE \E r \in Rules, new \in Rule : UpsertRule(r, new)
  BY <1>7, IdleForUser DEF UpsertRule, UserStepKinds
<1>8. QED
  BY <1>1, <1>2, <1>3, <1>4, <1>5, <1>6, <1>7 DEF WebStep, UserStep, RuleStep

LEMMA StepForUser ==
  ASSUME LeaseInv, [Next]_vars
  PROVE  UserStepKinds
<1>1. CASE Tick
  BY <1>1, IdleForUser DEF Tick, UserStepKinds
<1>2. CASE UNCHANGED vars
  BY <1>2, IdleForUser DEF vars, UserStepKinds
<1>3. QED
  BY <1>1, <1>2, BotForUser, MaterializerForUser, WebForUser DEF Next

\* Beside a cancel, a skip and an unskip, every row of a step keeps what was said.
LEMMA RowsSay ==
  ASSUME UserLawful \/ \E id \in RowIds : WithdrawalOf(id)
  PROVE  \A id \in RowIds : Said(rows[id], rows'[id])
BY DEF UserLawful, WithdrawalOf, UserLaw
-----------------------------------------------------------------------------
(* Skips *)

LEMMA SkipStep ==
  ASSUME LeaseInv, SkipHonoured, [Next]_vars
  PROVE  SkipHonoured'
<1>1. SUFFICES ASSUME NEW id \in RowIds, id \in skipWish' PROVE Remembers(rows'[id])
  <2>1. skipWish' \subseteq RowIds
    BY TypeStep DEF LeaseInv, TypeOK
  <2>2. QED
    BY <1>1, <2>1 DEF SkipHonoured, Remembers
<1>2. id \in skipWish => Remembers(rows[id])
  BY DEF SkipHonoured, Remembers
<1>3. CASE (UserLawful \/ \E x \in RowIds : WithdrawalOf(x)) /\ UNCHANGED skipWish
  BY <1>1, <1>2, <1>3, RowsSay DEF Said
<1>4. CASE \E x \in RowIds : CancelOf(x) /\ UNCHANGED skipWish
  BY <1>1, <1>2, <1>4 DEF CancelOf, OnlyRow, IsUserTerminal, Remembers
<1>5. CASE \E x \in RowIds : SkipOf(x)
  BY <1>1, <1>2, <1>5 DEF SkipOf, OnlyRow, Remembers
<1>6. CASE \E x \in RowIds : UnskipOf(x)
  BY <1>1, <1>2, <1>6 DEF UnskipOf, OnlyRow, Remembers
<1>7. QED
  BY <1>3, <1>4, <1>5, <1>6, StepForUser DEF UserStepKinds

\* A user's skip survives supersede, restore, withdraw and reactivate for any number
\* of rules, one-offs, dates and owners: until the user unskips it, the row is skipped
\* or remembers that it was (superseded_from, models.py 357-361).
THEOREM SkipsAreHonoured == Spec => []SkipHonoured
<1>1. Init => SkipHonoured
  BY DEF Init, SkipHonoured
<1>2. LeaseInv /\ SkipHonoured /\ [Next]_vars => SkipHonoured'
  BY SkipStep
<1>3. QED
  BY <1>1, <1>2, LeaseInvariant, PTL DEF Spec
-----------------------------------------------------------------------------
(* Closed dates *)

\* A rule row enters the active set only by a batch that checked the date's history.
LEMMA EnteringIsGuarded ==
  ASSUME LeaseInv, [Next]_vars, NEW id \in RowIds, IsRuleRow(id), ~Active(id),
         rows'[id].status \in ActiveStatuses
  PROVE  ~DateClosed(DateOf(id))
<1>1. rows'[id].status # rows[id].status
  BY DEF Active
<1>2. Next
  BY <1>1 DEF vars
<1>3. BatchStep
  BY <1>1, <1>2, NextStep DEF LeaseInv, RowStep, QuietStep
<1>4. PICK S \in SUBSET RowIds : \E w \in [S -> Row] : Commit(w)
  BY <1>3 DEF BatchStep
<1> PICK w \in [S -> Row] : Commit(w)
  BY <1>4
<1>5. id \in DOMAIN w /\ rows'[id] = w[id]
  BY <1>1 DEF Commit
<1>6. w[id].status # "booked"
  <2>1. RowLaw(rows[id], rows'[id])
    BY StepLaw DEF LawfulStep
  <2>2. QED
    BY <1>1, <1>5, <2>1 DEF RowLaw, Kept, LeaseGiven, MovedUnderLease, WrittenUnleased, LeasedEdges,
                            Active, ActiveStatuses
<1>7. BecomesBookable(rows[id], w[id])
  BY <1>5, <1>6 DEF BecomesBookable, Active, ActiveStatuses
<1>8. QED
  BY <1>5, <1>7 DEF Commit, CommitOK, MayBecomeActive

LEMMA ClosedStep ==
  ASSUME LeaseInv, UserCancelIsFinal, [Next]_vars
  PROVE  UserCancelIsFinal'
<1>1. SUFFICES ASSUME NEW id \in RowIds, IsRuleRow(id), rows'[id].status \in ActiveStatuses,
                      NEW x \in RowIds, DateOf(x) = DateOf(id), IsUserTerminal(rows'[x])
               PROVE  FALSE
  BY DEF UserCancelIsFinal, DateClosed, Active
<1>2. CASE IsUserTerminal(rows[x])
  <2>1. DateClosed(DateOf(id))
    BY <1>1, <1>2 DEF DateClosed
  <2>2. QED
    BY <1>1, <2>1, EnteringIsGuarded DEF UserCancelIsFinal
<1>3. CASE ~IsUserTerminal(rows[x])
  <2>1. rows'[x].status = "cancelled"
    BY <1>1 DEF IsUserTerminal
  <2>2. CancelOf(x)
    <3>1. CASE UserLawful \/ \E y \in RowIds : WithdrawalOf(y)
      BY <1>1, <1>3, <3>1, RowsSay DEF Said, IsUserTerminal
    <3>2. CASE \E y \in RowIds : CancelOf(y)
      BY <1>1, <1>3, <2>1, <3>2 DEF CancelOf, OnlyRow
    <3>3. CASE \E y \in RowIds : SkipOf(y) \/ UnskipOf(y)
      BY <1>1, <1>3, <2>1, <3>3 DEF SkipOf, UnskipOf, OnlyRow
    <3>4. QED
      BY <3>1, <3>2, <3>3, StepForUser DEF UserStepKinds
  <2>3. Active(x) /\ Active(id) /\ id # x
    BY <1>1, <2>1, <2>2 DEF CancelOf, OnlyRow, Active, ActiveStatuses
  <2>4. QED
    BY <1>1, <2>3 DEF LeaseInv, OneActiveRowPerDate, SlotAgreement
<1>4. QED
  BY <1>2, <1>3

\* A date whose booking was cancelled, by the user or at the course, never carries an
\* active rule row again, for any number of rules and owners and whatever order the
\* tick, the edits, the bots and the web come in (models.is_user_terminal).
THEOREM CancelsAreFinal == Spec => []UserCancelIsFinal
<1>1. Init => UserCancelIsFinal
  BY DEF Init, UserCancelIsFinal, Active, ActiveStatuses, AbsentRow
<1>2. LeaseInv /\ UserCancelIsFinal /\ [Next]_vars => UserCancelIsFinal'
  BY ClosedStep
<1>3. QED
  BY <1>1, <1>2, LeaseInvariant, PTL DEF Spec
-----------------------------------------------------------------------------
(* Withdrawn rule rows *)

\* Only the system withdraws a rule row, so every withdrawn one may come back.
WithdrawnBySystem ==
    \A id \in RowIds : IsRuleRow(id) /\ rows[id].status = "withdrawn" => rows[id].reason = "system"

LEMMA WithdrawnStep ==
  ASSUME LeaseInv, WithdrawnBySystem, [Next]_vars
  PROVE  WithdrawnBySystem'
<1>1. SUFFICES ASSUME NEW id \in RowIds, IsRuleRow(id), rows'[id].status = "withdrawn"
               PROVE  rows'[id].reason = "system"
  BY DEF WithdrawnBySystem
<1>2. CASE UserLaw(rows[id], rows'[id])
  BY <1>1, <1>2 DEF UserLaw, WithdrawnBySystem
<1>3. CASE rows'[id] = rows[id]
  BY <1>1, <1>3 DEF WithdrawnBySystem
<1>4. CASE UserLawful \/ \E x \in RowIds : WithdrawalOf(x)
  BY <1>1, <1>2, <1>4 DEF UserLawful, WithdrawalOf
<1>5. CASE \E x \in RowIds : CancelOf(x) \/ SkipOf(x) \/ UnskipOf(x)
  BY <1>1, <1>3, <1>5 DEF CancelOf, SkipOf, UnskipOf, OnlyRow, IsUserTerminal
<1>6. QED
  BY <1>4, <1>5, StepForUser DEF UserStepKinds

\* A rule row is only ever withdrawn by the system, never for good: a deactivated,
\* moved or lapsed rule's rows may all be reactivated (SYSTEM_WITHDRAW_REASONS).
THEOREM RuleRowsWithdrawnBySystem == Spec => []WithdrawnBySystem
<1>1. Init => WithdrawnBySystem
  BY DEF Init, WithdrawnBySystem, AbsentRow
<1>2. LeaseInv /\ WithdrawnBySystem /\ [Next]_vars => WithdrawnBySystem'
  BY WithdrawnStep
<1>3. QED
  BY <1>1, <1>2, LeaseInvariant, PTL DEF Spec

-----------------------------------------------------------------------------
(***************************************************************************)
(* The store implements DateOwnership, for every value of the constants.   *)
(* By OneActiveRowPerDate the slot pointers follow from the rows, so a step *)
(* is known by which rows it makes active and inactive: it touches one row, *)
(* or takes rows out of the active set (the finalizer), or puts a one-off  *)
(* in the place of a rule row, or a rule row in the place of a one-off.    *)
(***************************************************************************)

\* No row becomes active.
NoneEnters == \A x \in RowIds : rows'[x].status \in ActiveStatuses => Active(x)

Displaces(id, y) ==
    /\ ~IsRuleRow(id) /\ IsRuleRow(y) /\ DateOf(y) = DateOf(id)
    /\ Active(y) /\ rows'[id].status \in ActiveStatuses
    /\ \A x \in RowIds \ {id, y} : rows'[x] = rows[x]

\* Other rows change only by coming back.
HandsBack(id) ==
    /\ ~IsRuleRow(id) /\ rows'[id].status \notin ActiveStatuses
    /\ \A x \in RowIds \ {id} :
          \/ rows'[x] = rows[x]
          \/ IsRuleRow(x) /\ DateOf(x) = DateOf(id) /\ ~Active(x)

RowShape ==
    \/ NoneEnters
    \/ \E id \in RowIds : OnlyRow(id) \/ HandsBack(id)
    \/ \E id, y \in RowIds : Displaces(id, y)
-----------------------------------------------------------------------------
(* The shape of every action *)

LEMMA WriteShape ==
  ASSUME LeaseInv, NEW id \in RowIds, NEW row, Write(id, row)
  PROVE  RowShape
BY WrittenRow DEF RowShape, LeaseInv

LEMMA IdleShape ==
  ASSUME UNCHANGED rows
  PROVE  RowShape
BY DEF RowShape, NoneEnters, Active

LEMMA ChangedRowShape ==
  ASSUME LeaseInv, NEW id \in RowIds, NEW row, rows' = [rows EXCEPT ![id] = row]
  PROVE  RowShape
<1>1. OnlyRow(id)
  BY DEF OnlyRow, LeaseInv, TypeOK
<1>2. QED
  BY <1>1 DEF RowShape

LEMMA CutoffsShape ==
  ASSUME LeaseInv, NEW at, RewriteCutoffs(at)
  PROVE  RowShape
<1>1. ASSUME NEW x \in RowIds PROVE rows'[x].status = rows[x].status
  <2>1. PICK old \in Row : old = rows[x]
    BY StoredRow DEF LeaseInv
  <2>2. PICK u \in Row : u = UnleasedWrite(old) /\ u.status = old.status
    BY UnleasedForUser
  <2>3. [u EXCEPT !.cutoff = at[x]].status = old.status
    BY <2>2 DEF Row
  <2>4. QED
    BY <2>1, <2>2, <2>3 DEF RewriteCutoffs
<1>2. QED
  BY <1>1 DEF RowShape, NoneEnters, Active

LEMMA FlagShape ==
  ASSUME LeaseInv, NEW d \in Dates, FlagActiveRow(d)
  PROVE  RowShape
<1>1. CASE slots[d] = NoRow
  BY <1>1, IdleShape DEF FlagActiveRow
<1>2. CASE slots[d] # NoRow
  <2>1. slots[d] \in RowIds
    BY <1>2 DEF LeaseInv, TypeOK
  <2>2. rows' = [rows EXCEPT ![slots[d]] = [rows[slots[d]] EXCEPT !.reconcile = TRUE]]
    BY <1>2 DEF FlagActiveRow
  <2>3. QED
    BY <2>1, <2>2, ChangedRowShape
<1>3. QED
  BY <1>1, <1>2

LEMMA FinalizeShape ==
  ASSUME LeaseInv, FinalizeLost
  PROVE  RowShape
<1>1. ASSUME NEW x \in RowIds, rows'[x].status \in ActiveStatuses PROVE Active(x)
  <2>1. rows'[x] = IF x \in FrozenPending THEN Finalized(x) ELSE rows[x]
    BY DEF FinalizeLost, Commit
  <2>2. ASSUME x \in FrozenPending PROVE Active(x)
    BY <2>2 DEF FrozenPending, Active, ActiveStatuses
  <2>3. QED
    BY <1>1, <2>1, <2>2 DEF Active
<1>2. QED
  BY <1>1 DEF RowShape, NoneEnters

LEMMA CreateShape ==
  ASSUME LeaseInv, NEW o \in OneOffs, NEW d \in Dates, NEW own \in Cutoffs \cup {NoCutoff},
         CreateExplicitRow(o, d, own)
  PROVE  RowShape
<1> DEFINE id     == <<o, d>>
           row    == [AbsentRow EXCEPT !.status = "pending", !.own = own,
                                       !.cutoff = CutoffAt(d, Resolve(own, userCutoff))]
           holder == slots[d]
           displaced == [UnleasedWrite(rows[holder]) EXCEPT
                           !.status = "superseded", !.from = rows[holder].status]
           w == [x \in {id, holder} |-> IF x = id THEN row ELSE displaced]
<1>1. id \in RowIds /\ DateOf(id) = d /\ ~IsRuleRow(id) /\ row.status = "pending"
  BY RulesAssumption DEF RowIds, Origins, DateOf, IsRuleRow, OriginOf, AbsentRow
<1>2. CASE holder = NoRow
  <2>1. Write(id, row)
    BY <1>2 DEF CreateExplicitRow
  <2> HIDE DEF id, row
  <2>2. QED
    BY <1>1, <2>1, WriteShape
<1>3. CASE holder # NoRow
  <2>1. Commit(w) /\ IsRuleRow(holder)
    BY <1>3 DEF CreateExplicitRow
  <2>2. holder \in RowIds /\ DateOf(holder) = d
    BY <1>3 DEF LeaseInv, TypeOK, OneActiveRowPerDate, SlotsInPlace
  <2>3. Active(holder)
    BY <2>2 DEF LeaseInv, OneActiveRowPerDate, SlotAgreement
  <2>4. \A x \in RowIds : rows'[x] = IF x \in {id, holder} THEN w[x] ELSE rows[x]
    BY <2>1 DEF Commit
  <2>5. w[id] = row
    OBVIOUS
  <2> HIDE DEF id, row, holder, w
  <2>6. Displaces(id, holder)
    BY <1>1, <2>1, <2>2, <2>3, <2>4, <2>5 DEF Displaces, ActiveStatuses
  <2>7. QED
    BY <1>1, <2>2, <2>6 DEF RowShape
<1>4. QED
  BY <1>2, <1>3

LEMMA WithdrawExplicitShape ==
  ASSUME LeaseInv, NEW id \in RowIds, WithdrawExplicit(id)
  PROVE  RowShape
<1> DEFINE back == Restorable(DateOf(id))
           gone == [UnleasedWrite(rows[id]) EXCEPT !.status = "withdrawn",
                                                   !.reason = "user_withdrawn"]
           w == [x \in back \cup {id} |-> IF x = id THEN gone ELSE Restored(x)]
<1>1. PICK u \in Row : u = UnleasedWrite(rows[id])
  BY StoredRow, UnleasedForUser DEF LeaseInv
<1>2. gone.status = "withdrawn"
  BY <1>1 DEF Row
<1>3. Commit(w) /\ ~IsRuleRow(id)
  BY DEF WithdrawExplicit
<1>4. \A x \in back : IsRuleRow(x) /\ DateOf(x) = DateOf(id) /\ ~Active(x)
  BY DEF Restorable, Active, ActiveStatuses
<1>5. \A x \in RowIds : rows'[x] = IF x \in back \cup {id} THEN w[x] ELSE rows[x]
  BY <1>3 DEF Commit
<1>6. w[id] = gone
  OBVIOUS
<1> HIDE DEF back, gone, w
<1>7. HandsBack(id)
  BY <1>2, <1>3, <1>4, <1>5, <1>6 DEF HandsBack, ActiveStatuses
<1>8. QED
  BY <1>7 DEF RowShape

LEMMA BotShape ==
  ASSUME LeaseInv, BotStep
  PROVE  RowShape
<1>1. CASE \E owner \in Owners, id \in RowIds :
             ClaimRow(owner, id) \/ AcquireRowLease(owner, id) \/ ReleaseRowLease(owner, id)
  BY <1>1, WriteShape, IdleShape DEF ClaimRow, AcquireRowLease, ReleaseRowLease, Lease
<1>2. CASE \E owner \in Owners, id \in RowIds :
             \E o \in Outcomes(ActorOf[owner]) : RecordOutcome(owner, id, o)
  BY <1>2, WriteShape, FlagShape, RowIdFacts DEF RecordOutcome, Applied, Refused
<1>3. CASE \E id \in RowIds : LeaseExpires(id)
  <2>1. PICK id \in RowIds : rows' = [rows EXCEPT ![id] = [rows[id] EXCEPT !.live = FALSE]]
    BY <1>3 DEF LeaseExpires
  <2>2. QED
    BY <2>1, ChangedRowShape
<1>4. CASE FinalizeLost
  BY <1>4, FinalizeShape
<1>5. QED
  BY <1>1, <1>2, <1>3, <1>4 DEF BotStep

LEMMA StepShape ==
  ASSUME LeaseInv, [Next]_vars
  PROVE  RowShape
<1>1. CASE MaterializerStep
  <2>1. PICK r \in Rules, d \in Dates :
          \/ InsertRuleRow(r, d) \/ ReactivateRuleRow(r, d)
          \/ WithdrawRuleRow(r, d) \/ RewritePendingRuleRow(r, d)
    BY <1>1 DEF MaterializerStep
  <2>2. <<r, d>> \in RowIds
    BY RuleCutoffAtType DEF LeaseInv
  <2>3. QED
    BY <2>1, <2>2, WriteShape
       DEF InsertRuleRow, ReactivateRuleRow, WithdrawRuleRow, RewritePendingRuleRow
<1>2. CASE BotStep
  BY <1>2, BotShape
<1>3. CASE \E id \in RowIds : SkipRow(id) \/ UnskipRow(id)
  BY <1>3, WriteShape DEF SkipRow, UnskipRow, WebTransition
<1>4. CASE \E id \in RowIds : WithdrawExplicit(id)
  BY <1>4, WithdrawExplicitShape
<1>5. CASE \E o \in OneOffs, d \in Dates, own \in Cutoffs \cup {NoCutoff} : CreateExplicitRow(o, d, own)
  BY <1>5, CreateShape
<1>6. CASE \E c \in Cutoffs \cup {NoCutoff} : SetBookingCutoff(c)
  BY <1>6, CutoffsShape DEF SetBookingCutoff
<1>7. CASE \E r \in Rules : RewriteRuleCutoff(r)
  BY <1>7, CutoffsShape DEF RewriteRuleCutoff
<1>8. CASE (\E r \in Rules, new \in Rule : UpsertRule(r, new)) \/ Tick \/ UNCHANGED vars
  BY <1>8, IdleShape DEF UpsertRule, Tick, vars
<1>9. QED
  BY <1>1, <1>2, <1>3, <1>4, <1>5, <1>6, <1>7, <1>8 DEF Next, WebStep, UserStep, RuleStep
-----------------------------------------------------------------------------
(* Slots from rows *)

\* The slot of a date names its one active row, or no row.
LEMMA HolderOfDate ==
  ASSUME LeaseInv, NEW d \in Dates
  PROVE  /\ slots[d] # NoRow => slots[d] \in RowIds /\ DateOf(slots[d]) = d /\ Active(slots[d])
         /\ \A x \in RowIds : Active(x) /\ DateOf(x) = d => slots[d] = x
         /\ NoRow \notin RowIds
<1>1. slots[d] # NoRow => slots[d] \in RowIds /\ DateOf(slots[d]) = d
  BY DEF LeaseInv, TypeOK, OneActiveRowPerDate, SlotsInPlace
<1>2. \A x \in RowIds : Active(x) /\ DateOf(x) = d => slots[d] = x
  BY DEF LeaseInv, OneActiveRowPerDate, SlotAgreement
<1>3. slots[d] \in RowIds /\ DateOf(slots[d]) = d => Active(slots[d])
  BY DEF LeaseInv, OneActiveRowPerDate, SlotAgreement
<1>4. NoRow \notin RowIds
  BY RulesAssumption DEF RowIds, Origins
<1>5. QED
  BY <1>1, <1>2, <1>3, <1>4

LEMMA HolderOfDateAfter ==
  ASSUME LeaseInv', NEW d \in Dates
  PROVE  /\ slots'[d] # NoRow =>
              /\ slots'[d] \in RowIds /\ DateOf(slots'[d]) = d
              /\ rows'[slots'[d]].status \in ActiveStatuses
         /\ \A x \in RowIds :
              rows'[x].status \in ActiveStatuses /\ DateOf(x) = d => slots'[d] = x
<1>1. slots'[d] # NoRow => slots'[d] \in RowIds /\ DateOf(slots'[d]) = d
  BY DEF LeaseInv, TypeOK, OneActiveRowPerDate, SlotsInPlace
<1>2. \A x \in RowIds :
        rows'[x].status \in ActiveStatuses <=> slots'[DateOf(x)] = x
  BY DEF LeaseInv, OneActiveRowPerDate, SlotAgreement, Active
<1>3. QED
  BY <1>1, <1>2

LEMMA SlotsDomain ==
  ASSUME LeaseInv, LeaseInv'
  PROVE  /\ slots = [d \in Dates |-> slots[d]]
         /\ slots' = [d \in Dates |-> slots'[d]]
<1>1. slots \in [Dates -> RowIds \cup {NoRow}]
  BY DEF LeaseInv, TypeOK
<1>2. slots' \in [Dates -> RowIds \cup {NoRow}]
  BY DEF LeaseInv, TypeOK
<1>3. QED
  BY <1>1, <1>2

LEMMA OneSlot ==
  ASSUME LeaseInv, LeaseInv', NEW d \in Dates, NEW c, slots'[d] = c,
         \A e \in Dates \ {d} : slots'[e] = slots[e]
  PROVE  slots' = [slots EXCEPT ![d] = c]
BY SlotsDomain

\* A date whose active rows are the same has the same slot.
LEMMA SlotKept ==
  ASSUME LeaseInv, LeaseInv', NEW d \in Dates,
         \A x \in RowIds : DateOf(x) = d =>
            (rows'[x].status \in ActiveStatuses <=> Active(x))
  PROVE  slots'[d] = slots[d]
<1>1. CASE slots[d] = NoRow
  BY <1>1, HolderOfDate, HolderOfDateAfter
<1>2. CASE slots[d] # NoRow
  BY <1>2, HolderOfDate, HolderOfDateAfter
<1>3. QED
  BY <1>1, <1>2
-----------------------------------------------------------------------------
(* Each shape is one step of DateOwnership *)

LEMMA ClaimKinds ==
  ASSUME NEW id \in RowIds
  PROVE  /\ DateOf(id) \in Dates
         /\ IsRuleRow(id) <=> id \in Rules \X Dates
         /\ ~IsRuleRow(id) <=> id \in OneOffs \X Dates
         /\ id \in (Rules \X Dates) \cup (OneOffs \X Dates)
BY RulesAssumption DEF RowIds, Origins, IsRuleRow, OriginOf, DateOf

LEMMA ReleaseRefines ==
  ASSUME LeaseInv, LeaseInv', NoneEnters, ClosedDates' = ClosedDates
  PROVE  Ownership!OwnershipNext
<1> DEFINE S == {d \in Dates : slots[d] # NoRow /\ slots'[d] = NoRow}
<1>1. ASSUME NEW d \in Dates, d \notin S PROVE slots'[d] = slots[d]
  <2>1. CASE slots'[d] = NoRow
    BY <1>1, <2>1
  <2>2. CASE slots'[d] # NoRow
    BY <2>2, HolderOfDate, HolderOfDateAfter DEF NoneEnters
  <2>3. QED
    BY <2>1, <2>2
<1>2. slots' = [d \in Dates |-> IF d \in S THEN NoRow ELSE slots[d]]
  <2>1. \A d \in Dates : slots'[d] = IF d \in S THEN NoRow ELSE slots[d]
    BY <1>1
  <2> HIDE DEF S
  <2>2. QED
    BY <2>1, SlotsDomain
<1>3. S \in SUBSET Dates /\ \A d \in S : slots[d] # NoRow
  OBVIOUS
<1> HIDE DEF S
<1>4. Ownership!Release(S)
  BY <1>2, <1>3 DEF Ownership!Release
<1>5. QED
  BY <1>3, <1>4 DEF Ownership!OwnershipNext

\* A row enters a date that nobody holds before the step.
LEMMA TakeRefines ==
  ASSUME LeaseInv, LeaseInv', [Next]_vars, NEW id \in RowIds, ClosedDates' = ClosedDates,
         ~Active(id), rows'[id].status \in ActiveStatuses,
         slots[DateOf(id)] = NoRow,
         \A x \in RowIds : DateOf(x) # DateOf(id) => rows'[x] = rows[x]
  PROVE  Ownership!OwnershipNext
<1>1. slots'[DateOf(id)] = id
  BY ClaimKinds, HolderOfDateAfter
<1>2. \A e \in Dates \ {DateOf(id)} : slots'[e] = slots[e]
  BY SlotKept DEF Active
<1>3. slots' = [slots EXCEPT ![DateOf(id)] = id]
  BY <1>1, <1>2, OneSlot, ClaimKinds
<1>4. id \in Rules \X Dates => DateOf(id) \notin ClosedDates
  BY EnteringIsGuarded, ClaimKinds DEF ClosedDates
<1>5. Ownership!Take(DateOf(id), id)
  BY <1>3, <1>4 DEF Ownership!Take
<1>6. QED
  BY <1>5, ClaimKinds DEF Ownership!OwnershipNext, Ownership!Claims

LEMMA OnlyRowRefines ==
  ASSUME LeaseInv, LeaseInv', [Next]_vars, NEW id \in RowIds, OnlyRow(id),
         ClosedDates' = ClosedDates
  PROVE  Ownership!OwnershipNext
<1>1. CASE NoneEnters
  BY <1>1, ReleaseRefines
<1>2. CASE ~NoneEnters
  <2>1. ~Active(id) /\ rows'[id].status \in ActiveStatuses
    BY <1>2 DEF NoneEnters, OnlyRow, Active
  <2>2. slots[DateOf(id)] = NoRow
    <3>1. SUFFICES ASSUME slots[DateOf(id)] # NoRow PROVE FALSE
      OBVIOUS
    <3> DEFINE y == slots[DateOf(id)]
    <3>2. y \in RowIds /\ DateOf(y) = DateOf(id) /\ Active(y)
      BY <3>1, HolderOfDate, ClaimKinds
    <3>3. y # id /\ rows'[y].status \in ActiveStatuses
      BY <2>1, <3>2 DEF OnlyRow, Active
    <3>4. slots'[DateOf(id)] = y /\ slots'[DateOf(id)] = id
      BY <2>1, <3>2, <3>3, HolderOfDateAfter, ClaimKinds
    <3>5. QED
      BY <3>3, <3>4
  <2>3. \A x \in RowIds : DateOf(x) # DateOf(id) => rows'[x] = rows[x]
    BY DEF OnlyRow
  <2>4. QED
    BY <2>1, <2>2, <2>3, TakeRefines
<1>3. QED
  BY <1>1, <1>2

LEMMA DisplacesRefines ==
  ASSUME LeaseInv, LeaseInv', NEW id \in RowIds, NEW y \in RowIds, Displaces(id, y),
         ClosedDates' = ClosedDates
  PROVE  Ownership!OwnershipNext
<1>1. slots[DateOf(id)] = y
  BY HolderOfDate, ClaimKinds DEF Displaces
<1>2. slots'[DateOf(id)] = id
  BY HolderOfDateAfter, ClaimKinds DEF Displaces
<1>3. \A e \in Dates \ {DateOf(id)} : slots'[e] = slots[e]
  BY SlotKept DEF Displaces, Active
<1>4. slots' = [slots EXCEPT ![DateOf(id)] = id]
  BY <1>2, <1>3, OneSlot, ClaimKinds
<1>5. y \in Rules \X Dates /\ id \in OneOffs \X Dates
  BY ClaimKinds DEF Displaces
<1>6. Ownership!Displace(DateOf(id), id)
  BY <1>1, <1>4, <1>5 DEF Ownership!Displace
<1>7. QED
  BY <1>5, <1>6, ClaimKinds DEF Ownership!OwnershipNext, Ownership!Claims

LEMMA HandsBackRefines ==
  ASSUME LeaseInv, LeaseInv', [Next]_vars, NEW id \in RowIds, HandsBack(id),
         ClosedDates' = ClosedDates
  PROVE  Ownership!OwnershipNext
<1>1. CASE NoneEnters
  BY <1>1, ReleaseRefines
<1>2. CASE ~NoneEnters
  <2>1. PICK x \in RowIds : rows'[x].status \in ActiveStatuses /\ ~Active(x)
    BY <1>2 DEF NoneEnters
  <2>2. x # id /\ IsRuleRow(x) /\ DateOf(x) = DateOf(id)
    BY <2>1 DEF HandsBack, Active
  <2>3. \A z \in RowIds : DateOf(z) # DateOf(id) => rows'[z] = rows[z]
    BY DEF HandsBack
  <2>4. CASE Active(id)
    <3>1. slots[DateOf(id)] = id /\ slots'[DateOf(id)] = x
      BY <2>1, <2>2, <2>4, HolderOfDate, HolderOfDateAfter, ClaimKinds
    <3>2. \A e \in Dates \ {DateOf(id)} : slots'[e] = slots[e]
      BY <2>3, SlotKept DEF Active
    <3>3. slots' = [slots EXCEPT ![DateOf(id)] = x]
      BY <3>1, <3>2, OneSlot, ClaimKinds
    <3>4. x \in Rules \X Dates /\ id \in OneOffs \X Dates
      BY <2>2, ClaimKinds DEF HandsBack
    <3>5. DateOf(id) \notin ClosedDates
      BY <2>1, <2>2, EnteringIsGuarded DEF ClosedDates
    <3>6. Ownership!GiveBack(DateOf(id), x)
      BY <3>1, <3>3, <3>4, <3>5 DEF Ownership!GiveBack
    <3>7. QED
      BY <3>4, <3>6, ClaimKinds DEF Ownership!OwnershipNext, Ownership!Claims
  <2>5. CASE ~Active(id)
    <3>1. slots[DateOf(x)] = NoRow
      <4>1. SUFFICES ASSUME slots[DateOf(x)] # NoRow PROVE FALSE
        OBVIOUS
      <4> DEFINE y == slots[DateOf(x)]
      <4>2. y \in RowIds /\ DateOf(y) = DateOf(x) /\ Active(y)
        BY <4>1, HolderOfDate, ClaimKinds
      <4>3. y # id /\ y # x /\ rows'[y].status \in ActiveStatuses
        BY <2>1, <2>5, <4>2 DEF HandsBack, Active
      <4>4. slots'[DateOf(x)] = y /\ slots'[DateOf(x)] = x
        BY <2>1, <4>2, <4>3, HolderOfDateAfter, ClaimKinds
      <4>5. QED
        BY <4>3, <4>4
    <3>2. QED
      BY <2>1, <2>2, <2>3, <3>1, TakeRefines
  <2>6. QED
    BY <2>4, <2>5
<1>3. QED
  BY <1>1, <1>2

LEMMA CancelRefines ==
  ASSUME LeaseInv, LeaseInv', NEW id \in RowIds, CancelOf(id)
  PROVE  Ownership!OwnershipNext
<1>1. Active(id) /\ rows'[id].status \notin ActiveStatuses
  BY DEF CancelOf, IsUserTerminal, Active, ActiveStatuses
<1>2. slots[DateOf(id)] = id
  BY <1>1, HolderOfDate, ClaimKinds
<1>3. slots'[DateOf(id)] = NoRow
  <2>1. SUFFICES ASSUME slots'[DateOf(id)] # NoRow PROVE FALSE
    OBVIOUS
  <2> DEFINE y == slots'[DateOf(id)]
  <2>2. y \in RowIds /\ DateOf(y) = DateOf(id) /\ rows'[y].status \in ActiveStatuses
    BY <2>1, HolderOfDateAfter, ClaimKinds
  <2>3. y # id /\ Active(y)
    BY <1>1, <2>2 DEF CancelOf, OnlyRow, Active
  <2>4. QED
    BY <1>2, <2>2, <2>3, HolderOfDate, ClaimKinds
<1>4. \A e \in Dates \ {DateOf(id)} : slots'[e] = slots[e]
  BY SlotKept DEF CancelOf, OnlyRow, Active
<1>5. slots' = [slots EXCEPT ![DateOf(id)] = NoRow]
  BY <1>3, <1>4, OneSlot, ClaimKinds
<1>6. ClosedDates' = ClosedDates \cup {DateOf(id)}
  <2>1. \A x \in RowIds : IsUserTerminal(rows'[x]) <=> IsUserTerminal(rows[x]) \/ x = id
    BY DEF CancelOf, OnlyRow
  <2>2. DateOf(id) \in Dates
    BY ClaimKinds
  <2>3. QED
    BY <2>1, <2>2 DEF ClosedDates, DateClosed
<1>7. slots[DateOf(id)] # NoRow
  BY <1>2, HolderOfDate, ClaimKinds
<1>8. Ownership!Cancel(DateOf(id))
  BY <1>5, <1>6, <1>7 DEF Ownership!Cancel
<1>9. QED
  BY <1>8, ClaimKinds DEF Ownership!OwnershipNext
-----------------------------------------------------------------------------
(* The refinement *)

\* No other step closes or opens a date.
LEMMA ClosedKept ==
  ASSUME LeaseInv, [Next]_vars
  PROVE  ClosedDates' = ClosedDates \/ \E id \in RowIds : CancelOf(id)
<1>1. ASSUME \A x \in RowIds : IsUserTerminal(rows'[x]) <=> IsUserTerminal(rows[x])
      PROVE  ClosedDates' = ClosedDates
  BY <1>1 DEF ClosedDates, DateClosed
<1>2. CASE UserLawful \/ \E id \in RowIds : WithdrawalOf(id)
  BY <1>1, <1>2, RowsSay DEF Said, IsUserTerminal
<1>3. CASE \E id \in RowIds : SkipOf(id) \/ UnskipOf(id)
  BY <1>1, <1>3 DEF SkipOf, UnskipOf, OnlyRow, IsUserTerminal
<1>4. QED
  BY <1>2, <1>3, StepForUser DEF UserStepKinds

LEMMA StepRefines ==
  ASSUME LeaseInv, LeaseInv', [Next]_vars
  PROVE  Ownership!OwnershipNext
<1>1. CASE \E id \in RowIds : CancelOf(id)
  BY <1>1, CancelRefines
<1>2. CASE ClosedDates' = ClosedDates
  <2>1. CASE NoneEnters
    BY <1>2, <2>1, ReleaseRefines
  <2>2. CASE \E id \in RowIds : OnlyRow(id)
    BY <1>2, <2>2, OnlyRowRefines
  <2>3. CASE \E id \in RowIds : HandsBack(id)
    BY <1>2, <2>3, HandsBackRefines
  <2>4. CASE \E id, y \in RowIds : Displaces(id, y)
    BY <1>2, <2>4, DisplacesRefines
  <2>5. QED
    BY <2>1, <2>2, <2>3, <2>4, StepShape DEF RowShape
<1>3. QED
  BY <1>1, <1>2, ClosedKept

\* The store implements DateOwnership for any number of rules, one-offs, dates and
\* owners: every batch of row writes is one take, displacement, hand-back, release or
\* cancel of the dates it touches (in_memory_store._commit, models.py 98-102).
THEOREM RowsImplementOwnership == Spec => ImplementsDateOwnership
<1>1. Init => Ownership!OwnershipInit
  BY DEF Init, Ownership!OwnershipInit, ClosedDates, DateClosed, IsUserTerminal, AbsentRow
<1>2. LeaseInv /\ LeaseInv' /\ [Next]_vars => [Ownership!OwnershipNext]_<<slots, ClosedDates>>
  BY StepRefines
<1>3. QED
  BY <1>1, <1>2, LeaseInvariant, PTL
     DEF Spec, ImplementsDateOwnership, Ownership!OwnershipSpec, Ownership!ownershipVars
=============================================================================
