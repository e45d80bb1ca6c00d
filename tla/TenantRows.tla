------------------------------ MODULE TenantRows ------------------------------
(***************************************************************************)
(* The tenant store's row state machine for ONE course account             *)
(* (src/teetime/tenant: in_memory_store.py, semantics.py, models.py).      *)
(*                                                                         *)
(* A row is one dated booking intent.  Its identity is <<origin, date>>,   *)
(* where the origin is a standing rule (a rule row's id is derived from    *)
(* the rule and the date) or a one-off request.  At most one ACTIVE row    *)
(* may exist per date; the slot pointer of the date names it.  Five kinds  *)
(* of process share the rows through the store: the booking runner, the    *)
(* watcher and the web's managed cancel work under a row LEASE, while the  *)
(* web and the materializer write unleased rows.  Each action below is     *)
(* one atomic call of the store; the callers choose when to make it.       *)
(***************************************************************************)
EXTENDS Integers

CONSTANTS
    Rules,          \* standing rules of the account
    OneOffs,        \* one-off requests the user may ever make
    Dates,          \* day numbers that carry rows
    DaysPerWeek,    \* length of the week (7 in the code)
    TicksPerDay,    \* clock ticks in a day
    MaxNow,         \* bound on the clock
    Cutoffs,        \* cutoff settings: ticks before the start of the date
    SiteCutoff,     \* the site default
    Wants,          \* window / party / price of a rule, as one value
    Owners,         \* lease owners: one per process execution
    ActorOf,        \* which kind of process an owner is
    Raws,           \* reservation ids of the course
    NoRow, NoRule, NoOwner, NoRaw, NoCutoff

Actors   == {"web", "materializer", "runner", "watcher"}
Weekdays == 0..(DaysPerWeek - 1)
Origins  == Rules \cup OneOffs
RowIds   == Origins \X Dates

ASSUME RulesAssumption ==
    /\ Rules \cap OneOffs = {}
    /\ NoRule \notin Rules
    /\ NoRow \notin (Rules \cup OneOffs) \X Dates
ASSUME TimeAssumption ==
    /\ DaysPerWeek \in Nat \ {0}
    /\ TicksPerDay \in Nat \ {0}
    /\ MaxNow \in Nat
    /\ Dates \subseteq Nat
\* days_before >= 0, so a cutoff never falls after its own date.
ASSUME CutoffAssumption ==
    /\ Cutoffs \cup {SiteCutoff} \subseteq {c \in Int : c > -TicksPerDay}
    /\ NoCutoff \notin Cutoffs
ASSUME OwnerAssumption ==
    /\ NoOwner \notin Owners
    /\ ActorOf \in [Owners -> {"runner", "watcher", "web"}]
ASSUME DataAssumption == NoRaw \notin Raws /\ Wants # {}

VARIABLES
    rows,       \* row id -> its stored row ("absent" before it is created)
    slots,      \* date -> the row its slot pointer names
    rules,      \* rule -> its stored rule
    ruledays,   \* weekday -> the rule its ruleday pointer names
    ledger,     \* reservation -> what the bot recorded about it
    userCutoff, \* the owner's own cutoff setting, NoCutoff for the site default
    now,        \* the clock
    working,    \* owner -> the row it took a lease on and may still report about
    skipWish    \* history: rows whose last user skip / unskip was a skip

vars == <<rows, slots, rules, ruledays, ledger, userCutoff, now, working,
          skipWish>>
-----------------------------------------------------------------------------
(* Rows, time and coverage *)

ActiveStatuses == {"pending", "booked", "skipped"}
Statuses == ActiveStatuses \cup {"absent", "superseded", "withdrawn",
                                 "cancelled", "lost"}
\* The three SYSTEM withdraw reasons are one value, as are the web's "user"
\* and "already_gone" cancels.
Reasons == {"none", "system", "user_withdrawn", "user", "external",
            "group_downgrade"}

Row == [status    : Statuses,
        reason    : Reasons,
        from      : {"none", "pending", "skipped"},  \* superseded_from
        cutoff    : Int,                             \* cutoff_at
        own       : Cutoffs \cup {NoCutoff},         \* a one-off's booking_cutoff
        want      : Wants,
        owner     : Owners \cup {NoOwner},           \* lease_owner
        live      : BOOLEAN,                         \* the lease has not expired
        reconcile : BOOLEAN,                         \* needs_reconcile
        raw       : Raws \cup {NoRaw}]               \* booked_raw_id

Rule == [exists : BOOLEAN, active : BOOLEAN, weekday : Weekdays,
         cutoff : Cutoffs \cup {NoCutoff}, want : Wants]

OriginOf(id)  == id[1]
DateOf(id)    == id[2]
IsRuleRow(id) == OriginOf(id) \in Rules
Weekday(d)    == d % DaysPerWeek
Today         == now \div TicksPerDay
Active(id)    == rows[id].status \in ActiveStatuses
LeaseHeld(id) == rows[id].live

CutoffAt(d, c) == d * TicksPerDay - c
Resolve(own, owner) == IF own # NoCutoff THEN own
                       ELSE IF owner # NoCutoff THEN owner ELSE SiteCutoff
\* row_is_frozen, over the instant a row stores.
Frozen(d, at) == now >= at \/ d < Today

\* THE coverage predicate, against the stored rule.
CoveredBy(r, d) == /\ rules[r].exists
                   /\ rules[r].active
                   /\ rules[r].weekday = Weekday(d)
Covered(id) == IsRuleRow(id) => CoveredBy(OriginOf(id), DateOf(id))

\* Every cancelled row is user-terminal for its date.
IsUserTerminal(row) == /\ row.status = "cancelled"
                       /\ row.reason \in {"user", "external"}
DateClosed(d) == \E id \in RowIds : DateOf(id) = d /\ IsUserTerminal(rows[id])

\* An unleased write clears an EXPIRED lease, so a stale holder cannot come back.
UnleasedWrite(row) == IF row.live THEN row ELSE [row EXCEPT !.owner = NoOwner]
-----------------------------------------------------------------------------
(* The transition table: who may move a row along which edge *)

TransitionOwners ==
    { <<"pending", "booked", "runner">>,      <<"pending", "booked", "watcher">>,
      <<"pending", "skipped", "web">>,        <<"skipped", "pending", "web">>,
      <<"pending", "superseded", "web">>,     <<"skipped", "superseded", "web">>,
      <<"superseded", "pending", "web">>,     <<"superseded", "skipped", "web">>,
      <<"pending", "withdrawn", "web">>,      <<"pending", "withdrawn", "materializer">>,
      <<"superseded", "withdrawn", "web">>,   <<"superseded", "withdrawn", "materializer">>,
      <<"withdrawn", "pending", "materializer">>,
      <<"withdrawn", "skipped", "materializer">>,
      <<"booked", "booked", "watcher">>,
      <<"booked", "cancelled", "web">>,       <<"booked", "cancelled", "watcher">>,
      <<"booked", "pending", "watcher">>,     <<"booked", "pending", "runner">>,
      <<"pending", "lost", "watcher">> }

RequiresNotFrozen == { <<"skipped", "pending">>,   <<"superseded", "pending">>,
                       <<"withdrawn", "pending">>, <<"withdrawn", "skipped">> }

\* The only edges the leased path may write.
LeasedEdges ==
    { <<"pending", "booked", "runner">>,  <<"pending", "booked", "watcher">>,
      <<"booked", "booked", "watcher">>,  <<"booked", "pending", "watcher">>,
      <<"booked", "pending", "runner">>,  <<"booked", "cancelled", "watcher">>,
      <<"booked", "cancelled", "web">> }

\* Mutant: superseded_from is not consulted, or not defaulted.
PriorIsPending(row) == "pending"
PriorUndefaulted(row) == row.from
Prior(row) == IF row.from = "none" THEN "pending" ELSE row.from

GuardWithdraw(id, actor, reason) ==
    IF IsRuleRow(id) THEN reason = "system"
                     ELSE actor = "web" /\ reason = "user_withdrawn"
GuardCancel(actor, reason) ==
    \/ actor = "web" /\ reason = "user"
    \/ actor = "watcher" /\ reason = "external"
GuardBookedToPending(actor, reason, reconcile) ==
    IF reason = "group_downgrade" THEN ~reconcile
                                  ELSE actor = "watcher" /\ reconcile

\* check_transition.  `row` is the row judged (its cutoff may be a fresh one).
MayTransition(id, row, to, actor, reason, reconcile) ==
    LET edge == <<row.status, to>>
        frozen == Frozen(DateOf(id), row.cutoff)
    IN  /\ <<row.status, to, actor>> \in TransitionOwners
        /\ edge \in RequiresNotFrozen => ~frozen
        /\ to = "lost" => frozen
        /\ row.status \in {"superseded", "withdrawn"} /\ to \in {"pending", "skipped"}
              => to = Prior(row)
        /\ edge = <<"booked", "pending">> => GuardBookedToPending(actor, reason, reconcile)
        /\ to = "withdrawn" => GuardWithdraw(id, actor, reason)
        /\ row.status = "withdrawn" => row.reason = "system"
        /\ to = "superseded" => IsRuleRow(id)
        /\ to = "cancelled" => GuardCancel(actor, reason)
-----------------------------------------------------------------------------
(* The batch primitive.  w is a function from the written ids to new rows. *)

BecomesBookable(old, new) ==
    /\ new.status \in {"pending", "skipped"}
    /\ \/ old.status \notin ActiveStatuses
       \/ old.status = "skipped" /\ new.status = "pending"

\* Mutant: coverage alone, without the user-terminal history.
CoveredSuffices(id) == Covered(id)
\* A rule row may become active only under its stored rule, on an open date.
MayBecomeActive(id) == Covered(id) /\ ~DateClosed(DateOf(id))

Leaving(w)  == {id \in DOMAIN w : Active(id) /\ w[id].status \notin ActiveStatuses}
Entering(w) == {id \in DOMAIN w : ~Active(id) /\ w[id].status \in ActiveStatuses}
\* Mutant: a row that leaves the active set keeps the slot.
KeptSlots(w) == [d \in Dates |-> slots[d]]
\* Releases first, so a supersede frees the slot it points elsewhere.
Freed(w) == [d \in Dates |-> IF slots[d] \in Leaving(w) THEN NoRow ELSE slots[d]]

\* Mutant: the batch does not look at the slot it takes.
CommitBlindToSlots(w) ==
    \A id \in DOMAIN w :
        IsRuleRow(id) /\ BecomesBookable(rows[id], w[id]) => MayBecomeActive(id)
CommitOK(w) ==
    /\ \A id \in DOMAIN w :
          IsRuleRow(id) /\ BecomesBookable(rows[id], w[id]) => MayBecomeActive(id)
    /\ \A id \in Entering(w) : Freed(w)[DateOf(id)] \in {NoRow, id}
    /\ \A i, j \in Entering(w) : DateOf(i) = DateOf(j) => i = j

Commit(w) ==
    /\ CommitOK(w)
    /\ rows' = [id \in RowIds |-> IF id \in DOMAIN w THEN w[id] ELSE rows[id]]
    /\ slots' = [d \in Dates |->
                   IF \E id \in Entering(w) : DateOf(id) = d
                   THEN CHOOSE id \in Entering(w) : DateOf(id) = d
                   ELSE Freed(w)[d]]

Write(id, row) == Commit([x \in {id} |-> row])
-----------------------------------------------------------------------------
(* Leases *)

AnyWant == CHOOSE w \in Wants : TRUE

AbsentRow == [status |-> "absent", reason |-> "none", from |-> "none", cutoff |-> 0,
              own |-> NoCutoff, want |-> AnyWant, owner |-> NoOwner, live |-> FALSE,
              reconcile |-> FALSE, raw |-> NoRaw]

Init ==
    /\ rows = [id \in RowIds |-> AbsentRow]
    /\ slots = [d \in Dates |-> NoRow]
    /\ rules = [r \in Rules |-> [exists |-> FALSE, active |-> FALSE, weekday |-> 0,
                                 cutoff |-> NoCutoff, want |-> AnyWant]]
    /\ ruledays = [w \in Weekdays |-> NoRule]
    /\ ledger = [b \in Raws |-> "absent"]
    /\ userCutoff = NoCutoff
    /\ now = 0
    /\ working = [o \in Owners |-> NoRow]
    /\ skipWish = {}

\* A live lease of another owner blocks; the same owner renews.
LeaseFree(id, owner) == LeaseHeld(id) => rows[id].owner = owner
\* A process execution acts on one row of an account at a time: the booker on
\* its target date's row, the watcher on each row in turn, the web on one cancel.
Lease(id, owner) ==
    /\ working[owner] \in {NoRow, id}
    /\ Write(id, [rows[id] EXCEPT !.owner = owner, !.live = TRUE])
    /\ working' = [working EXCEPT ![owner] = id]

ClaimRow(owner, id) ==
    /\ ActorOf[owner] = "runner"
    /\ rows[id].status = "pending"
    /\ LeaseFree(id, owner)
    /\ Lease(id, owner)
    /\ UNCHANGED <<rules, ruledays, ledger, userCutoff, now, skipWish>>

\* The fingerprint the caller passes can only refuse; a refusal changes nothing.
AcquireRowLease(owner, id) ==
    /\ rows[id].status \in {"pending", "booked"}
    /\ LeaseFree(id, owner)
    /\ Lease(id, owner)
    /\ UNCHANGED <<rules, ruledays, ledger, userCutoff, now, skipWish>>

ReleaseRowLease(owner, id) ==
    /\ working[owner] = id
    /\ working' = [working EXCEPT ![owner] = NoRow]
    /\ IF rows[id].owner = owner
       THEN Write(id, [rows[id] EXCEPT !.owner = NoOwner, !.live = FALSE])
       ELSE UNCHANGED <<rows, slots>>
    /\ UNCHANGED <<rules, ruledays, ledger, userCutoff, now, skipWish>>

\* lease_expires_at passes: the holder died, or is still acting and too slow.
LeaseExpires(id) ==
    /\ LeaseHeld(id)
    /\ rows' = [rows EXCEPT ![id].live = FALSE]
    /\ UNCHANGED <<slots, rules, ruledays, ledger, userCutoff, now, working,
                   skipWish>>
-----------------------------------------------------------------------------
(* record_outcomes: what a lease holder did, written back *)

\* "same" is an outcome without a status (to_status None).  held, extras and
\* dropped are its ledger entries: the reservation the row is booked on, the
\* surplus still alive at the course, and what the bot or the user cancelled.
Outcome(to, reason, reconcile, raw, held, extras, dropped) ==
    [to |-> to, reason |-> reason, reconcile |-> reconcile, raw |-> raw,
     held |-> held, extras |-> extras, dropped |-> dropped]

AtMostOne == {{}} \cup {{b} : b \in Raws}

Notes == {Outcome("same", "none", f, NoRaw, {}, {}, S) : f \in BOOLEAN, S \in AtMostOne}
\* The booker was stopped (its own deadline, an error) after a booking landed.
Interruptions == {Outcome("same", "none", TRUE, NoRaw, {}, {b}, {}) : b \in Raws}
\* Booked by us; the surplus of the burst is still alive, because its cancel failed.
Bookings == {Outcome("booked", "none", f, b, {b}, Raws \ {b}, {}) : f \in BOOLEAN, b \in Raws}
\* Booked by us, everything else dropped: an upgrade, or a burst's surplus.
Upgrades == {Outcome("booked", "none", f, b, {b}, {}, Raws \ {b}) : f \in BOOLEAN, b \in Raws}
\* A reservation found on the account and not known to be ours: not ledgered.
Adoptions(flags) == {Outcome("booked", "none", f, b, {}, {}, {}) : f \in flags, b \in Raws}
\* An upgrade cancelled the old slot and the rebook failed, or a vanish we caused.
FailedRebooks == {Outcome("pending", "none", TRUE, NoRaw, {}, {}, S) : S \in AtMostOne}
Downgrades == {Outcome("pending", "group_downgrade", FALSE, NoRaw, {}, {}, {b}) : b \in Raws}
UserCancels == {Outcome("cancelled", "user", FALSE, NoRaw, {}, {}, S) : S \in AtMostOne}
Vanishes == {Outcome("cancelled", "external", FALSE, NoRaw, {}, {}, {})}

Outcomes(actor) ==
    CASE actor = "runner"  -> Notes \cup Interruptions \cup Bookings \cup Upgrades
                                \cup Adoptions(BOOLEAN) \cup Downgrades
      [] actor = "watcher" -> Notes \cup Bookings \cup Upgrades \cup Adoptions({FALSE})
                                \cup FailedRebooks \cup Downgrades \cup Vanishes
      [] actor = "web"     -> UserCancels

\* An expired lease is no lease.
Holder(owner, id) == LeaseHeld(id) /\ rows[id].owner = owner
Accepted(owner, id, o) ==
    IF o.to = "same" THEN LeaseFree(id, owner)
    ELSE /\ <<rows[id].status, o.to, ActorOf[owner]>> \in LeasedEdges
         /\ MayTransition(id, rows[id], o.to, ActorOf[owner], o.reason, o.reconcile)
         /\ Holder(owner, id)

BookingFields(row, o) ==
    CASE o.to = "pending" -> [row EXCEPT !.raw = NoRaw]
      [] o.to = "booked"  -> [row EXCEPT !.raw = o.raw]
      [] OTHER            -> row

OutcomeRow(owner, id, o) ==
    LET row  == rows[id]
        new  == IF o.to = "same" THEN [row EXCEPT !.reconcile = @ \/ o.reconcile]
                ELSE [BookingFields(row, o) EXCEPT !.status = o.to, !.reason = o.reason,
                                                   !.reconcile = o.reconcile]
    IN  IF row.owner = owner THEN [new EXCEPT !.owner = NoOwner, !.live = FALSE] ELSE new

WriteLedger(o) ==
    ledger' = [b \in Raws |-> CASE b \in o.dropped -> "cancelled"
                                [] b \in o.extras  -> "held_extra"
                                [] b \in o.held    -> "held"
                                [] OTHER           -> ledger[b]]

FlagActiveRow(d) ==
    rows' = IF slots[d] = NoRow THEN rows ELSE [rows EXCEPT ![slots[d]].reconcile = TRUE]

Applied(owner, id, o) == Write(id, OutcomeRow(owner, id, o)) /\ WriteLedger(o)
\* Mutant: a refused outcome flags nothing.
RefusedUnflagged(id, o) == WriteLedger(o) /\ UNCHANGED <<rows, slots>>
\* A refused outcome still reaches the ledger, and the date's active row is flagged.
Refused(id, o) == FlagActiveRow(DateOf(id)) /\ WriteLedger(o) /\ UNCHANGED slots

\* What an outcome drops was read from the ledger, or is the booker's own surplus.
RecordOutcome(owner, id, o) ==
    /\ working[owner] = id
    /\ o \in Outcomes(ActorOf[owner])
    /\ \/ \A b \in o.dropped : ledger[b] # "absent"
       \/ ActorOf[owner] = "runner" /\ o.to # "pending"
    /\ IF Accepted(owner, id, o) THEN Applied(owner, id, o) ELSE Refused(id, o)
    /\ UNCHANGED <<rules, ruledays, userCutoff, now, working, skipWish>>
-----------------------------------------------------------------------------
(* The watcher's finalizer: a frozen, unleased, pending row is lost, or *)
(* withdrawn when its rule no longer covers it.                         *)

\* Mutant: the finalizer does not look at the lease.
FrozenPendingLeased == {id \in RowIds : /\ rows[id].status = "pending"
                                        /\ Frozen(DateOf(id), rows[id].cutoff)}
FrozenPending == {id \in RowIds : /\ rows[id].status = "pending"
                                  /\ Frozen(DateOf(id), rows[id].cutoff)
                                  /\ ~LeaseHeld(id)}

Finalized(id) ==
    IF Covered(id)
    THEN [UnleasedWrite(rows[id]) EXCEPT !.status = "lost", !.reason = "none"]
    ELSE [UnleasedWrite(rows[id]) EXCEPT !.status = "withdrawn", !.reason = "system"]

FinalizeLost ==
    /\ FrozenPending # {}
    /\ Commit([id \in FrozenPending |-> Finalized(id)])
    /\ UNCHANGED <<rules, ruledays, ledger, userCutoff, now, working, skipWish>>
-----------------------------------------------------------------------------
(* The materializer's writes.  Every one matches the STORED rule. *)

RuleOf(id) == rules[OriginOf(id)]
RuleCutoffAt(id) == CutoffAt(DateOf(id), Resolve(RuleOf(id).cutoff, userCutoff))

\* Created superseded when another active row holds the date.
InsertRuleRow(r, d) ==
    LET id  == <<r, d>>
        row == [AbsentRow EXCEPT !.status = IF slots[d] = NoRow THEN "pending"
                                                                ELSE "superseded",
                                 !.cutoff = RuleCutoffAt(id), !.want = RuleOf(id).want]
    IN  /\ rows[id].status = "absent"
        /\ CoveredBy(r, d)
        /\ ~DateClosed(d)
        /\ ~Frozen(d, row.cutoff)
        /\ Write(id, row)
        /\ UNCHANGED <<rules, ruledays, ledger, userCutoff, now, working, skipWish>>

\* A withdrawn row comes back with the status it had before a supersede, judged
\* on the cutoff as it resolves now.
ReactivateRuleRow(r, d) ==
    LET id    == <<r, d>>
        to    == Prior(rows[id])
        fresh == [rows[id] EXCEPT !.cutoff = RuleCutoffAt(id)]
    IN  /\ MayTransition(id, fresh, to, "materializer", "none", FALSE)
        /\ RuleOf(id).active
        /\ ~DateClosed(d)
        /\ ~LeaseHeld(id)
        /\ Write(id, [UnleasedWrite(fresh) EXCEPT !.status = to, !.reason = "none",
                                                  !.from = "none", !.want = RuleOf(id).want])
        /\ UNCHANGED <<rules, ruledays, ledger, userCutoff, now, working, skipWish>>

\* A rule's deactivation or move, and the sweep: no coverage check in the store.
WithdrawRuleRow(r, d) ==
    LET id == <<r, d>>
    IN  /\ MayTransition(id, rows[id], "withdrawn", "materializer", "system", FALSE)
        /\ ~LeaseHeld(id)
        /\ Write(id, [UnleasedWrite(rows[id]) EXCEPT !.status = "withdrawn",
                                                     !.reason = "system"])
        /\ UNCHANGED <<rules, ruledays, ledger, userCutoff, now, working, skipWish>>

RewritePendingRuleRow(r, d) ==
    LET id == <<r, d>>
    IN  /\ rows[id].status = "pending"
        /\ ~Frozen(d, rows[id].cutoff)
        /\ ~LeaseHeld(id)
        /\ MayBecomeActive(id)
        /\ Write(id, [UnleasedWrite(rows[id]) EXCEPT !.want = RuleOf(id).want])
        /\ UNCHANGED <<rules, ruledays, ledger, userCutoff, now, working, skipWish>>
-----------------------------------------------------------------------------
(* Cutoff settings.  Leased rows keep their old instant. *)

CutoffRewriteStatuses == {"pending", "booked", "skipped", "superseded"}

\* The rows in DOMAIN at that still act on their cutoff get the instant at gives them.
RewriteCutoffs(at) ==
    rows' = [id \in RowIds |->
               IF /\ id \in DOMAIN at
                  /\ rows[id].status \in CutoffRewriteStatuses
                  /\ DateOf(id) >= Today
                  /\ rows[id].cutoff # at[id]
                  /\ ~LeaseHeld(id)
               THEN [UnleasedWrite(rows[id]) EXCEPT !.cutoff = at[id]]
               ELSE rows[id]]

OwnCutoffOf(id) == IF IsRuleRow(id) THEN RuleOf(id).cutoff ELSE rows[id].own

SetBookingCutoff(c) ==
    /\ userCutoff' = c
    /\ RewriteCutoffs([id \in {x \in RowIds : OwnCutoffOf(x) = NoCutoff} |->
                         CutoffAt(DateOf(id), Resolve(NoCutoff, c))])
    /\ UNCHANGED <<slots, rules, ruledays, ledger, now, working, skipWish>>

RewriteRuleCutoff(r) ==
    /\ rules[r].exists
    /\ RewriteCutoffs([id \in {x \in RowIds : OriginOf(x) = r} |-> RuleCutoffAt(id)])
    /\ UNCHANGED <<slots, rules, ruledays, ledger, userCutoff, now, working, skipWish>>
-----------------------------------------------------------------------------
(* The web: one-offs, skips, rule writes *)

\* A one-off supersedes the rule row that holds its date, in the same batch.
CreateExplicitRow(o, d, own) ==
    LET id  == <<o, d>>
        row == [AbsentRow EXCEPT !.status = "pending", !.own = own,
                                 !.cutoff = CutoffAt(d, Resolve(own, userCutoff))]
        holder == slots[d]
        displaced == [UnleasedWrite(rows[holder]) EXCEPT
                        !.status = "superseded", !.from = rows[holder].status]
    IN  /\ \A e \in Dates : rows[<<o, e>>].status = "absent"  \* a fresh uuid4
        /\ ~Frozen(d, row.cutoff)
        /\ IF holder = NoRow
           THEN Write(id, row)
           ELSE /\ IsRuleRow(holder)
                /\ MayTransition(holder, rows[holder], "superseded", "web", "none", FALSE)
                /\ ~LeaseHeld(holder)
                /\ Commit([x \in {id, holder} |-> IF x = id THEN row ELSE displaced])
        /\ UNCHANGED <<rules, ruledays, ledger, userCutoff, now, working, skipWish>>

\* skip_row and unskip_row; both also bring back a superseded row whose slot is
\* free, to the status it had.
WebTransition(id, to) ==
    /\ MayTransition(id, rows[id], to, "web", "none", FALSE)
    /\ ~LeaseHeld(id)
    /\ Write(id, [UnleasedWrite(rows[id]) EXCEPT !.status = to, !.reason = "none",
                                                 !.from = "none"])
    /\ UNCHANGED <<rules, ruledays, ledger, userCutoff, now, working>>

SkipRow(id) ==
    /\ WebTransition(id, "skipped")
    /\ skipWish' = skipWish \cup {id}

UnskipRow(id) ==
    /\ WebTransition(id, "pending")
    /\ skipWish' = skipWish \ {id}

\* The rule rows a withdrawn one-off gives its date back to.  One rule at most
\* covers a date (RuledayAgreement), so the first candidate is the only one.
Restorable(d) ==
    IF DateClosed(d) THEN {}
    ELSE {id \in RowIds : /\ DateOf(id) = d
                          /\ IsRuleRow(id)
                          /\ \/ rows[id].status = "superseded"
                             \/ rows[id].status = "withdrawn" /\ rows[id].reason = "system"
                          /\ Covered(id)
                          /\ ~Frozen(d, rows[id].cutoff)}

Restored(id) ==
    [UnleasedWrite(rows[id]) EXCEPT
        !.status = Prior(rows[id]), !.reason = "none", !.from = "none",
        !.want = IF rows[id].status = "withdrawn" THEN RuleOf(id).want ELSE @]

WithdrawExplicit(id) ==
    LET back == Restorable(DateOf(id))
    IN  /\ ~IsRuleRow(id)
        /\ MayTransition(id, rows[id], "withdrawn", "web", "user_withdrawn", FALSE)
        /\ \A x \in back \cup {id} : ~LeaseHeld(x)
        /\ Commit([x \in back \cup {id} |->
                     IF x = id THEN [UnleasedWrite(rows[id]) EXCEPT
                                       !.status = "withdrawn", !.reason = "user_withdrawn"]
                               ELSE Restored(x)])
        /\ UNCHANGED <<rules, ruledays, ledger, userCutoff, now, working, skipWish>>

FreedRuledays(r) ==
    [w \in Weekdays |-> IF rules[r].active /\ w = rules[r].weekday /\ ruledays[w] = r
                        THEN NoRule ELSE ruledays[w]]

\* Create or replace a rule with its ruleday pointers, one active rule per weekday.
UpsertRule(r, new) ==
    LET freed == FreedRuledays(r)
    IN  /\ new.exists
        /\ rules[r].exists \/ new.active
        /\ new.active => freed[new.weekday] \in {NoRule, r}
        /\ rules' = [rules EXCEPT ![r] = new]
        /\ ruledays' = IF new.active THEN [freed EXCEPT ![new.weekday] = r] ELSE freed
        /\ UNCHANGED <<rows, slots, ledger, userCutoff, now, working, skipWish>>

Tick ==
    /\ now < MaxNow
    /\ now' = now + 1
    /\ UNCHANGED <<rows, slots, rules, ruledays, ledger, userCutoff, working, skipWish>>
-----------------------------------------------------------------------------
MaterializerStep ==
    \E r \in Rules, d \in Dates :
        \/ InsertRuleRow(r, d)
        \/ ReactivateRuleRow(r, d)
        \/ WithdrawRuleRow(r, d)
        \/ RewritePendingRuleRow(r, d)

BotStep ==
    \/ \E owner \in Owners, id \in RowIds :
          \/ ClaimRow(owner, id)
          \/ AcquireRowLease(owner, id)
          \/ ReleaseRowLease(owner, id)
          \/ \E o \in Outcomes(ActorOf[owner]) : RecordOutcome(owner, id, o)
    \/ \E id \in RowIds : LeaseExpires(id)
    \/ FinalizeLost

UserStep ==
    \/ \E id \in RowIds : SkipRow(id) \/ UnskipRow(id) \/ WithdrawExplicit(id)
    \/ \E o \in OneOffs, d \in Dates, own \in Cutoffs \cup {NoCutoff} :
          CreateExplicitRow(o, d, own)
    \/ \E c \in Cutoffs \cup {NoCutoff} : SetBookingCutoff(c)

RuleStep ==
    \/ \E r \in Rules : RewriteRuleCutoff(r)
    \/ \E r \in Rules, new \in Rule : UpsertRule(r, new)

WebStep == UserStep \/ RuleStep

Next == MaterializerStep \/ BotStep \/ WebStep \/ Tick

Spec == Init /\ [][Next]_vars
-----------------------------------------------------------------------------
(* Properties *)

\* Every variable has its type; a stored rule is the one kind of record a rule is.
LedgerStates == {"absent", "held", "held_extra", "cancelled"}
TypeOK ==
    /\ rows \in [RowIds -> Row]
    /\ slots \in [Dates -> RowIds \cup {NoRow}]
    /\ rules \in [Rules -> Rule]
    /\ ruledays \in [Weekdays -> Rules \cup {NoRule}]
    /\ ledger \in [Raws -> LedgerStates]
    /\ userCutoff \in Cutoffs \cup {NoCutoff}
    /\ now \in Nat
    /\ working \in [Owners -> RowIds \cup {NoRow}]
    /\ skipWish \subseteq RowIds

\* The slot pointer of a date names exactly the date's active row: at most one
\* booking intent per (account, date), through every supersede, restore,
\* withdraw, outcome and finalize (in_memory_store._commit, models.py 98-102).
SlotAgreement == \A id \in RowIds : Active(id) <=> slots[DateOf(id)] = id
SlotsInPlace  == \A d \in Dates : slots[d] # NoRow => DateOf(slots[d]) = d
OneActiveRowPerDate == SlotAgreement /\ SlotsInPlace

\* The ruleday pointer of a weekday names exactly its active rule, so two active
\* rules never share a weekday (upsert_rule's pointer operations).
RuledayAgreement ==
    \A w \in Weekdays, r \in Rules :
        ruledays[w] = r <=> rules[r].active /\ rules[r].weekday = w

\* A date with a user-terminal (cancelled) row never carries an active rule row
\* again, whatever is materialized, reactivated, restored or unskipped later:
\* only a new one-off books it (models.is_user_terminal, USER_TERMINAL).
UserCancelIsFinal ==
    \A id \in RowIds : IsRuleRow(id) /\ Active(id) => ~DateClosed(DateOf(id))

\* A user's skip survives supersede, restore, withdraw and reactivate: until the
\* user unskips it, a skipped row is skipped or remembers that it was
\* (superseded_from, models.py 357-361; a rule edit never touches a skip).
SkipHonoured ==
    \A id \in skipWish :
        \/ rows[id].status = "skipped"
        \/ /\ rows[id].status \in {"superseded", "withdrawn"}
           /\ rows[id].from = "skipped"

\* Only a pending or booked row is ever under a live lease, and a live lease has
\* an owner: a holder never works on a row that was superseded, withdrawn,
\* skipped, cancelled or lost under it (LEASABLE_STATUSES; every unleased write
\* refuses a leased row).
LiveLeaseIsLeasable ==
    \A id \in RowIds : LeaseHeld(id) => /\ rows[id].status \in {"pending", "booked"}
                                        /\ rows[id].owner # NoOwner

\* A row under a live lease changes status only along a leased edge, and that
\* same step ends the lease: nobody moves a row under the booker, the watcher or
\* a managed cancel, and no outcome is applied twice (semantics.LEASED_EDGES).
LeaseDiscipline ==
    [][\A id \in RowIds :
          LET old == rows[id]
              new == rows'[id]
          IN  old.live /\ (new.status # old.status \/ new.raw # old.raw)
                => /\ \E a \in Actors : <<old.status, new.status, a>> \in LeasedEdges
                   /\ ~new.live
                   /\ new.owner = NoOwner]_vars

\* The reverse: a row becomes booked, loses its booking or is cancelled only
\* while its writer holds a live lease.
BookingNeedsLease ==
    [][\A id \in RowIds :
          LET old == rows[id]
              new == rows'[id]
          IN  \/ old.status # "booked" /\ new.status = "booked"
              \/ old.status = "booked" /\ new.status # "booked"
              => old.live]_vars

\* needs_reconcile goes out only with an outcome that a live lease holder wrote
\* and that moved the row along a leased edge: no skip, supersede, restore,
\* rewrite, note or finalizer forgets that a booking may have landed.
ReconcileKept ==
    [][\A id \in RowIds :
          rows[id].reconcile /\ ~rows'[id].reconcile
             => /\ rows[id].live
                /\ \E a \in Actors :
                     <<rows[id].status, rows'[id].status, a>> \in LeasedEdges]_vars

\* A reservation the ledger newly holds, as the booking or as a surplus, belongs
\* to a row that is booked now, or a row is flagged to reconcile it: the date's
\* active row when the outcome was refused because the row had moved
\* (_flag_active_row, M4), the row itself when the outcome carried no status (a
\* note is written even onto a row that moved).
Alive(state) == state \in {"held", "held_extra"}
NoSilentBooking ==
    [][\A b \in Raws :
          ~Alive(ledger[b]) /\ Alive(ledger'[b])
            => \E owner \in Owners :
                 LET id     == working[owner]
                     active == slots'[DateOf(id)]
                 IN  /\ id # NoRow
                     /\ \/ rows'[id].status = "booked"
                        \/ rows'[id].reconcile
                        \/ active # NoRow => rows'[active].reconcile]_vars

-----------------------------------------------------------------------------
(* Refinement: the slot pointers are the holders, the user-terminal rows close *)
(* their dates.                                                                *)

ClosedDates == {d \in Dates : DateClosed(d)}

Ownership == INSTANCE DateOwnership
    WITH Days <- Dates, Standing <- Rules \X Dates, OneOff <- OneOffs \X Dates,
         Nobody <- NoRow, holder <- slots, closed <- ClosedDates

\* The store implements DateOwnership: every batch of row writes is one take,
\* displacement, hand-back, release or cancel of the dates it touches.
ImplementsDateOwnership == Ownership!OwnershipSpec
=============================================================================
