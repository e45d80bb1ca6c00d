------------------------------ MODULE CosmosRows ------------------------------
(***************************************************************************)
(* The tenant store on Cosmos DB (tenant/cosmos/store.py) for one account: *)
(* where TenantRows makes each call one step, here a call READS documents  *)
(* one after another, then sends ONE transactional batch, and other calls  *)
(* land in between.  A batch asserts the ETags of the documents it         *)
(* replaces; what it only read it does not assert.  Its answer may be      *)
(* lost, and the caller may call again (tenant/retry.py) or give up.       *)
(*                                                                         *)
(* The documents are TenantRows' variables.  A call keeps in `fresh` the   *)
(* documents it read that nobody wrote since, which are those whose ETag   *)
(* still matches; such a document is what the call read.                   *)
(***************************************************************************)
EXTENDS TenantRows

CONSTANTS
    Callers,    \* the unleased callers: web requests, the materializer
    Does,       \* the calls each caller or owner makes
    Clocks,     \* the times of day the calls are made at
    Edits,      \* what a rule is edited into
    Reports,    \* the outcomes an owner reports
    MaxCalls,   \* bound on the calls begun
    MaxLost     \* bound on the answers lost and callers given up

LeasedKinds == {"claim", "acquire", "release", "record"}
Kinds == LeasedKinds \cup {"insert", "reactivate", "rewrite", "skip", "unskip", "withdraw", "drop", "create",
                           "finalize", "edit", "mark"}

ASSUME CosmosAssumption == Callers \cap Owners = {} /\ MaxCalls \in Nat /\ MaxLost \in Nat
                           /\ Clocks \subseteq 0..MaxNow
\* Only an owner asks for a lease, only the booker claims, only the site creates; a rule is
\* edited into a stored rule.
ASSUME CallsAssumption ==
    /\ Does \in [Callers \cup Owners -> SUBSET Kinds] /\ \A p \in Callers : Does[p] \cap LeasedKinds = {}
    /\ \A p \in Owners : "create" \notin Does[p] /\ ("claim" \in Does[p] => ActorOf[p] = "runner")
    /\ \A e \in Edits : e \in Rule /\ e.exists

VARIABLES
    call,       \* what each process is in the middle of
    told,       \* the leases granted in an answer and still running
    begun, mishaps

cosmosVars == <<vars, call, told, begun, mishaps>>

Processes == Callers \cup Owners

RowDoc(id) == <<"row", id>>
SlotDoc(d) == <<"slot", d>>
RuleDoc(r) == <<"rule", r>>
RuledayDoc(w) == <<"ruleday", w>>

Idle == [kind |-> "none", step |-> "idle", fresh |-> {}]

Call(kind, id, arg) ==
    [kind |-> kind, id |-> id, arg |-> arg, step |-> "look", fresh |-> {},
     reads |-> {}, facts |-> <<>>, pointers |-> {}, slot |-> NoRow]

-----------------------------------------------------------------------------
(* What a call reads.                                                      *)

\* What a call decides on or copies and its batch does not assert.
Facts(c) ==
    LET id == c.id d == DateOf(c.id) IN
    CASE c.kind = "insert" -> [want |-> RuleOf(id).want, at |-> RuleCutoffAt(id), closed |-> DateClosed(d),
                               taken |-> slots[d] # NoRow]
      [] c.kind = "reactivate" -> [want |-> RuleOf(id).want, at |-> RuleCutoffAt(id), closed |-> DateClosed(d)]
      [] c.kind = "rewrite"    -> [want |-> RuleOf(id).want, closed |-> DateClosed(d)]
      [] c.kind \in {"skip", "unskip"}        -> [closed |-> IsRuleRow(id) /\ DateClosed(d)]
      [] c.kind = "withdraw" -> [back |-> Restorable(d), want |-> [x \in Restorable(d) |-> RuleOf(x).want]]
      [] c.kind = "finalize" -> [covered |-> Covered(id)]
      [] c.kind = "record"   -> [live |-> rows[id].live]
      [] c.kind = "edit"     -> [rule |-> RuleOf(id)]
      [] OTHER               -> <<>>

Displaced(d) == IF slots[d] = NoRow THEN {} ELSE {slots[d]}

\* The stored rows a call replaces.
Held(c) ==
    CASE c.kind = "insert"   -> {}
      [] c.kind = "withdraw" -> {c.id} \cup Restorable(DateOf(c.id))
      [] c.kind = "create"   -> Displaced(DateOf(c.id))
      [] OTHER               -> {c.id}

-----------------------------------------------------------------------------
(* What each store call refuses, on what it reads first.                   *)

\* insert_rule_row_if_absent: nothing there yet, covered, open, before the cutoff.
Insertable(id) ==
    /\ rows[id].status = "absent" /\ CoveredBy(OriginOf(id), DateOf(id)) /\ ~DateClosed(DateOf(id))
    /\ ~Frozen(DateOf(id), RuleCutoffAt(id))

\* reactivate_rule_row, under a cutoff computed anew.
Reactivatable(id) ==
    /\ MayTransition(id, [rows[id] EXCEPT !.cutoff = RuleCutoffAt(id)], Prior(rows[id]), "materializer", "none", FALSE)
    /\ RuleOf(id).active /\ ~DateClosed(DateOf(id))

\* transition_row, from the site and from the sweep.
Transitions == [skip     |-> [to |-> "skipped",   actor |-> "web",          reason |-> "none"],
                unskip   |-> [to |-> "pending",   actor |-> "web",          reason |-> "none"],
                withdraw |-> [to |-> "withdrawn", actor |-> "web",          reason |-> "user_withdrawn"],
                drop     |-> [to |-> "withdrawn", actor |-> "materializer", reason |-> "system"]]
Movable(id, t) == MayTransition(id, rows[id], t.to, t.actor, t.reason, FALSE)

\* create_explicit_row: a rule row that holds the date must be able to step aside.
Creatable(id) ==
    /\ rows[id].status = "absent" /\ ~Frozen(DateOf(id), CutoffAt(DateOf(id), SiteCutoff))
    /\ \A h \in Displaced(DateOf(id)) : MayTransition(h, rows[h], "superseded", "web", "none", FALSE)

\* rewrite_pending_rule_row; finalize_lost.
Rewritable(id) == rows[id].status = "pending" /\ ~Frozen(DateOf(id), rows[id].cutoff)
Losable(id) == rows[id].status = "pending" /\ Frozen(DateOf(id), rows[id].cutoff)

\* claim_rows, acquire_row_lease and release_row_lease; record_outcomes.
Leasable(p, c) ==
    CASE c.kind = "claim"   -> rows[c.id].status = "pending" /\ LeaseFree(c.id, p)
      [] c.kind = "acquire" -> rows[c.id].status \in {"pending", "booked"} /\ LeaseFree(c.id, p)
      [] c.kind = "release" -> rows[c.id].owner = p
      [] c.kind = "record"  -> Accepted(p, c.id, c.arg[1])

Allowed(p, c) ==
    IF c.kind \in LeasedKinds THEN Leasable(p, c)
    ELSE /\ \A x \in Held(c) : ~LeaseHeld(x)
         /\ CASE c.kind = "insert"     -> Insertable(c.id)
              [] c.kind = "reactivate" -> Reactivatable(c.id)
              [] c.kind = "rewrite"    -> Rewritable(c.id)
              [] c.kind = "create"     -> Creatable(c.id)
              [] c.kind = "finalize"   -> Losable(c.id)
              [] OTHER                 -> Movable(c.id, Transitions[c.kind])

-----------------------------------------------------------------------------
(* What a batch writes.  A row it replaces is still what the call read.    *)

NewRow(status, want, at) == [AbsentRow EXCEPT !.status = status, !.cutoff = at, !.want = want]

Inserted(c) == NewRow(IF c.facts.taken THEN "superseded" ELSE "pending", c.facts.want, c.facts.at)

Reactivated(c) ==
    [UnleasedWrite(rows[c.id]) EXCEPT !.status = Prior(rows[c.id]), !.reason = "none", !.from = "none",
                                      !.want = c.facts.want, !.cutoff = c.facts.at]

Moved(c) ==
    LET t == Transitions[c.kind] IN
    [UnleasedWrite(rows[c.id]) EXCEPT !.status = t.to, !.reason = t.reason,
                                      !.from = IF t.to = "withdrawn" THEN @ ELSE "none"]

\* _restore_for: with the one-off withdrawn, the rule row it had displaced comes back.
RestoredFor(c) ==
    [x \in {c.id} \cup c.facts.back |->
        IF x = c.id THEN Moved(c)
        ELSE [Restored(x) EXCEPT !.want = IF rows[x].status = "withdrawn" THEN c.facts.want[x] ELSE @]]

\* The one-off, and the rule row that steps aside.
Created(c) ==
    [x \in {c.id} \cup c.reads |->
        IF x = c.id THEN NewRow("pending", AnyWant, CutoffAt(DateOf(x), SiteCutoff))
                    ELSE [UnleasedWrite(rows[x]) EXCEPT !.status = "superseded", !.from = rows[x].status]]

\* Lost at its cutoff, withdrawn without a word if its rule is gone.
Ended(c) ==
    IF c.facts.covered THEN [UnleasedWrite(rows[c.id]) EXCEPT !.status = "lost", !.reason = "none"]
                       ELSE [UnleasedWrite(rows[c.id]) EXCEPT !.status = "withdrawn", !.reason = "system"]

\* The row a call about one row writes.
Written(p, c) ==
    LET row == rows[c.id] IN
    CASE c.kind = "insert"     -> Inserted(c)
      [] c.kind = "reactivate" -> Reactivated(c)
      [] c.kind = "rewrite"    -> [UnleasedWrite(row) EXCEPT !.want = c.facts.want]
      [] c.kind \in {"claim", "acquire"} -> [row EXCEPT !.owner = p, !.live = TRUE]
      [] c.kind = "release"    -> [row EXCEPT !.owner = NoOwner, !.live = FALSE]
      [] c.kind = "record"     -> OutcomeRow(p, c.id, c.arg[1])
      [] c.kind = "finalize"   -> Ended(c)
      [] OTHER                 -> Moved(c)

Writes(p, c) ==
    CASE c.kind = "withdraw" -> RestoredFor(c)
      [] c.kind = "create"   -> Created(c)
      [] OTHER               -> [x \in {c.id} |-> Written(p, c)]

\* The rows after a batch.
Stored(w) == [x \in RowIds |-> IF x \in DOMAIN w THEN w[x] ELSE rows[x]]

\* The rule rows it opens, and those whose rule's pointer it asserts.
Opened(w) == {x \in DOMAIN w : IsRuleRow(x) /\ BecomesBookable(rows[x], w[x])}
Opens(p, c) == IF c.kind = "rewrite" THEN {c.id} ELSE Opened(Writes(p, c))
Pointed(p, c) == Opens(p, c) \cup (IF c.kind = "insert" THEN {c.id} ELSE {})
Moving(w) == Entering(w) \cup Leaving(w) # {}

-----------------------------------------------------------------------------
(* The reads, in the order the code makes them.                            *)

\* A call turned down ends; an outcome turned down is still ledgered.
Turned(c) == IF c.kind = "record" THEN [c EXCEPT !.step = "slot", !.fresh = {}] ELSE Idle

Look(p, c) ==
    IF ~Allowed(p, c) THEN Turned(c)
    ELSE LET f == [c EXCEPT !.facts = Facts(c), !.reads = Held(c), !.fresh = {RowDoc(x) : x \in Held(c)}]
         IN  [f EXCEPT !.step = CASE Opens(p, f) # {} -> "guard"
                                  [] Opens(p, f) = {} /\ (Pointed(p, f) # {} \/ Moving(Writes(p, f))) -> "point"
                                  [] OTHER -> "send"]

Become(p, c) == call' = [call EXCEPT ![p] = c]
Reading(p, step) == call[p].step = step /\ UNCHANGED <<vars, told, begun, mishaps>>

\* What an outcome drops was read from the ledger, or is the booker's own surplus.
Drops(p, o) == (\A b \in o.dropped : ledger[b] # "absent") \/ (ActorOf[p] = "runner" /\ o.to # "pending")
Reported(p) == {o \in Reports \cap Outcomes(ActorOf[p]) : Drops(p, o)}

Begin(p) ==
    /\ call[p] = Idle /\ begun < MaxCalls /\ begun' = begun + 1
    /\ \E kind \in Does[p] \ {"edit", "mark"}, id \in RowIds :
          /\ kind \in {"claim", "acquire"} => working[p] \in {NoRow, id}
          /\ kind \in {"release", "record"} => working[p] = id
          /\ kind \in {"insert", "reactivate", "rewrite", "drop"} => IsRuleRow(id)
          /\ kind = "withdraw" => ~IsRuleRow(id)
          /\ kind = "create" => /\ ~IsRuleRow(id)
                                /\ \A q \in Processes : call[q] # Idle => OriginOf(call[q].id) # OriginOf(id)
                                /\ \A e \in Dates : rows[<<OriginOf(id), e>>].status = "absent"
          /\ \E arg \in IF kind = "record" THEN {<<o>> : o \in Reported(p)} ELSE {<<>>} :
                LET c == Look(p, Call(kind, id, arg)) IN c # Idle /\ Become(p, c)
    /\ UNCHANGED <<vars, told, mishaps>>

LookAgain(p) ==
    /\ Reading(p, "look") /\ call[p].kind \notin {"edit", "mark"}
    /\ Become(p, Look(p, call[p]))

\* _guard_rule_row_may_become_active: the stored rule, then the date's history.
Guard(p) ==
    /\ Reading(p, "guard")
    /\ LET c == call[p] IN
       Become(p, IF \A x \in Opens(p, c) : MayBecomeActive(x)
                 THEN [c EXCEPT !.step = "point"] ELSE Turned(c))

\* ... then the ruleday pointer, and _slot_ops the slot pointer.
PointersRead(p, c) == {RuledayDoc(Weekday(DateOf(x))) : x \in Pointed(p, c)}
Point(p) ==
    /\ Reading(p, "point") /\ call[p].kind # "edit"
    /\ LET c == call[p]
           d == DateOf(c.id)
           ps == PointersRead(p, c)
       IN Become(p, IF \A x \in Pointed(p, c) : ruledays[Weekday(d)] = OriginOf(x)
                    THEN [c EXCEPT !.step = "send", !.slot = slots[d], !.pointers = ps,
                                   !.fresh = @ \cup ps \cup (IF slots[d] = NoRow THEN {} ELSE {SlotDoc(d)})]
                    ELSE Turned(c))

-----------------------------------------------------------------------------
(* The batch: all or nothing.                                              *)

Taken(w) == [d \in Dates |-> IF \E x \in Entering(w) : DateOf(x) = d
                             THEN CHOOSE x \in Entering(w) : DateOf(x) = d ELSE Freed(w)[d]]

\* Mutant: a row is replaced without its ETag.
AnyRow(c, w) == \A x \in DOMAIN w : rows[x].status = "absent" <=> x \notin c.reads
\* A row is created only if absent, and replaced only under its ETag.
RowsMatch(c, w) ==
    \A x \in DOMAIN w : IF x \in c.reads THEN RowDoc(x) \in c.fresh ELSE rows[x].status = "absent"

\* Mutant: the slot is replaced or deleted without its ETag.
AnySlot(c, w) == TRUE
\* A slot read absent is created, which is refused if there is one by now; a slot read
\* present is replaced or deleted under its ETag.
SlotMatches(c, w) ==
    LET d == DateOf(c.id) IN Moving(w) => slots[d] = c.slot /\ (c.slot # NoRow => SlotDoc(d) \in c.fresh)

\* Mutant: the ruleday pointer was read, but is not asserted.
AnyPointer(c) == TRUE
PointersMatch(c) == c.pointers \subseteq c.fresh

Lands(c, w) ==
    /\ RowsMatch(c, w) /\ SlotMatches(c, w) /\ PointersMatch(c)
    /\ Entering(w) # {} => c.slot \in {NoRow} \cup Leaving(w) \cup Entering(w)

\* Every document written has a new ETag.
Stamp(p, c, docs) ==
    call' = [q \in Processes |-> IF q = p THEN c ELSE [call[q] EXCEPT !.fresh = @ \ docs]]

\* The answer of a batch that landed arrives, or is lost: an owner calls again
\* (retry_transient), a request or the tick fails.
Answered(p, docs, granted) ==
    \/ Stamp(p, Idle, docs) /\ told' = granted /\ UNCHANGED mishaps
    \/ /\ mishaps < MaxLost /\ mishaps' = mishaps + 1
       /\ told' = told \cap granted
       /\ Stamp(p, IF p \in Owners THEN [call[p] EXCEPT !.step = "look"] ELSE Idle, docs)

\* What the call leaves in the histories of TenantRows.
Noted(p, c) ==
    /\ skipWish' = CASE c.kind = "skip" -> skipWish \cup {c.id}
                     [] c.kind = "unskip" -> skipWish \ {c.id} [] OTHER -> skipWish
    /\ working' = CASE c.kind \in {"claim", "acquire"} -> [working EXCEPT ![p] = c.id]
                    [] c.kind = "release" -> [working EXCEPT ![p] = NoRow] [] OTHER -> working

Granted(p, c) ==
    CASE c.kind \in {"claim", "acquire"} -> told \cup {<<p, c.id>>}
      [] c.kind \in {"release", "record"} -> told \ {<<p, c.id>>}
      [] OTHER -> told

Ledgered(c) == IF c.kind = "record" THEN WriteLedger(c.arg[1]) ELSE UNCHANGED ledger

Send(p) ==
    LET c == call[p]
        w == Writes(p, c)
    IN
    /\ c.step = "send" /\ c.kind \notin {"edit", "mark"}
    /\ Lands(c, w)
    /\ rows' = Stored(w) /\ slots' = Taken(w) /\ Ledgered(c) /\ Noted(p, c)
    /\ Answered(p, {RowDoc(x) : x \in DOMAIN w} \cup c.pointers
                   \cup {SlotDoc(d) : d \in {e \in Dates : Taken(w)[e] # slots[e]}}, Granted(p, c))
    /\ UNCHANGED <<rules, ruledays, userCutoff, now, begun>>

\* Changed since it was read: turned down, but a lease is released in the end.
Stale(p) ==
    LET c == call[p] IN
    /\ Reading(p, "send") /\ c.kind \notin {"edit", "mark"} /\ ~Lands(c, Writes(p, c))
    /\ Become(p, IF c.kind = "release" THEN [c EXCEPT !.step = "look"] ELSE Turned(c))

-----------------------------------------------------------------------------
(* _write_ledger_and_flag: an outcome whose row had moved.                 *)

FlagSlot(p) ==
    /\ Reading(p, "slot")
    /\ LET c == call[p] d == DateOf(call[p].id) IN
       Become(p, [c EXCEPT !.slot = slots[d], !.reads = Displaced(d), !.step = "active"])

FlagActive(p) ==
    /\ Reading(p, "active")
    /\ LET c == call[p] IN
       Become(p, [c EXCEPT !.step = "flag", !.fresh = {RowDoc(x) : x \in c.reads},
                           !.reads = {x \in c.reads : ~rows[x].reconcile},
                           !.facts = [slot |-> c.slot,
                                      flagged |-> \E x \in c.reads : rows[x].reconcile]])

\* Mutant: the refused outcome forgets its ledger entries.
FlagAlone(c) == UNCHANGED ledger
FlagLedger(c) == WriteLedger(c.arg[1])

Flag(p) ==
    LET c == call[p] IN
    /\ c.step = "flag"
    /\ IF \A x \in c.reads : RowDoc(x) \in c.fresh
       THEN /\ rows' = Stored([x \in c.reads |-> [rows[x] EXCEPT !.reconcile = TRUE]])
            /\ FlagLedger(c) /\ Noted(p, c)
            /\ Answered(p, {RowDoc(x) : x \in c.reads}, told \ {<<p, c.id>>})
       ELSE Become(p, [c EXCEPT !.step = "slot"]) /\ UNCHANGED <<rows, ledger, working, skipWish, told, mishaps>>
    /\ UNCHANGED <<slots, rules, ruledays, userCutoff, now, begun>>

-----------------------------------------------------------------------------
(* upsert_rule and the watermark.                                          *)

BeginEdit(p) ==
    /\ call[p] = Idle /\ begun < MaxCalls /\ begun' = begun + 1
    /\ \E kind \in Does[p] \cap {"edit", "mark"}, r \in Rules, d \in Dates, new \in Edits :
          /\ kind = "mark" => rules[r].exists /\ new = rules[r]
          /\ kind = "edit" => new # rules[r] /\ (rules[r].exists \/ new.active)
          /\ Become(p, [Call(kind, <<r, d>>, <<new>>) EXCEPT
                          !.step = IF kind = "mark" THEN "send" ELSE "point",
                          !.facts = [rule |-> rules[r]], !.fresh = {RuleDoc(r)}])
    /\ UNCHANGED <<vars, told, mishaps>>

Pointers(r, new) == LET freed == FreedRuledays(r) IN IF new.active THEN [freed EXCEPT ![new.weekday] = r] ELSE freed

\* The pointers of the two weekdays; another rule's is a conflict.
EditPoint(p) ==
    /\ Reading(p, "point") /\ call[p].kind = "edit"
    /\ LET c == call[p]
           new == c.arg[1]
           read == {c.facts.rule.weekday, new.weekday}
       IN Become(p, IF new.active /\ FreedRuledays(OriginOf(c.id))[new.weekday] \notin {NoRule, OriginOf(c.id)}
                    THEN Idle
                    ELSE [c EXCEPT !.step = "send", !.slot = ruledays,
                                   !.fresh = @ \cup {RuledayDoc(x) : x \in {y \in read : ruledays[y] # NoRule}}])

MovedPointers(r, new) == {x \in Weekdays : Pointers(r, new)[x] # ruledays[x]}
EditLands(c) ==
    LET r == OriginOf(c.id) IN
    /\ RuleDoc(r) \in c.fresh
    /\ c.kind = "edit" => \A x \in MovedPointers(r, c.arg[1]) :
                             ruledays[x] = c.slot[x] /\ (ruledays[x] # NoRule => RuledayDoc(x) \in c.fresh)

\* The watermark is no part of a rule here: set_materialized_through only renews its ETag.
EditSend(p) ==
    LET c == call[p]
        r == OriginOf(c.id)
        new == IF c.kind = "edit" THEN c.arg[1] ELSE rules[r]
    IN
    /\ c.step = "send" /\ c.kind \in {"edit", "mark"} /\ EditLands(c)
    /\ rules' = [rules EXCEPT ![r] = new]
    /\ ruledays' = IF c.kind = "edit" THEN Pointers(r, new) ELSE ruledays
    /\ Answered(p, {RuleDoc(r)} \cup {RuledayDoc(x) : x \in {y \in Weekdays : ruledays'[y] # ruledays[y]}}, told)
    /\ UNCHANGED <<rows, slots, ledger, userCutoff, now, working, skipWish, begun>>

\* Read again; an edit only while the stored version is the one it was made from.
EditStale(p) ==
    LET c == call[p]
        r == OriginOf(c.id)
    IN
    /\ Reading(p, "send") /\ c.kind \in {"edit", "mark"} /\ ~EditLands(c)
    /\ Become(p, CASE c.kind = "mark" -> [c EXCEPT !.fresh = {RuleDoc(r)}]
                   [] c.kind = "edit" /\ rules[r] = c.facts.rule -> [c EXCEPT !.step = "point", !.fresh = {RuleDoc(r)}]
                   [] OTHER -> Idle)

-----------------------------------------------------------------------------
(* Time, crashes, and the whole.                                           *)

\* A lease runs out without a write.
Expires(id) ==
    /\ LeaseExpires(id)
    /\ told' = {t \in told : t[2] # id}
    /\ UNCHANGED <<call, begun, mishaps>>

\* An owner whose answer was lost does not call again: its retries are spent, or it died.
GivesUp(p) ==
    /\ p \in Owners /\ call[p].step = "look"
    /\ Become(p, Idle) /\ working' = [working EXCEPT ![p] = NoRow]
    /\ told' = {t \in told : t[1] # p}
    /\ UNCHANGED <<rows, slots, rules, ruledays, ledger, userCutoff, now, skipWish, begun, mishaps>>

\* An active rule, whose row of the date is not created, is pending, was skipped, or was
\* withdrawn when the rule was off for a while; it may be past its cutoff.
CosmosInit ==
    \E r \in Rules, d \in Dates, status \in {"absent", "pending", "skipped", "withdrawn"} :
        /\ rules = [x \in Rules |-> [exists |-> x = r, active |-> x = r, weekday |-> IF x = r THEN Weekday(d) ELSE 0,
                                     cutoff |-> NoCutoff, want |-> AnyWant]]
        /\ ruledays = [w \in Weekdays |-> IF w = Weekday(d) THEN r ELSE NoRule]
        /\ rows = [id \in RowIds |->
                     IF id # <<r, d>> \/ status = "absent" THEN AbsentRow
                     ELSE [NewRow(status, AnyWant, CutoffAt(d, SiteCutoff)) EXCEPT
                             !.reason = IF status = "withdrawn" THEN "system" ELSE "none"]]
        /\ slots = [e \in Dates |-> IF e = d /\ status \in ActiveStatuses THEN <<r, d>> ELSE NoRow]
        /\ skipWish = IF status = "skipped" THEN {<<r, d>>} ELSE {}
        /\ ledger = [b \in Raws |-> "absent"] /\ userCutoff = NoCutoff /\ now \in Clocks
        /\ working = [o \in Owners |-> NoRow]
        /\ call = [p \in Processes |-> Idle] /\ told = {} /\ begun = 0 /\ mishaps = 0

CosmosNext ==
    \/ \E p \in Processes : Begin(p) \/ BeginEdit(p) \/ LookAgain(p) \/ Guard(p) \/ Point(p) \/ Send(p) \/ Stale(p)
    \/ \E p \in Processes : FlagSlot(p) \/ FlagActive(p) \/ Flag(p) \/ EditPoint(p) \/ EditSend(p) \/ EditStale(p)
    \/ \E p \in Processes : GivesUp(p)
    \/ \E id \in RowIds : Expires(id)

CosmosSpec == CosmosInit /\ [][CosmosNext]_cosmosVars

-----------------------------------------------------------------------------
(* Properties                                                              *)

\* p's batch lands in this step.
Landed(p) == call[p].step \in {"send", "flag"} /\ call'[p].step # call[p].step /\ vars' # vars

\* What the call decided on is still so when its batch lands.
StillSo(c) ==
    IF c.step = "flag"
    THEN c.slot = slots[DateOf(c.id)] /\ c.facts.flagged = (c.slot # NoRow /\ rows[c.slot].reconcile)
    ELSE c.facts = Facts(c)

\* The one step of TenantRows the call stands for.
InOneStep(p, c) ==
    LET id == c.id r == OriginOf(c.id) d == DateOf(c.id) IN
    CASE c.step = "flag"        -> /\ Refused(id, c.arg[1])
                                   /\ UNCHANGED <<rules, ruledays, userCutoff, now, working, skipWish>>
      [] c.kind = "insert"      -> InsertRuleRow(r, d)
      [] c.kind = "reactivate"  -> ReactivateRuleRow(r, d)
      [] c.kind = "rewrite"     -> RewritePendingRuleRow(r, d)
      [] c.kind = "drop"        -> WithdrawRuleRow(r, d)
      [] c.kind = "skip"        -> SkipRow(id)
      [] c.kind = "unskip"      -> UnskipRow(id)
      [] c.kind = "withdraw"    -> WithdrawExplicit(id)
      [] c.kind = "create"      -> CreateExplicitRow(r, d, NoCutoff)
      [] c.kind = "claim"       -> ClaimRow(p, id)
      [] c.kind = "acquire"     -> AcquireRowLease(p, id)
      [] c.kind = "release"     -> ReleaseRowLease(p, id)
      [] c.kind = "record" /\ c.step # "flag" -> RecordOutcome(p, id, c.arg[1])
      [] c.kind = "finalize"    -> /\ id \in FrozenPending /\ Write(id, Finalized(id))
                                   /\ UNCHANGED <<rules, ruledays, ledger, userCutoff, now, working, skipWish>>
      [] c.kind = "edit"        -> UpsertRule(r, c.arg[1])

\* "Reproduces InMemoryTenantStore exactly" (store.py 4): whatever lands between a call's
\* reads and its batch, the batch does in one step what the in-memory store's method does
\* in the state it lands in, as long as the few things the batch does not assert (Facts:
\* the date's history, the wish of the rule, the taken slot of an insert) are still so.
ImplementsTheStore ==
    [][\A p \in Processes : Landed(p) /\ StillSo(call[p]) => InOneStep(p, call[p])]_cosmosVars

\* A lease the store granted in an answer sticks until it is released, recorded on, or runs
\* out: no call that read the row before it, another owner's claim or an unleased write,
\* takes it or moves the row off it (acquire_row_lease 1062, _commit's IfMatch).
LeaseSticks ==
    \A t \in told : /\ rows[t[2]].live /\ rows[t[2]].owner = t[1]
                    /\ rows[t[2]].status \in {"pending", "booked"}

\* A rule row opens only under a rule that covers it WHEN ITS BATCH LANDS, though the rule
\* is read several reads earlier and its document is not part of the batch: the ruleday
\* pointer stands for it (the rule IfMatch, store.py 19-24).
CoveredWhenOpened ==
    [][\A id \in RowIds : IsRuleRow(id) /\ BecomesBookable(rows[id], rows'[id]) => Covered(id)]_cosmosVars
=============================================================================
