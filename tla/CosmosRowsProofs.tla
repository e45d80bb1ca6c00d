--------------------------- MODULE CosmosRowsProofs ---------------------------
(***************************************************************************)
(* Proofs about CosmosRows, for every value of its constants.  Between its *)
(* reads and its batch a call knows only what the ETags keep for it: a row *)
(* it read and nobody wrote is as it read it, but for a lease run out, and *)
(* an asserted ruleday pointer nobody moved still names the rule.  What a  *)
(* batch does to the slots, the leases and the rules follows from that,    *)
(* and so does the refinement: a batch whose unasserted facts still hold   *)
(* does in one step what the in-memory store's method does there.          *)
(***************************************************************************)
EXTENDS CosmosRows, TenantRowsProofs

EditKinds == {"edit", "mark"}

\* A call is one kind of record, whatever its facts are.
Shape(c) == c = [kind |-> c.kind, id |-> c.id, arg |-> c.arg, step |-> c.step, fresh |-> c.fresh,
                 reads |-> c.reads, facts |-> c.facts, pointers |-> c.pointers, slot |-> c.slot]

\* Who makes which call about what, and where in the call that is.
Form(p, c) ==
    /\ c.kind \in Kinds /\ c.id \in RowIds /\ c.reads \subseteq RowIds
    /\ c.kind \in LeasedKinds => p \in Owners
    /\ c.kind = "claim" => ActorOf[p] = "runner"
    /\ c.kind = "record" => c.arg[1] \in Outcomes(ActorOf[p])
    /\ c.kind \in {"insert", "reactivate", "rewrite", "drop"} \cup EditKinds => IsRuleRow(c.id)
    /\ c.kind \in {"withdraw", "create"} => ~IsRuleRow(c.id)
    /\ c.kind = "create" => p \notin Owners
    /\ c.kind \in EditKinds => c.arg[1] \in Edits /\ c.step \in {"look", "point", "send"}
    /\ c.kind = "mark" => c.step # "point"
    /\ c.step \in {"look", "guard", "point", "send", "slot", "active", "flag"}
    /\ c.step \in {"slot", "active", "flag"} => c.kind = "record"

\* What its caller sees to all along: an owner works on the row it calls about (after a
\* release whose answer was lost the row is no longer its own), an outcome drops what was
\* ledgered, and a one-off is the only row of its origin.
Steady(p, c) ==
    /\ c.kind \in {"claim", "acquire"} => working[p] \in {NoRow, c.id}
    /\ c.kind = "record" => working[p] = c.id /\ Drops(p, c.arg[1])
    /\ c.kind = "release" => working[p] = c.id \/ (working[p] = NoRow /\ rows[c.id].owner # p)
    /\ c.kind = "create" => \A x \in RowIds : OriginOf(x) = OriginOf(c.id) => rows[x].status = "absent"

\* The rows a call read are on its date; its facts have their types, and are such that it
\* goes on.  A date found closed stays closed.
Read(c) ==
    /\ \A x \in c.reads : DateOf(x) = DateOf(c.id)
    /\ CASE c.kind = "insert"   -> c.reads = {}
         [] c.kind = "create"   -> TRUE
         [] c.kind = "withdraw" -> c.reads = {c.id} \cup c.facts.back
         [] OTHER               -> c.reads = {c.id}
    /\ c.kind \in {"insert", "reactivate", "rewrite"} => c.facts.want \in Wants
    /\ c.kind \in {"insert", "reactivate"} => c.facts.at \in Int /\ ~c.facts.closed
    /\ c.kind = "insert" => ~Frozen(DateOf(c.id), c.facts.at)
    /\ c.kind = "create" => ~Frozen(DateOf(c.id), CutoffAt(DateOf(c.id), SiteCutoff))
    /\ c.kind \in {"rewrite", "skip", "unskip"} => (c.facts.closed => DateClosed(DateOf(c.id)))
    /\ c.kind = "withdraw" => /\ \A x \in c.facts.back : IsRuleRow(x)
                              /\ \A x \in c.facts.back : c.facts.want[x] \in Wants

\* The statuses a call goes on with, of a row it read.
Seen(c, x) ==
    CASE c.kind = "reactivate" -> {"withdrawn"}
      [] c.kind = "rewrite"    -> {"pending"}
      [] c.kind = "skip"       -> {"pending", "superseded"}
      [] c.kind = "unskip"     -> {"skipped", "superseded"}
      [] c.kind = "withdraw"   -> IF x = c.id THEN {"pending", "superseded"} ELSE {"superseded", "withdrawn"}
      [] c.kind = "drop"       -> {"pending", "superseded"}
      [] c.kind = "create"     -> {"pending", "skipped"}
      [] c.kind = "finalize"   -> {"pending"}
      [] c.kind = "claim"      -> {"pending"}
      [] c.kind = "acquire"    -> {"pending", "booked"}
      [] c.kind = "record"     -> IF c.arg[1].to = "same" THEN Statuses ELSE {"pending", "booked"}
      [] OTHER                 -> Statuses

\* What it found the row fit for.
Passed(p, c, x) ==
    CASE c.kind = "reactivate" ->
            MayTransition(x, [rows[x] EXCEPT !.cutoff = c.facts.at], Prior(rows[x]), "materializer", "none", FALSE)
      [] c.kind \in {"skip", "unskip", "withdraw", "drop"} -> x = c.id => Movable(x, Transitions[c.kind])
      [] c.kind = "create"   -> MayTransition(x, rows[x], "superseded", "web", "none", FALSE)
      [] c.kind = "rewrite"  -> ~Frozen(DateOf(x), rows[x].cutoff)
      [] c.kind = "finalize" -> Frozen(DateOf(x), rows[x].cutoff)
      [] c.kind = "release"  -> rows[x].owner = p
      [] c.kind = "record"   -> /\ rows[x].live => c.facts.live
                                /\ c.facts.live = rows[x].live => Accepted(p, x, c.arg[1])
      [] OTHER               -> TRUE

\* What it knows of a row nobody wrote since.
Knows(p, c, x) ==
    RowDoc(x) \in c.fresh => /\ rows[x].live => c.kind \in LeasedKinds /\ rows[x].owner = p
                             /\ rows[x].status \in Seen(c, x)
                             /\ Passed(p, c, x)

\* The rule rows its batch may open, with those it inserts or rewrites under their rule.
Opening(c, x) ==
    /\ IsRuleRow(x)
    /\ CASE c.kind \in {"insert", "reactivate", "rewrite", "unskip"} -> x = c.id
         [] c.kind = "skip"     -> x = c.id /\ rows[x].status = "superseded"
         [] c.kind = "withdraw" -> x \in c.facts.back
         [] OTHER               -> FALSE
Sure(c, x) == Opening(c, x) /\ (x \in c.reads => RowDoc(x) \in c.fresh)

\* The guard found the date open.
Guarded(c, x) == Sure(c, x) /\ c.kind \in {"rewrite", "skip", "unskip"} => ~c.facts.closed

\* The pointer that stands for the rule of a row it may open.
Stands(c, x) ==
    /\ RuledayDoc(Weekday(DateOf(x))) \in c.pointers
    /\ c.pointers \subseteq c.fresh => ruledays[Weekday(DateOf(x))] = OriginOf(x)
Asserts(c, x) == Sure(c, x) => Stands(c, x)

\* What an edit may still count on.
EditKnows(c) ==
    LET new == c.arg[1] r == OriginOf(c.id) IN
    /\ rules[r].exists \/ new.active
    /\ c.step = "send" /\ new.active => c.slot[new.weekday] \in {NoRule, r}

\* The row a refused outcome will flag: the one the slot named, unless it was flagged.
Flagging(c) ==
    /\ c.step = "active" => c.reads = IF c.slot = NoRow THEN {} ELSE {c.slot}
    /\ c.step = "flag" => \/ c.slot # NoRow /\ c.reads = {c.slot}
                          \/ c.reads = {} /\ (c.slot # NoRow => c.facts.flagged)

CallOK(p, c) ==
    /\ Shape(c) /\ Form(p, c) /\ Steady(p, c) /\ Flagging(c)
    /\ c.step \in {"guard", "point", "send"} /\ c.kind \notin EditKinds
          => Read(c) /\ \A x \in c.reads : Knows(p, c, x)
    /\ c.step \in {"point", "send"} /\ c.kind \notin EditKinds => \A x \in RowIds : Guarded(c, x)
    /\ c.step = "send" /\ c.kind \notin EditKinds => \A x \in RowIds : Asserts(c, x)
    /\ c.kind = "edit" => EditKnows(c)

\* Whose one-off this is going to be.
Creates(p, o) == call[p].kind = "create" /\ OriginOf(call[p].id) = o
Lone(p, c) == c.kind = "create" => \A q \in Processes \ {p} : ~Creates(q, OriginOf(c.id))

CallsOK == /\ call = [p \in Processes |-> call[p]]
           /\ \A p \in Processes : call[p] = Idle \/ CallOK(p, call[p])
           /\ \A p \in Processes : Lone(p, call[p])

\* A rule that is active is there; the account has no cutoff setting of its own.
Settled == userCutoff = NoCutoff /\ \A r \in Rules : rules[r].active => rules[r].exists

ToldOK == told \subseteq Owners \X RowIds /\ LeaseSticks

CosmosInv == TypeOK /\ OneActiveRowPerDate /\ RuledayAgreement /\ Settled /\ ToldOK /\ CallsOK

-----------------------------------------------------------------------------
(* What other calls' batches leave a call.                                 *)

\* A row but for a lease that runs out.
AsRead(old, new) ==
    /\ new.status = old.status /\ new.reason = old.reason /\ new.from = old.from /\ new.cutoff = old.cutoff
    /\ new.owner = old.owner /\ (new.live => old.live)

\* A step that writes these documents leaves everything else as it was, but for leases
\* that run out; and what is stored, closed or ledgered once stays so.
DocFrame(docs) ==
    /\ \A x \in RowIds : RowDoc(x) \notin docs => AsRead(rows[x], rows'[x])
    /\ \A w \in Weekdays : RuledayDoc(w) \notin docs => ruledays'[w] = ruledays[w]
    /\ \A r \in Rules : rules[r].exists => rules'[r].exists
    /\ \A d \in Dates : DateClosed(d) => DateClosed(d)'
    /\ \A b \in Raws : ledger[b] # "absent" => ledger'[b] # "absent"
    /\ now' = now

\* A step of p gives a lease to no other owner, and makes no other call's one-off.
OwnFrame(p) ==
    /\ \A q \in Owners \ {p} : working'[q] = working[q] /\ \A x \in RowIds : rows'[x].owner = q => rows[x].owner = q
    /\ \A x \in RowIds : rows[x].status = "absent"
          => rows'[x].status = "absent" \/ IsRuleRow(x) \/ Creates(p, OriginOf(x))

LEMMA DocsApart ==
  /\ \A x, y : RowDoc(x) = RowDoc(y) => x = y
  /\ \A x, y : RowDoc(x) # RuledayDoc(y) /\ RowDoc(x) # SlotDoc(y) /\ RuledayDoc(x) # SlotDoc(y)
BY DEF RowDoc, RuledayDoc, SlotDoc

LEMMA WeekdayType ==
  ASSUME NEW x \in RowIds
  PROVE  DateOf(x) \in Dates /\ Weekday(DateOf(x)) \in Weekdays
<1>1. DateOf(x) \in Dates /\ DateOf(x) \in Nat
  BY RowIdFacts, TimeAssumption
<1> QED  BY <1>1, TimeAssumption DEF Weekday, Weekdays

\* What a call passed on a row it passes on the row after a lease ran out.
LEMMA PassedFrame ==
  ASSUME TypeOK, TypeOK', NEW q, NEW c, Form(q, c), Read(c), now' = now, NEW x \in c.reads, Passed(q, c, x),
         AsRead(rows[x], rows'[x]),
         NEW d, d.kind = c.kind, d.id = c.id, d.arg = c.arg, d.facts = c.facts
  PROVE  Passed(q, d, x)'
<1>1. PICK old \in Row : old = rows[x]  BY StoredRow DEF Form
<1>2. rows'[x] \in Row
  <2>1. x \in RowIds  BY DEF Form
  <2> QED  BY <2>1 DEF TypeOK
<1>3. PICK new \in Row : new = rows'[x] /\ AsRead(old, new)  BY <1>1, <1>2
<1>4. \A to, actor, reason, flag : MayTransition(x, old, to, actor, reason, flag)
                                      => MayTransition(x, new, to, actor, reason, flag)'
  BY <1>3 DEF AsRead, MayTransition, Frozen, Today, Prior
<1>5. CASE c.kind = "reactivate"
  <2>1. PICK at \in Int : at = c.facts.at  BY <1>5 DEF Read
  <2>2. PICK a \in Row : a = [old EXCEPT !.cutoff = at]  BY DEF Row
  <2>3. PICK b \in Row : b = [new EXCEPT !.cutoff = at]  BY DEF Row
  <2>4. AsRead(a, b)  BY <1>3, <2>2, <2>3 DEF AsRead, Row
  <2>5. MayTransition(x, a, Prior(old), "materializer", "none", FALSE)  BY <1>1, <1>5, <2>1, <2>2 DEF Passed
  <2>6. Prior(old) = Prior(new)  BY <1>3 DEF AsRead, Prior
  <2>7. MayTransition(x, b, Prior(new), "materializer", "none", FALSE)'
    BY <2>4, <2>5, <2>6 DEF AsRead, MayTransition, Frozen, Today, Prior
  <2> QED  BY <1>3, <1>5, <2>1, <2>3, <2>7 DEF Passed
<1>6. CASE c.kind \in {"skip", "unskip", "withdraw", "drop"}
  <2>1. PICK t : t = Transitions[c.kind]  OBVIOUS
  <2>2. x = c.id => MayTransition(x, old, t.to, t.actor, t.reason, FALSE)  BY <1>1, <1>6, <2>1 DEF Passed, Movable
  <2>3. x = c.id => MayTransition(x, new, t.to, t.actor, t.reason, FALSE)'  BY <1>4, <2>2
  <2> QED  BY <1>3, <1>6, <2>1, <2>3 DEF Passed, Movable
<1>7. CASE c.kind = "create"
  <2>1. MayTransition(x, old, "superseded", "web", "none", FALSE)  BY <1>1, <1>7 DEF Passed
  <2>2. MayTransition(x, new, "superseded", "web", "none", FALSE)'  BY <1>4, <2>1
  <2> QED  BY <1>3, <1>7, <2>2 DEF Passed
<1>8. CASE c.kind \in {"rewrite", "finalize", "release"}
  BY <1>1, <1>3, <1>8 DEF Passed, AsRead, Frozen, Today
<1>9. CASE c.kind = "record"
  <2>1. PICK o : o = c.arg[1]  OBVIOUS
  <2>2. (old.live => c.facts.live) /\ (c.facts.live = old.live => Accepted(q, x, o))  BY <1>1, <1>9, <2>1 DEF Passed
  <2>3. ASSUME c.facts.live = new.live PROVE Accepted(q, x, o)'
    <3>1. c.facts.live = old.live /\ new.live = old.live  BY <1>3, <2>2, <2>3 DEF AsRead, Row
    <3>2. Accepted(q, x, o)  BY <2>2, <3>1
    <3>3. CASE o.to = "same"
      <4>1. LeaseFree(x, q)  BY <3>2, <3>3 DEF Accepted
      <4> QED  BY <1>1, <1>3, <3>3, <4>1 DEF Accepted, LeaseFree, LeaseHeld, AsRead
    <3>4. CASE o.to # "same"
      <4>1. <<old.status, o.to, ActorOf[q]>> \in LeasedEdges /\ Holder(q, x)
            /\ MayTransition(x, old, o.to, ActorOf[q], o.reason, o.reconcile)
        BY <1>1, <3>2, <3>4 DEF Accepted
      <4>2. MayTransition(x, new, o.to, ActorOf[q], o.reason, o.reconcile)'  BY <1>4, <4>1
      <4>3. Holder(q, x)'  BY <1>1, <1>3, <3>1, <4>1 DEF Holder, LeaseHeld, AsRead
      <4>4. <<new.status, o.to, ActorOf[q]>> \in LeasedEdges  BY <1>3, <4>1 DEF AsRead
      <4> QED  BY <1>3, <3>4, <4>2, <4>3, <4>4 DEF Accepted
    <3> QED  BY <3>3, <3>4
  <2>4. new.live => c.facts.live  BY <1>3, <2>2 DEF AsRead
  <2> QED  BY <1>3, <1>9, <2>1, <2>3, <2>4 DEF Passed
<1>10. CASE c.kind \notin {"reactivate", "skip", "unskip", "withdraw", "drop", "create", "rewrite", "finalize",
                           "release", "record"}
  BY <1>10 DEF Passed
<1> QED  BY <1>5, <1>6, <1>7, <1>8, <1>9, <1>10

\* What a call still knows after a step that wrote docs, with the ETags of docs gone.
LEMMA CallFrame ==
  ASSUME TypeOK, TypeOK', NEW q, NEW c, CallOK(q, c), Steady(q, c)', NEW docs, DocFrame(docs),
         NEW d, Shape(d), d.kind = c.kind, d.id = c.id, d.arg = c.arg, d.step = c.step, d.reads = c.reads,
         d.facts = c.facts, d.pointers = c.pointers, d.slot = c.slot,
         d.fresh \subseteq c.fresh, d.fresh \cap docs = {}
  PROVE  CallOK(q, d)'
<1>1. Form(q, d)' /\ Steady(q, d)' /\ Flagging(d)'
  <2>1. Form(q, c) /\ Flagging(c)  BY DEF CallOK
  <2>2. Form(q, d)'  BY <2>1 DEF Form
  <2>3. Steady(q, d)'  BY DEF Steady
  <2>4. Flagging(d)'  BY <2>1 DEF Flagging
  <2> QED  BY <2>2, <2>3, <2>4
<1>2. c.reads \subseteq RowIds /\ c.id \in RowIds /\ DateOf(c.id) \in Dates /\ Form(q, c)
  BY RowIdFacts DEF CallOK, Form
<1>3. ASSUME d.step \in {"guard", "point", "send"}, d.kind \notin EditKinds
      PROVE  Read(d)' /\ \A x \in d.reads : Knows(q, d, x)'
  <2>1. Read(d)'
    <3>1. Read(c)  BY <1>3 DEF CallOK
    <3>2. now' = now /\ (DateClosed(DateOf(c.id)) => DateClosed(DateOf(c.id))')  BY <1>2 DEF DocFrame
    <3>3. \A at : ~Frozen(DateOf(c.id), at) => ~Frozen(DateOf(c.id), at)'  BY <3>2 DEF Frozen, Today
    <3> QED  BY <3>1, <3>2, <3>3 DEF Read
  <2>2. ASSUME NEW x \in d.reads, RowDoc(x) \in d.fresh
        PROVE  (rows'[x].live => d.kind \in LeasedKinds /\ rows'[x].owner = q) /\ rows'[x].status \in Seen(d, x)
               /\ Passed(q, d, x)'
    <3>1. x \in RowIds /\ x \in c.reads /\ RowDoc(x) \in c.fresh /\ RowDoc(x) \notin docs  BY <1>2, <2>2
    <3>2. Knows(q, c, x) /\ Read(c)  BY <1>3, <3>1 DEF CallOK
    <3>3. Seen(d, x) = Seen(c, x)  BY DEF Seen
    <3>4. AsRead(rows[x], rows'[x]) /\ now' = now  BY <3>1 DEF DocFrame
    <3>5. Passed(q, d, x)'  BY <1>2, <3>1, <3>2, <3>4, PassedFrame DEF Knows
    <3> QED  BY <3>1, <3>2, <3>3, <3>4, <3>5 DEF Knows, AsRead
  <2> QED  BY <2>1, <2>2 DEF Knows
<1>4. ASSUME d.step \in {"guard", "point", "send"}, d.kind \notin EditKinds, NEW x \in RowIds, Sure(d, x)'
      PROVE  Sure(c, x)
  <2>1. Opening(c, x)
    <3>1. CASE c.kind = "skip"
      <4>1. Read(c)  BY <1>4, <3>1 DEF CallOK
      <4>2. x = c.id /\ x \in c.reads /\ rows'[x].status = "superseded"
        BY <1>4, <3>1, <4>1 DEF Sure, Opening, Read
      <4>3. RowDoc(x) \notin docs  BY <1>4, <4>2 DEF Sure
      <4> QED  BY <1>4, <3>1, <4>2, <4>3 DEF Sure, Opening, DocFrame, AsRead
    <3>2. CASE c.kind # "skip"  BY <1>4, <3>2 DEF Sure, Opening
    <3> QED  BY <3>1, <3>2
  <2> QED  BY <1>4, <2>1 DEF Sure
<1>5. ASSUME d.step \in {"point", "send"}, d.kind \notin EditKinds, NEW x \in RowIds
      PROVE  Guarded(d, x)'
  <2>1. Guarded(c, x)  BY <1>5 DEF CallOK
  <2>2. Sure(d, x)' => Sure(c, x)  BY <1>4, <1>5
  <2> QED  BY <2>1, <2>2 DEF Guarded
<1>6. ASSUME d.step = "send", d.kind \notin EditKinds, NEW x \in RowIds
      PROVE  Asserts(d, x)'
  <2> SUFFICES ASSUME Sure(d, x)' PROVE Stands(d, x)'  BY DEF Asserts
  <2>1. Sure(c, x)  BY <1>4, <1>6
  <2>2. Stands(c, x)  BY <1>6, <2>1 DEF CallOK, Asserts
  <2>3. Weekday(DateOf(x)) \in Weekdays  BY WeekdayType
  <2>4. d.pointers \subseteq d.fresh => c.pointers \subseteq c.fresh /\ RuledayDoc(Weekday(DateOf(x))) \notin docs
    BY <2>2 DEF Stands
  <2> QED  BY <2>2, <2>3, <2>4 DEF Stands, DocFrame
<1>7. ASSUME d.kind = "edit" PROVE EditKnows(d)'
  <2>1. EditKnows(c) /\ OriginOf(c.id) \in Rules  BY <1>7 DEF CallOK, Form, EditKinds, IsRuleRow
  <2> QED  BY <2>1 DEF EditKnows, DocFrame
<1> QED  BY <1>1, <1>3, <1>5, <1>6, <1>7 DEF CallOK

\* What another call's caller sees to, a step of p leaves so.
LEMMA SteadyFrame ==
  ASSUME NEW p \in Processes, NEW docs, DocFrame(docs), OwnFrame(p),
         NEW q \in Processes, q # p, NEW c, Form(q, c), Steady(q, c),
         c.kind = "create" => ~Creates(p, OriginOf(c.id))
  PROVE  Steady(q, c)'
<1>1. CASE c.kind \in LeasedKinds
  <2>1. q \in Owners /\ c.id \in RowIds  BY <1>1 DEF Form
  <2>2. working'[q] = working[q] /\ (rows'[c.id].owner = q => rows[c.id].owner = q)  BY <2>1 DEF OwnFrame
  <2>3. c.kind = "record" => (Drops(q, c.arg[1]) => Drops(q, c.arg[1])')
    <3>1. ASSUME c.kind = "record" PROVE c.arg[1].dropped \subseteq Raws
      <4>1. c.arg[1] \in OutcomeType  BY <2>1, <3>1, OutcomesType, OwnerAssumption DEF Form
      <4> QED  BY <4>1 DEF OutcomeType
    <3> QED  BY <3>1 DEF Drops, DocFrame
  <2> QED  BY <1>1, <2>2, <2>3 DEF Steady, LeasedKinds
<1>2. CASE c.kind = "create"
  <2> SUFFICES ASSUME NEW x \in RowIds, OriginOf(x) = OriginOf(c.id) PROVE rows'[x].status = "absent"
    BY <1>2 DEF Steady
  <2>1. ~IsRuleRow(x) /\ ~Creates(p, OriginOf(x))  BY <1>2 DEF Form, IsRuleRow
  <2>2. rows[x].status = "absent"  BY <1>2 DEF Steady
  <2> QED  BY <2>1, <2>2 DEF OwnFrame
<1>3. CASE c.kind \notin LeasedKinds \cup {"create"}  BY <1>3 DEF Steady, LeasedKinds
<1> QED  BY <1>1, <1>2, <1>3

\* A process goes on to d, and the calls of the others lose the ETags of docs.
LEMMA WrittenCalls ==
  ASSUME TypeOK, TypeOK', CallsOK, NEW p \in Processes, NEW docs, DocFrame(docs), OwnFrame(p),
         NEW d, d = Idle \/ CallOK(p, d)', d.kind = "create" => Creates(p, OriginOf(d.id)), Stamp(p, d, docs)
  PROVE  CallsOK'
<1>1. call' = [r \in Processes |-> IF r = p THEN d ELSE [call[r] EXCEPT !.fresh = @ \ docs]]  BY DEF Stamp
<1>2. ASSUME NEW q \in Processes, q # p
      PROVE  /\ call'[q] = Idle \/ CallOK(q, call[q])'
             /\ call'[q].kind = call[q].kind
             /\ call[q].kind = "create" => call'[q].id = call[q].id
  <2>1. PICK c : c = call[q]  OBVIOUS
  <2>2. PICK e : e = [c EXCEPT !.fresh = @ \ docs]  OBVIOUS
  <2>3. call'[q] = e  BY <1>1, <1>2, <2>1, <2>2
  <2>4. CASE c = Idle
    <3>1. c = [kind |-> "none", step |-> "idle", fresh |-> {}]  BY <2>4 DEF Idle
    <3>2. e = [kind |-> "none", step |-> "idle", fresh |-> {}]  BY <2>2, <3>1
    <3>3. c.kind = "none" /\ e.kind = "none" /\ e = Idle  BY <3>1, <3>2 DEF Idle
    <3> QED  BY <2>1, <2>3, <3>3
  <2>5. CASE CallOK(q, c)
    <3>1. Shape(c) /\ Form(q, c) /\ Steady(q, c)  BY <2>5 DEF CallOK
    <3>2. /\ Shape(e) /\ e.kind = c.kind /\ e.id = c.id /\ e.arg = c.arg /\ e.step = c.step
          /\ e.reads = c.reads /\ e.facts = c.facts /\ e.pointers = c.pointers /\ e.slot = c.slot
          /\ e.fresh = c.fresh \ docs
      BY <2>2, <3>1 DEF Shape
    <3>3. e.fresh \subseteq c.fresh /\ e.fresh \cap docs = {}  BY <3>2
    <3>4. c.kind = "create" => ~Creates(p, OriginOf(c.id))  BY <1>2, <2>1 DEF CallsOK, Lone
    <3>5. Steady(q, c)'  BY <1>2, <3>1, <3>4, SteadyFrame
    <3>6. CallOK(q, e)'  BY <2>5, <3>2, <3>3, <3>5, CallFrame
    <3> QED  BY <2>1, <2>3, <3>2, <3>6
  <2>6. c = Idle \/ CallOK(q, c)  BY <2>1 DEF CallsOK
  <2> QED  BY <2>4, <2>5, <2>6
<1>3. call'[p] = d  BY <1>1
<1>4. ASSUME NEW q \in Processes PROVE call'[q] = Idle \/ CallOK(q, call[q])'  BY <1>2, <1>3
<1>5. \A o : \A q \in Processes : Creates(q, o)' => Creates(q, o)
  <2>1. \A o : Creates(p, o)' => Creates(p, o)  BY <1>3 DEF Creates
  <2>2. \A q \in Processes : q # p => \A o : Creates(q, o)' => Creates(q, o)  BY <1>2 DEF Creates
  <2> QED  BY <2>1, <2>2
<1>6. \A q \in Processes : Lone(q, call[q])'
  <2> SUFFICES ASSUME NEW q \in Processes, NEW r \in Processes \ {q}, call'[q].kind = "create",
                      Creates(r, OriginOf(call[q].id))'
               PROVE  FALSE
    BY DEF Lone
  <2>1. PICK o : o = OriginOf(call'[q].id)  OBVIOUS
  <2>2. Creates(q, o)' /\ Creates(r, o)'  BY <2>1 DEF Creates
  <2>3. Creates(q, o) /\ Creates(r, o)  BY <1>5, <2>2
  <2> QED  BY <2>3 DEF CallsOK, Lone, Creates
<1>7. call' = [r \in Processes |-> call'[r]]  BY <1>1
<1> QED  BY <1>4, <1>6, <1>7 DEF CallsOK

\* A step that writes nothing keeps what every call knows.
LEMMA QuietCall ==
  ASSUME TypeOK, NEW p, NEW c, CallOK(p, c),
         UNCHANGED <<rows, slots, rules, ruledays, ledger, userCutoff, now, working, skipWish>>
  PROVE  CallOK(p, c)'
<1>1. DocFrame({})  BY DEF DocFrame, AsRead, DateClosed
<1>2. Shape(c) /\ Steady(p, c)  BY DEF CallOK
<1>3. Steady(p, c)'  BY <1>2 DEF Steady, Drops
<1>4. c.fresh \subseteq c.fresh /\ c.fresh \cap {} = {}  OBVIOUS
<1>5. TypeOK'  BY DEF TypeOK
<1> QED  BY <1>1, <1>2, <1>3, <1>4, <1>5, CallFrame

\* A step that only reads: p goes on to d.
LEMMA ReadStep ==
  ASSUME CosmosInv, NEW p \in Processes, NEW d, d = Idle \/ CallOK(p, d), Lone(p, d), Become(p, d),
         UNCHANGED <<vars, told>>
  PROVE  CosmosInv'
<1>1. /\ UNCHANGED <<rows, slots, rules, ruledays, ledger, userCutoff, now, working, skipWish>> /\ UNCHANGED told
  BY DEF vars
<1>2. TypeOK' /\ OneActiveRowPerDate' /\ RuledayAgreement' /\ Settled'
  BY <1>1 DEF CosmosInv, TypeOK, OneActiveRowPerDate, SlotAgreement, SlotsInPlace, Active, RuledayAgreement, Settled
<1>3. ToldOK'  BY <1>1 DEF CosmosInv, ToldOK, LeaseSticks
<1>4. /\ call = [q \in Processes |-> call[q]] /\ \A q \in Processes : call[q] = Idle \/ CallOK(q, call[q])
      /\ \A q \in Processes : Lone(q, call[q])
  BY DEF CosmosInv, CallsOK
<1>5. call' = [call EXCEPT ![p] = d]  BY DEF Become
<1>6. ASSUME NEW q \in Processes PROVE call'[q] = Idle \/ CallOK(q, call[q])'
  <2>1. PICK c : c = IF q = p THEN d ELSE call[q]  OBVIOUS
  <2>2. call'[q] = c  BY <1>4, <1>5, <2>1
  <2>3. c = Idle \/ CallOK(q, c)  BY <1>4, <2>1
  <2>4. CASE c = Idle  BY <2>2, <2>4
  <2>5. CASE CallOK(q, c)
    <3>1. CallOK(q, c)'  BY <1>1, <2>5, QuietCall DEF CosmosInv
    <3> QED  BY <2>2, <3>1
  <2> QED  BY <2>3, <2>4, <2>5
<1>7. call' = [q \in Processes |-> call'[q]]  BY <1>4, <1>5
<1>8. \A q \in Processes : Lone(q, call[q])'
  <2> SUFFICES ASSUME NEW q \in Processes, NEW r \in Processes \ {q}, call'[q].kind = "create",
                      Creates(r, OriginOf(call[q].id))'
               PROVE  FALSE
    BY DEF Lone
  <2>1. PICK o : o = OriginOf(call'[q].id)  OBVIOUS
  <2>2. call'[r].kind = "create" /\ OriginOf(call'[r].id) = o  BY <2>1 DEF Creates
  <2>3. \A x \in Processes : call'[x] = IF x = p THEN d ELSE call[x]  BY <1>4, <1>5
  <2>4. CASE q = p
    <3>1. r # p /\ call'[q] = d /\ call'[r] = call[r]  BY <2>3, <2>4
    <3> QED  BY <2>1, <2>2, <2>4, <3>1 DEF Lone, Creates
  <2>5. CASE r = p
    <3>1. q # p /\ call'[r] = d /\ call'[q] = call[q]  BY <2>3, <2>5
    <3> QED  BY <2>1, <2>2, <2>5, <3>1 DEF Lone, Creates
  <2>6. CASE q # p /\ r # p
    <3>1. call'[q] = call[q] /\ call'[r] = call[r]  BY <2>3, <2>6
    <3> QED  BY <1>4, <2>1, <2>2, <3>1 DEF Lone, Creates
  <2> QED  BY <2>4, <2>5, <2>6
<1>9. CallsOK'  BY <1>6, <1>7, <1>8 DEF CallsOK
<1> QED  BY <1>2, <1>3, <1>9 DEF CosmosInv

\* What a call goes on to is about the row it was about; what it ends in is no call.
LEMMA StaysLone ==
  ASSUME CosmosInv, NEW p \in Processes, NEW d,
         d.kind = "create" => d.kind = call[p].kind /\ d.id = call[p].id
  PROVE  Lone(p, d)
BY DEF CosmosInv, CallsOK, Lone

-----------------------------------------------------------------------------
(* What a call knows of what it reads.                                     *)

\* The edges a transition of the store may take leave few statuses to start from.
LEMMA EdgesFrom ==
  ASSUME NEW id, NEW row, NEW reason
  PROVE  /\ MayTransition(id, row, "skipped", "web", reason, FALSE) => row.status \in {"pending", "superseded"}
         /\ MayTransition(id, row, "pending", "web", reason, FALSE) => row.status \in {"skipped", "superseded"}
         /\ MayTransition(id, row, "withdrawn", "web", reason, FALSE) => row.status \in {"pending", "superseded"}
         /\ MayTransition(id, row, "withdrawn", "materializer", reason, FALSE) => row.status \in {"pending", "superseded"}
         /\ MayTransition(id, row, "superseded", "web", reason, FALSE) => row.status \in {"pending", "skipped"}
         /\ \A to \in {"pending", "skipped"} :
               MayTransition(id, row, to, "materializer", reason, FALSE) => row.status = "withdrawn"
BY DEF MayTransition, TransitionOwners

\* The call reads rows of its date.
LEMMA HeldRows ==
  ASSUME TypeOK, OneActiveRowPerDate, NEW p, NEW c, Form(p, c), NEW x \in Held(c)
  PROVE  x \in RowIds /\ DateOf(x) = DateOf(c.id)
<1>1. c.id \in RowIds /\ DateOf(c.id) \in Dates  BY RowIdFacts DEF Form
<1>2. CASE c.kind = "withdraw"
  <2>1. x = c.id \/ x \in Restorable(DateOf(c.id))  BY <1>2 DEF Held
  <2> QED  BY <1>1, <2>1, RestoredType
<1>3. CASE c.kind = "create"
  <2>1. slots[DateOf(c.id)] # NoRow /\ x = slots[DateOf(c.id)]  BY <1>3 DEF Held, Displaced
  <2>2. x \in RowIds  BY <1>1, <2>1 DEF TypeOK
  <2>3. DateOf(x) = DateOf(c.id)  BY <1>1, <2>1 DEF OneActiveRowPerDate, SlotsInPlace
  <2> QED  BY <2>2, <2>3
<1>4. CASE c.kind \notin {"withdraw", "create"}
  <2>1. c.kind # "insert"  BY DEF Held
  <2>2. x = c.id  BY <1>4, <2>1 DEF Held
  <2> QED  BY <1>1, <2>2
<1> QED  BY <1>2, <1>3, <1>4

\* What it goes on with: no row under another's lease, each in a status the call is for.
LEMMA AllowedRows ==
  ASSUME TypeOK, NEW p, NEW c, Form(p, c), c.kind \notin EditKinds, Allowed(p, c), NEW x \in Held(c)
  PROVE  (rows[x].live => c.kind \in LeasedKinds /\ rows[x].owner = p) /\ rows[x].status \in Seen(c, x)
<1>1. CASE c.kind \in {"claim", "acquire"}
  <2>1. Leasable(p, c) /\ x = c.id  BY <1>1 DEF Allowed, Held, LeasedKinds
  <2>2. LeaseFree(c.id, p) /\ rows[c.id].status \in (IF c.kind = "claim" THEN {"pending"} ELSE {"pending", "booked"})
    BY <1>1, <2>1 DEF Leasable
  <2>3. Seen(c, x) = IF c.kind = "claim" THEN {"pending"} ELSE {"pending", "booked"}  BY <1>1 DEF Seen
  <2> QED  BY <1>1, <2>1, <2>2, <2>3 DEF LeaseFree, LeaseHeld, LeasedKinds
<1>2. CASE c.kind = "release"
  <2>1. Leasable(p, c) /\ x = c.id  BY <1>2 DEF Allowed, Held, LeasedKinds
  <2>2. rows[c.id].owner = p  BY <1>2, <2>1 DEF Leasable
  <2>3. Seen(c, x) = Statuses  BY <1>2 DEF Seen
  <2>4. rows[c.id].status \in Statuses  BY StoredRow DEF Form, Row
  <2> QED  BY <1>2, <2>1, <2>2, <2>3, <2>4 DEF LeasedKinds
<1>3. CASE c.kind = "record"
  <2>1. Leasable(p, c) /\ x = c.id  BY <1>3 DEF Allowed, Held, LeasedKinds
  <2>2. Accepted(p, c.id, c.arg[1])  BY <1>3, <2>1 DEF Leasable
  <2>3. Seen(c, x) = IF c.arg[1].to = "same" THEN Statuses ELSE {"pending", "booked"}  BY <1>3 DEF Seen
  <2>4. rows[c.id].status \in Statuses  BY StoredRow DEF Form, Row
  <2>5. CASE c.arg[1].to = "same"
    <3>1. LeaseFree(c.id, p)  BY <2>2, <2>5 DEF Accepted
    <3> QED  BY <1>3, <2>1, <2>3, <2>4, <2>5, <3>1 DEF LeaseFree, LeaseHeld, LeasedKinds
  <2>6. CASE c.arg[1].to # "same"
    <3>1. Holder(p, c.id) /\ rows[c.id].status \in {"pending", "booked"}  BY <2>2, <2>6 DEF Accepted, LeasedEdges
    <3> QED  BY <1>3, <2>1, <2>3, <2>6, <3>1 DEF Holder, LeasedKinds
  <2> QED  BY <2>5, <2>6
<1>4. CASE c.kind \notin LeasedKinds
  <2>1. ~rows[x].live  BY <1>4 DEF Allowed, LeaseHeld
  <2>2. CASE c.kind = "reactivate"
    <3>1. x = c.id /\ x \in RowIds  BY <2>2 DEF Held, Form
    <3>2. Prior(rows[x]) \in {"pending", "skipped"}  BY <3>1, StoredRow, PriorType
    <3>3. Reactivatable(x)  BY <2>2, <3>1 DEF Allowed, LeasedKinds
    <3>4. [rows[x] EXCEPT !.cutoff = RuleCutoffAt(x)].status = rows[x].status  BY <3>1, StoredRow DEF Row
    <3>5. rows[x].status = "withdrawn"  BY <3>2, <3>3, <3>4, EdgesFrom DEF Reactivatable
    <3>6. Seen(c, x) = {"withdrawn"}  BY <2>2 DEF Seen
    <3> QED  BY <2>1, <3>5, <3>6
  <2>3. CASE c.kind \in {"rewrite", "finalize"}
    <3>1. x = c.id  BY <2>3 DEF Held
    <3>2. rows[x].status = "pending"  BY <2>3, <3>1 DEF Allowed, Rewritable, Losable, LeasedKinds
    <3>3. Seen(c, x) = {"pending"}  BY <2>3 DEF Seen
    <3> QED  BY <2>1, <3>2, <3>3
  <2>4. CASE c.kind = "create"
    <3>1. x \in Displaced(DateOf(c.id)) /\ Creatable(c.id)  BY <2>4 DEF Held, Allowed, LeasedKinds
    <3>2. rows[x].status \in {"pending", "skipped"}  BY <3>1, EdgesFrom DEF Creatable
    <3>3. Seen(c, x) = {"pending", "skipped"}  BY <2>4 DEF Seen
    <3> QED  BY <2>1, <3>2, <3>3
  <2>5. CASE c.kind \in {"skip", "unskip", "drop"}
    <3>1. x = c.id  BY <2>5 DEF Held
    <3>2. Movable(x, Transitions[c.kind])  BY <2>5, <3>1 DEF Allowed, LeasedKinds
    <3>3. ASSUME c.kind = "skip" PROVE rows[x].status \in {"pending", "superseded"}
      <4>1. Movable(x, Transitions["skip"])  BY <3>2, <3>3
      <4> QED  BY <4>1, EdgesFrom DEF Movable, Transitions
    <3>4. ASSUME c.kind = "unskip" PROVE rows[x].status \in {"skipped", "superseded"}
      <4>1. Movable(x, Transitions["unskip"])  BY <3>2, <3>4
      <4> QED  BY <4>1, EdgesFrom DEF Movable, Transitions
    <3>5. ASSUME c.kind = "drop" PROVE rows[x].status \in {"pending", "superseded"}
      <4>1. Movable(x, Transitions["drop"])  BY <3>2, <3>5
      <4> QED  BY <4>1, EdgesFrom DEF Movable, Transitions
    <3> QED  BY <2>1, <2>5, <3>3, <3>4, <3>5 DEF Seen
  <2>6. CASE c.kind = "withdraw" /\ x = c.id
    <3>1. Movable(x, Transitions["withdraw"])  BY <2>6 DEF Allowed, LeasedKinds
    <3>2. rows[x].status \in {"pending", "superseded"}  BY <3>1, EdgesFrom DEF Movable, Transitions
    <3> QED  BY <2>1, <2>6, <3>2 DEF Seen
  <2>7. CASE c.kind = "withdraw" /\ x # c.id
    <3>1. x \in Restorable(DateOf(c.id))  BY <2>7 DEF Held
    <3>2. rows[x].status \in {"superseded", "withdrawn"}  BY <3>1 DEF Restorable
    <3> QED  BY <2>1, <2>7, <3>2 DEF Seen
  <2>8. CASE c.kind = "insert"  BY <2>8 DEF Held
  <2> QED  BY <1>4, <2>2, <2>3, <2>4, <2>5, <2>6, <2>7, <2>8 DEF Form, Kinds, EditKinds
<1> QED  BY <1>1, <1>2, <1>3, <1>4 DEF LeasedKinds

\* ... and the row has passed what the call asks of it.
LEMMA AllowedPasses ==
  ASSUME TypeOK, NEW p, NEW c, Form(p, c), c.kind \notin EditKinds, Allowed(p, c), NEW x \in Held(c),
         NEW d, d.kind = c.kind, d.id = c.id, d.arg = c.arg, d.facts = Facts(c)
  PROVE  Passed(p, d, x)
<1>1. CASE c.kind = "reactivate"
  <2>1. x = c.id /\ Reactivatable(x)  BY <1>1 DEF Held, Allowed, LeasedKinds
  <2>2. Facts(c).at = RuleCutoffAt(x)  BY <1>1, <2>1 DEF Facts
  <2> QED  BY <1>1, <2>1, <2>2 DEF Passed, Reactivatable
<1>2. CASE c.kind \in {"skip", "unskip", "withdraw", "drop"}
  <2>1. Movable(c.id, Transitions[c.kind])  BY <1>2 DEF Allowed, LeasedKinds
  <2> QED  BY <1>2, <2>1 DEF Passed
<1>3. CASE c.kind = "create"
  <2>1. x \in Displaced(DateOf(c.id)) /\ Creatable(c.id)  BY <1>3 DEF Held, Allowed, LeasedKinds
  <2> QED  BY <1>3, <2>1 DEF Creatable, Passed
<1>4. CASE c.kind \in {"rewrite", "finalize"}
  <2>1. x = c.id  BY <1>4 DEF Held
  <2>2. c.kind = "rewrite" => Rewritable(x)  BY <1>4, <2>1 DEF Allowed, LeasedKinds
  <2>3. c.kind = "finalize" => Losable(x)  BY <1>4, <2>1 DEF Allowed, LeasedKinds
  <2> QED  BY <1>4, <2>2, <2>3 DEF Passed, Rewritable, Losable
<1>5. CASE c.kind = "release"
  <2>1. x = c.id /\ Leasable(p, c)  BY <1>5 DEF Held, Allowed, LeasedKinds
  <2> QED  BY <1>5, <2>1 DEF Leasable, Passed
<1>6. CASE c.kind = "record"
  <2>1. x = c.id /\ Leasable(p, c)  BY <1>6 DEF Held, Allowed, LeasedKinds
  <2>2. Accepted(p, x, c.arg[1])  BY <1>6, <2>1 DEF Leasable
  <2>3. Facts(c).live = rows[x].live  BY <1>6, <2>1 DEF Facts
  <2> QED  BY <1>6, <2>2, <2>3 DEF Passed
<1>7. CASE c.kind \in {"insert", "claim", "acquire"}  BY <1>7 DEF Passed
<1> QED  BY <1>1, <1>2, <1>3, <1>4, <1>5, <1>6, <1>7 DEF Form, Kinds, LeasedKinds, EditKinds

-----------------------------------------------------------------------------
(* What a batch writes.                                                    *)

LEMMA NewRowType ==
  ASSUME NEW status \in Statuses, NEW want \in Wants, NEW at \in Int
  PROVE  NewRow(status, want, at) \in Row /\ NewRow(status, want, at).status = status
<1>1. AbsentRow \in Row  BY AbsentRowType
<1> QED  BY <1>1 DEF NewRow, Row

LEMMA MovedRow ==
  ASSUME TypeOK, NEW c, c.id \in RowIds, NEW kind \in {"skip", "unskip", "withdraw", "drop"}, c.kind = kind
  PROVE  /\ Moved(c) \in Row
         /\ Moved(c).status = CASE kind = "skip" -> "skipped" [] kind = "unskip" -> "pending" [] OTHER -> "withdrawn"
<1>1. PICK u \in Row : u = UnleasedWrite(rows[c.id])  BY StoredRow, UnleasedWriteType
<1>2. PICK t : t = Transitions[kind]  OBVIOUS
<1>3. /\ kind = "skip" => t.to = "skipped" /\ t.reason = "none"
      /\ kind = "unskip" => t.to = "pending" /\ t.reason = "none"
      /\ kind = "withdraw" => t.to = "withdrawn" /\ t.reason = "user_withdrawn"
      /\ kind = "drop" => t.to = "withdrawn" /\ t.reason = "system"
  BY <1>2 DEF Transitions
<1>4. PICK from : from = IF t.to = "withdrawn" THEN u.from ELSE "none"  OBVIOUS
<1>5. from \in {"none", "pending", "skipped"}  BY <1>1, <1>4 DEF Row
<1>6. t.to \in Statuses /\ t.reason \in Reasons  BY <1>3 DEF Statuses, ActiveStatuses, Reasons
<1>7. Moved(c) = [u EXCEPT !.status = t.to, !.reason = t.reason, !.from = from]  BY <1>1, <1>2, <1>4 DEF Moved
<1>8. Moved(c) \in Row  BY <1>1, <1>5, <1>6, <1>7 DEF Row
<1>9. Moved(c).status = t.to  BY <1>1, <1>7 DEF Row
<1> QED  BY <1>3, <1>8, <1>9

\* The status of the one row a call writes.
StatusOf(p, c, status) ==
    CASE c.kind = "insert"     -> status = IF c.facts.taken THEN "superseded" ELSE "pending"
      [] c.kind = "reactivate" -> status = Prior(rows[c.id])
      [] c.kind \in {"rewrite", "claim", "acquire", "release"} -> status = rows[c.id].status
      [] c.kind = "record"     -> status = IF c.arg[1].to = "same" THEN rows[c.id].status ELSE c.arg[1].to
      [] c.kind = "finalize"   -> status \in {"lost", "withdrawn"}
      [] c.kind = "skip"       -> status = "skipped"
      [] c.kind = "unskip"     -> status = "pending"
      [] OTHER                 -> status = "withdrawn"

LEMMA RuleRowCutoff ==
  ASSUME TypeOK, NEW x \in RowIds, IsRuleRow(x)
  PROVE  RuleCutoffAt(x) \in Int /\ RuleOf(x).want \in Wants
<1>1. PICK r \in Rules, d \in Dates : x = <<r, d>>  BY DEF RowIds, Origins, IsRuleRow, OriginOf
<1> QED  BY <1>1, RuleCutoffAtType DEF Rule

LEMMA EditedRow ==
  ASSUME TypeOK, NEW p, NEW c, Form(p, c), Read(c), c.kind \notin EditKinds \cup {"withdraw", "create"}
  PROVE  Written(p, c) \in Row /\ StatusOf(p, c, Written(p, c).status)
<1>1. c.id \in RowIds /\ rows[c.id] \in Row  BY StoredRow DEF Form
<1>2. PICK u \in Row : u = UnleasedWrite(rows[c.id]) /\ u.status = rows[c.id].status  BY <1>1, UnleasedWriteType
<1>3. CASE c.kind = "insert"
  <2>1. c.facts.want \in Wants /\ c.facts.at \in Int  BY <1>3 DEF Read
  <2>2. PICK status : status = IF c.facts.taken THEN "superseded" ELSE "pending"  OBVIOUS
  <2>3. status \in Statuses  BY <2>2 DEF Statuses, ActiveStatuses
  <2>4. Written(p, c) = NewRow(status, c.facts.want, c.facts.at)  BY <1>3, <2>2 DEF Written, Inserted
  <2>5. Written(p, c) \in Row /\ Written(p, c).status = status  BY <2>1, <2>3, <2>4, NewRowType
  <2> QED  BY <1>3, <2>2, <2>5 DEF StatusOf
<1>4. CASE c.kind = "reactivate"
  <2>1. c.facts.want \in Wants /\ c.facts.at \in Int  BY <1>4 DEF Read
  <2>2. PICK status \in Statuses : status = Prior(rows[c.id])  BY <1>1, PriorType DEF Statuses, ActiveStatuses
  <2>3. PICK at \in Int : at = c.facts.at  BY <2>1
  <2>4. PICK want \in Wants : want = c.facts.want  BY <2>1
  <2>5. Written(p, c) = [u EXCEPT !.status = status, !.reason = "none", !.from = "none", !.want = want, !.cutoff = at]
    BY <1>2, <1>4, <2>2, <2>3, <2>4 DEF Written, Reactivated
  <2>6. Written(p, c) \in Row  BY <2>5 DEF Row, Reasons
  <2>7. Written(p, c).status = status  BY <2>5 DEF Row
  <2> QED  BY <1>4, <2>2, <2>6, <2>7 DEF StatusOf
<1>5. CASE c.kind = "rewrite"
  <2>1. PICK want \in Wants : want = c.facts.want  BY <1>5 DEF Read
  <2>2. Written(p, c) = [u EXCEPT !.want = want]  BY <1>2, <1>5, <2>1 DEF Written
  <2>3. Written(p, c) \in Row /\ Written(p, c).status = u.status  BY <2>2 DEF Row
  <2> QED  BY <1>2, <1>5, <2>3 DEF StatusOf
<1>6. CASE c.kind \in {"claim", "acquire", "release"}
  <2>1. PICK row \in Row : row = rows[c.id]  BY <1>1
  <2>2. PICK owner \in Owners \cup {NoOwner}, live \in BOOLEAN : Written(p, c) = [row EXCEPT !.owner = owner, !.live = live]
    BY <1>6, <2>1 DEF Written, Form, LeasedKinds
  <2>3. Written(p, c) \in Row /\ Written(p, c).status = row.status  BY <2>2 DEF Row
  <2> QED  BY <1>6, <2>1, <2>3 DEF StatusOf
<1>7. CASE c.kind = "record"
  <2>1. p \in Owners /\ c.arg[1] \in OutcomeType  BY <1>7, OutcomesType, OwnerAssumption DEF Form, LeasedKinds
  <2>2. Written(p, c) = OutcomeRow(p, c.id, c.arg[1])  BY <1>7 DEF Written
  <2> QED  BY <1>1, <1>7, <2>1, <2>2, OutcomeRowType DEF StatusOf
<1>8. CASE c.kind = "finalize"
  <2>1. PICK status \in {"lost", "withdrawn"}, reason \in Reasons :
          Written(p, c) = [u EXCEPT !.status = status, !.reason = reason]
    BY <1>2, <1>8 DEF Written, Ended, Reasons
  <2>2. Written(p, c) \in Row /\ Written(p, c).status = status  BY <2>1 DEF Row, Statuses
  <2> QED  BY <1>8, <2>2 DEF StatusOf
<1>9. CASE c.kind \in {"skip", "unskip", "drop"}
  <2>1. Written(p, c) = Moved(c)  BY <1>9 DEF Written
  <2> QED  BY <1>1, <1>9, <2>1, MovedRow DEF StatusOf
<1> QED  BY <1>3, <1>4, <1>5, <1>6, <1>7, <1>8, <1>9 DEF Form, Kinds, LeasedKinds, EditKinds

\* The rule rows a withdrawn one-off gives its date back to.
LEMMA RestoredRow ==
  ASSUME TypeOK, NEW p, NEW c, Form(p, c), Read(c), c.kind = "withdraw", NEW x \in c.facts.back
  PROVE  /\ x \in RowIds /\ x # c.id /\ IsRuleRow(x)
         /\ RestoredFor(c)[x] \in Row /\ RestoredFor(c)[x].status = Prior(rows[x])
<1>1. x \in RowIds /\ x # c.id /\ IsRuleRow(x) /\ c.facts.want[x] \in Wants  BY DEF Read, Form
<1>2. rows[x] \in Row /\ RuleOf(x).want \in Wants  BY <1>1, StoredRow, RuleRowCutoff
<1>3. PICK u \in Row : u = UnleasedWrite(rows[x])  BY <1>2, UnleasedWriteType
<1>4. PICK status \in Statuses : status = Prior(rows[x])  BY <1>2, PriorType DEF Statuses, ActiveStatuses
<1>5. PICK old \in Wants : old = IF rows[x].status = "withdrawn" THEN RuleOf(x).want ELSE u.want  BY <1>2, <1>3 DEF Row
<1>6. PICK v : v = [u EXCEPT !.status = status, !.reason = "none", !.from = "none", !.want = old]  OBVIOUS
<1>7. Restored(x) = v  BY <1>3, <1>4, <1>5, <1>6 DEF Restored
<1>8. v \in Row  BY <1>6 DEF Row, Reasons
<1>9. v.status = status  BY <1>6 DEF Row
<1>10. PICK want \in Wants : want = IF rows[x].status = "withdrawn" THEN c.facts.want[x] ELSE v.want
  BY <1>1, <1>8 DEF Row
<1>11. RestoredFor(c)[x] = [v EXCEPT !.want = want]  BY <1>1, <1>7, <1>10 DEF RestoredFor
<1>12. [v EXCEPT !.want = want] \in Row /\ [v EXCEPT !.want = want].status = v.status  BY <1>8 DEF Row
<1> QED  BY <1>1, <1>4, <1>9, <1>11, <1>12

\* The one-off, and the rule row that steps aside.
LEMMA CreatedRow ==
  ASSUME TypeOK, NEW p, NEW c, Form(p, c), c.kind = "create", NEW x \in {c.id} \cup c.reads,
         x # c.id => rows[x].status \in {"pending", "skipped"}
  PROVE  Created(c)[x] \in Row /\ Created(c)[x].status = IF x = c.id THEN "pending" ELSE "superseded"
<1>1. x \in RowIds /\ rows[x] \in Row  BY StoredRow DEF Form
<1>2. CASE x = c.id
  <2>0. DateOf(x) \in Nat /\ SiteCutoff \in Int  BY <1>1, RowIdFacts, TimeAssumption, CutoffAssumption
  <2>1. CutoffAt(DateOf(x), SiteCutoff) \in Int  BY <2>0, TimeAssumption DEF CutoffAt
  <2>2. Created(c)[x] = NewRow("pending", AnyWant, CutoffAt(DateOf(x), SiteCutoff))  BY <1>2 DEF Created
  <2> QED  BY <1>2, <2>1, <2>2, NewRowType, AbsentRowType DEF Statuses, ActiveStatuses
<1>3. CASE x # c.id
  <2>1. PICK u \in Row : u = UnleasedWrite(rows[x])  BY <1>1, UnleasedWriteType
  <2>2. PICK from \in {"pending", "skipped"} : from = rows[x].status  BY <1>3
  <2>3. Created(c)[x] = [u EXCEPT !.status = "superseded", !.from = from]  BY <1>3, <2>1, <2>2 DEF Created
  <2>4. [u EXCEPT !.status = "superseded", !.from = from] \in Row  BY DEF Row, Statuses
  <2>5. [u EXCEPT !.status = "superseded", !.from = from].status = "superseded"  BY DEF Row
  <2> QED  BY <1>3, <2>3, <2>4, <2>5
<1> QED  BY <1>2, <1>3

\* The rows a batch writes, all on one date.
LEMMA WritesRows ==
  ASSUME NEW p, NEW c, Form(p, c), Read(c), c.kind \notin EditKinds
  PROVE  /\ c.id \in DOMAIN Writes(p, c) /\ DOMAIN Writes(p, c) \subseteq {c.id} \cup c.reads
         /\ c.kind \notin {"withdraw", "create"} =>
               DOMAIN Writes(p, c) = {c.id} /\ Writes(p, c)[c.id] = Written(p, c)
         /\ c.kind = "withdraw" => DOMAIN Writes(p, c) = {c.id} \cup c.facts.back /\ Writes(p, c) = RestoredFor(c)
         /\ c.kind = "create" => Writes(p, c) = Created(c)
         /\ \A x \in DOMAIN Writes(p, c) : x \in RowIds /\ DateOf(x) = DateOf(c.id)
<1>1. c.kind = "withdraw" => Writes(p, c) = RestoredFor(c) /\ DOMAIN Writes(p, c) = {c.id} \cup c.facts.back
  BY DEF Writes, RestoredFor
<1>2. c.kind = "create" => Writes(p, c) = Created(c) /\ DOMAIN Writes(p, c) = {c.id} \cup c.reads
  BY DEF Writes, Created
<1>3. c.kind \notin {"withdraw", "create"} =>
        DOMAIN Writes(p, c) = {c.id} /\ Writes(p, c)[c.id] = Written(p, c)
  BY DEF Writes
<1>4. c.id \in DOMAIN Writes(p, c) /\ DOMAIN Writes(p, c) \subseteq {c.id} \cup c.reads
  BY <1>1, <1>2, <1>3 DEF Read
<1>5. \A x \in {c.id} \cup c.reads : x \in RowIds /\ DateOf(x) = DateOf(c.id)  BY DEF Form, Read
<1> QED  BY <1>1, <1>2, <1>3, <1>4, <1>5

\* What a batch does to one row that is still what the call read: it stores a whole row, opens
\* only rows that Opening names, and opens those.
LEMMA WritesRow ==
  ASSUME TypeOK, NEW p, NEW c, Form(p, c), Read(c), c.kind \notin EditKinds,
         NEW x \in DOMAIN Writes(p, c), x \in c.reads => Knows(p, c, x) /\ RowDoc(x) \in c.fresh
  PROVE  /\ Writes(p, c)[x] \in Row
         /\ IsRuleRow(x) /\ BecomesBookable(rows[x], Writes(p, c)[x]) => Opening(c, x)
         /\ Opening(c, x) /\ c.kind \notin {"insert", "rewrite"} => BecomesBookable(rows[x], Writes(p, c)[x])
         /\ rows[x].status \notin ActiveStatuses /\ Writes(p, c)[x].status \in ActiveStatuses
               => x = c.id \/ (c.kind = "withdraw" /\ Opening(c, x))
<1>1. x \in RowIds /\ x \in {c.id} \cup c.reads  BY WritesRows
<1>2. x \in c.reads => rows[x].status \in Seen(c, x)  BY DEF Knows
<1>3. PICK row \in Row : row = Writes(p, c)[x] /\ (c.kind \notin {"withdraw", "create"} => StatusOf(p, c, row.status))
                     /\ (c.kind = "create" => row.status = IF x = c.id THEN "pending" ELSE "superseded")
                     /\ (c.kind = "withdraw" /\ x = c.id => row.status = "withdrawn")
                     /\ (c.kind = "withdraw" /\ x # c.id => row.status = Prior(rows[x]) /\ IsRuleRow(x))
  <2>1. CASE c.kind = "withdraw"
    <3>1. Writes(p, c)[x] = RestoredFor(c)[x] /\ x \in {c.id} \cup c.facts.back  BY <2>1, WritesRows
    <3>2. CASE x = c.id
      <4>1. RestoredFor(c)[x] = Moved(c)  BY <3>2 DEF RestoredFor
      <4> QED  BY <1>1, <2>1, <3>1, <3>2, <4>1, MovedRow
    <3>3. CASE x # c.id  BY <2>1, <3>1, <3>3, RestoredRow
    <3> QED  BY <3>2, <3>3
  <2>2. CASE c.kind = "create"
    <3>1. x # c.id => rows[x].status \in {"pending", "skipped"}  BY <1>1, <1>2, <2>2 DEF Seen
    <3>2. Created(c)[x] \in Row /\ Created(c)[x].status = IF x = c.id THEN "pending" ELSE "superseded"
      BY <1>1, <2>2, <3>1, CreatedRow
    <3>3. Writes(p, c)[x] = Created(c)[x]  BY <2>2, WritesRows
    <3> QED  BY <2>2, <3>2, <3>3
  <2>3. CASE c.kind \notin {"withdraw", "create"}
    <3>1. x = c.id /\ Writes(p, c)[x] = Written(p, c)  BY <2>3, WritesRows
    <3> QED  BY <2>3, <3>1, EditedRow
  <2> QED  BY <2>1, <2>2, <2>3
<1>4. PICK old \in Row : old = rows[x]  BY <1>1, StoredRow
<1>5. /\ IsRuleRow(x) /\ BecomesBookable(old, row) => Opening(c, x)
      /\ Opening(c, x) /\ c.kind \notin {"insert", "rewrite"} => BecomesBookable(old, row)
      /\ old.status \notin ActiveStatuses /\ row.status \in ActiveStatuses
            => x = c.id \/ (c.kind = "withdraw" /\ Opening(c, x))
  <2>0. Prior(old) \in {"pending", "skipped"}  BY PriorType
  <2>1. CASE c.kind = "withdraw"
    <3>1. x \in c.reads /\ (x = c.id \/ x \in c.facts.back) /\ ~IsRuleRow(c.id)  BY <2>1, WritesRows DEF Read, Form
    <3>2. CASE x = c.id
      <4>1. ~IsRuleRow(x) /\ row.status = "withdrawn"  BY <1>3, <2>1, <3>1, <3>2
      <4> QED  BY <3>2, <4>1 DEF Opening
    <3>3. CASE x # c.id
      <4>1. row.status = Prior(old) /\ old.status \in {"superseded", "withdrawn"} /\ Opening(c, x)
        BY <1>2, <1>3, <1>4, <2>1, <3>1, <3>3 DEF Seen, Opening
      <4> QED  BY <2>0, <2>1, <4>1 DEF BecomesBookable, ActiveStatuses
    <3> QED  BY <3>2, <3>3
  <2>2. CASE c.kind = "create"
    <3>1. ~IsRuleRow(c.id) /\ ~Opening(c, x)  BY <2>2 DEF Form, Opening
    <3>2. CASE x = c.id  BY <3>1, <3>2
    <3>3. CASE x # c.id
      <4>1. row.status = "superseded"  BY <1>3, <2>2, <3>3
      <4> QED  BY <3>1, <4>1 DEF BecomesBookable, ActiveStatuses
    <3> QED  BY <3>2, <3>3
  <2>3. CASE c.kind \notin {"withdraw", "create"}
    <3>0. DOMAIN Writes(p, c) = {c.id}  BY <2>3, WritesRows
    <3>1. x = c.id /\ StatusOf(p, c, row.status)  BY <1>3, <2>3, <3>0
    <3>2. c.kind # "insert" => x \in c.reads  BY <2>3, <3>1 DEF Read
    <3>3. CASE c.kind = "insert"
      <4>1. IsRuleRow(x) => Opening(c, x)  BY <3>1, <3>3 DEF Opening
      <4> QED  BY <3>1, <3>3, <4>1
    <3>4. CASE c.kind = "reactivate"
      <4>1. row.status = Prior(old) /\ old.status = "withdrawn"  BY <1>2, <1>4, <3>1, <3>2, <3>4 DEF StatusOf, Seen
      <4> QED  BY <2>0, <3>1, <3>4, <4>1 DEF Opening, BecomesBookable, ActiveStatuses
    <3>5. CASE c.kind \in {"rewrite", "claim", "acquire", "release"}
      <4>1. row.status = old.status  BY <1>4, <3>1, <3>5 DEF StatusOf
      <4> QED  BY <3>1, <3>5, <4>1 DEF Opening, BecomesBookable, ActiveStatuses
    <3>6. CASE c.kind = "record"
      <4>1. row.status = old.status \/ old.status \in {"pending", "booked"}  BY <1>2, <1>4, <3>1, <3>2, <3>6 DEF StatusOf, Seen
      <4> QED  BY <3>1, <3>6, <4>1 DEF Opening, BecomesBookable, ActiveStatuses
    <3>7. CASE c.kind = "finalize"
      <4>1. row.status \in {"lost", "withdrawn"}  BY <3>1, <3>7 DEF StatusOf
      <4> QED  BY <3>1, <3>7, <4>1 DEF Opening, BecomesBookable
    <3>8. CASE c.kind = "skip"
      <4>1. row.status = "skipped" /\ old.status \in {"pending", "superseded"}  BY <1>2, <1>4, <3>1, <3>2, <3>8 DEF StatusOf, Seen
      <4> QED  BY <1>4, <3>1, <3>8, <4>1 DEF Opening, BecomesBookable, ActiveStatuses
    <3>9. CASE c.kind = "unskip"
      <4>1. row.status = "pending" /\ old.status \in {"skipped", "superseded"}  BY <1>2, <1>4, <3>1, <3>2, <3>9 DEF StatusOf, Seen
      <4> QED  BY <3>1, <3>9, <4>1 DEF Opening, BecomesBookable, ActiveStatuses
    <3>10. CASE c.kind = "drop"
      <4>1. row.status = "withdrawn"  BY <3>1, <3>10 DEF StatusOf
      <4> QED  BY <3>1, <3>10, <4>1 DEF Opening, BecomesBookable
    <3> QED  BY <2>3, <3>3, <3>4, <3>5, <3>6, <3>7, <3>8, <3>9, <3>10 DEF Form, Kinds, LeasedKinds, EditKinds
  <2> QED  BY <2>1, <2>2, <2>3
<1> QED  BY <1>3, <1>4, <1>5

-----------------------------------------------------------------------------
(* The reads.                                                              *)

\* The pointer of a row the batch may open is among those the call reads.
LEMMA OpeningPointed ==
  ASSUME TypeOK, NEW p, NEW c, Form(p, c), Read(c), c.kind \notin EditKinds, NEW x \in RowIds, Opening(c, x),
         x \in c.reads => Knows(p, c, x) /\ RowDoc(x) \in c.fresh
  PROVE  x \in Pointed(p, c) /\ (c.kind # "insert" => x \in Opens(p, c))
<1>1. CASE c.kind \in {"insert", "rewrite"}  BY <1>1 DEF Pointed, Opens, Opening
<1>2. CASE c.kind \notin {"insert", "rewrite"}
  <2>0. x = c.id \/ (c.kind = "withdraw" /\ x \in c.facts.back)  BY <1>2 DEF Opening
  <2>1. x \in DOMAIN Writes(p, c)
    <3>1. c.id \in DOMAIN Writes(p, c)  BY WritesRows
    <3>2. c.kind = "withdraw" => DOMAIN Writes(p, c) = {c.id} \cup c.facts.back  BY WritesRows
    <3> QED  BY <2>0, <3>1, <3>2
  <2>2. IsRuleRow(x) /\ BecomesBookable(rows[x], Writes(p, c)[x])  BY <1>2, <2>1, WritesRow DEF Opening
  <2>3. x \in Opened(Writes(p, c))  BY <2>1, <2>2 DEF Opened
  <2> QED  BY <1>2, <2>3 DEF Pointed, Opens
<1> QED  BY <1>1, <1>2

\* A call that goes on from its first read knows what it read.
LEMMA LookOK ==
  ASSUME TypeOK, OneActiveRowPerDate, NEW p, NEW c, Shape(c), Form(p, c), Steady(p, c), c.kind \notin EditKinds,
         Allowed(p, c)
  PROVE  CallOK(p, Look(p, c)) /\ Look(p, c).kind = c.kind /\ Look(p, c).id = c.id
<1>1. PICK f : f = [c EXCEPT !.facts = Facts(c), !.reads = Held(c), !.fresh = {RowDoc(x) : x \in Held(c)}]  OBVIOUS
<1>2. /\ Shape(f) /\ f.kind = c.kind /\ f.id = c.id /\ f.arg = c.arg /\ f.step = c.step /\ f.pointers = c.pointers
      /\ f.slot = c.slot /\ f.facts = Facts(c) /\ f.reads = Held(c) /\ f.fresh = {RowDoc(x) : x \in Held(c)}
  BY <1>1 DEF Shape
<1>3. PICK step \in {"guard", "point", "send"} :
        /\ Look(p, c) = [f EXCEPT !.step = step]
        /\ step # "guard" => Opens(p, f) = {}
        /\ step = "send" => Pointed(p, f) = {}
  BY <1>1 DEF Look
<1>4. PICK d : d = [f EXCEPT !.step = step]  OBVIOUS
<1>5. /\ Shape(d) /\ d.kind = c.kind /\ d.id = c.id /\ d.arg = c.arg /\ d.step = step /\ d.pointers = c.pointers
      /\ d.slot = c.slot /\ d.facts = Facts(c) /\ d.reads = Held(c) /\ d.fresh = {RowDoc(x) : x \in Held(c)}
  BY <1>2, <1>4 DEF Shape
<1>6. \A x \in Held(c) : x \in RowIds /\ DateOf(x) = DateOf(c.id)  BY HeldRows
<1>7. Form(p, f) /\ Form(p, d)
  <2>1. Held(c) \subseteq RowIds  BY <1>6
  <2> QED  BY <1>2, <1>5, <2>1 DEF Form, EditKinds
<1>9. Read(f) /\ Read(d)
  <2>1. CASE c.kind = "insert"
    <3>1. Facts(c).want \in Wants /\ Facts(c).at \in Int  BY <2>1, RuleRowCutoff DEF Facts, Form
    <3>2. Held(c) = {}  BY <2>1 DEF Held
    <3>3. Insertable(c.id)  BY <2>1 DEF Allowed, LeasedKinds
    <3>4. ~Facts(c).closed /\ ~Frozen(DateOf(c.id), Facts(c).at)  BY <2>1, <3>3 DEF Insertable, Facts
    <3> QED  BY <1>2, <1>5, <2>1, <3>1, <3>2, <3>4 DEF Read
  <2>2. CASE c.kind = "reactivate"
    <3>1. Facts(c).want \in Wants /\ Facts(c).at \in Int  BY <2>2, RuleRowCutoff DEF Facts, Form
    <3>2. Held(c) = {c.id}  BY <2>2 DEF Held
    <3>3. ~DateClosed(DateOf(c.id))  BY <2>2 DEF Allowed, LeasedKinds, Reactivatable
    <3>4. ~Facts(c).closed  BY <2>2, <3>3 DEF Facts
    <3> QED  BY <1>2, <1>5, <2>2, <3>1, <3>2, <3>4 DEF Read
  <2>6. CASE c.kind \in {"rewrite", "skip", "unskip"}
    <3>1. c.kind = "rewrite" => Facts(c).want \in Wants  BY RuleRowCutoff DEF Facts, Form
    <3>2. Held(c) = {c.id}  BY <2>6 DEF Held
    <3>3. Facts(c).closed => DateClosed(DateOf(c.id))  BY <2>6 DEF Facts
    <3> QED  BY <1>2, <1>5, <2>6, <3>1, <3>2, <3>3 DEF Read
  <2>3. CASE c.kind = "withdraw"
    <3>1. PICK back : back = Restorable(DateOf(c.id))  OBVIOUS
    <3>2. Facts(c).back = back /\ Facts(c).want = [x \in back |-> RuleOf(x).want]  BY <2>3, <3>1 DEF Facts
    <3>3. DateOf(c.id) \in Dates  BY RowIdFacts DEF Form
    <3>4. \A x \in back : x \in RowIds /\ IsRuleRow(x)  BY <3>1, <3>3, RestoredType
    <3>5. \A x \in back : Facts(c).want[x] \in Wants  BY <3>2, <3>4, RuleRowCutoff
    <3>6. Held(c) = {c.id} \cup back  BY <2>3, <3>1 DEF Held
    <3> QED  BY <1>2, <1>5, <1>6, <2>3, <3>2, <3>4, <3>5, <3>6 DEF Read
  <2>4. CASE c.kind = "create"
    <3>1. Creatable(c.id)  BY <2>4 DEF Allowed, LeasedKinds
    <3> QED  BY <1>2, <1>5, <1>6, <2>4, <3>1 DEF Read, Creatable
  <2>5. CASE c.kind \notin {"insert", "reactivate", "rewrite", "skip", "unskip", "withdraw", "create"}
    <3>1. Held(c) = {c.id}  BY <2>5 DEF Held
    <3> QED  BY <1>2, <1>5, <2>5, <3>1 DEF Read
  <2> QED  BY <2>1, <2>2, <2>3, <2>4, <2>5, <2>6
<1>10. ASSUME NEW x \in RowIds PROVE Knows(p, f, x) /\ Knows(p, d, x) /\ (x \in Held(c) => RowDoc(x) \in f.fresh)
  <2>1. RowDoc(x) \in {RowDoc(y) : y \in Held(c)} <=> x \in Held(c)  BY DocsApart
  <2>2. x \in Held(c) => (rows[x].live => c.kind \in LeasedKinds /\ rows[x].owner = p) /\ rows[x].status \in Seen(c, x)
    BY AllowedRows
  <2>3. Seen(f, x) = Seen(c, x) /\ Seen(d, x) = Seen(c, x)  BY <1>2, <1>5 DEF Seen
  <2>6. x \in Held(c) => Passed(p, f, x) /\ Passed(p, d, x)  BY <1>2, <1>5, AllowedPasses
  <2>4. Knows(p, f, x)  BY <1>2, <2>1, <2>2, <2>3, <2>6 DEF Knows
  <2>5. Knows(p, d, x)  BY <1>5, <2>1, <2>2, <2>3, <2>6 DEF Knows
  <2> QED  BY <1>2, <2>1, <2>4, <2>5
<1>11. ASSUME NEW x \in RowIds, Sure(d, x)
       PROVE  d.step # "send" /\ (d.step = "point" => d.kind = "insert")
  <2>1. Opening(f, x)  BY <1>2, <1>5, <1>11 DEF Sure, Opening
  <2>2. x \in f.reads => Knows(p, f, x) /\ RowDoc(x) \in f.fresh  BY <1>2, <1>10
  <2>3. f.kind \notin EditKinds  BY <1>2
  <2>4. x \in Pointed(p, f) /\ (f.kind # "insert" => x \in Opens(p, f))
    BY <1>7, <1>9, <2>1, <2>2, <2>3, OpeningPointed
  <2> QED  BY <1>2, <1>3, <1>5, <2>4
<1>15. \A x \in RowIds : d.step = "send" => Asserts(d, x)  BY <1>11 DEF Asserts
<1>16. \A x \in RowIds : d.step \in {"point", "send"} => Guarded(d, x)  BY <1>11 DEF Guarded
<1>17. Steady(p, d) /\ Flagging(d)  BY <1>5 DEF Steady, Flagging
<1>12. d.kind # "edit" /\ d.kind \notin EditKinds  BY <1>5 DEF EditKinds
<1>13. \A x \in d.reads : Knows(p, d, x)  BY <1>5, <1>6, <1>10
<1>14. CallOK(p, d)  BY <1>5, <1>7, <1>9, <1>12, <1>13, <1>15, <1>16, <1>17 DEF CallOK
<1> QED  BY <1>3, <1>4, <1>5, <1>14

\* A call turned down ends, but an outcome goes on to be ledgered.
LEMMA TurnedOK ==
  ASSUME NEW p, NEW c, Shape(c), Form(p, c), Steady(p, c), c.kind \notin EditKinds
  PROVE  (Turned(c) = Idle \/ CallOK(p, Turned(c))) /\ Turned(c).kind # "create"
<1>1. CASE c.kind # "record"  BY <1>1 DEF Turned, Idle
<1>2. CASE c.kind = "record"
  <2>1. PICK d : d = [c EXCEPT !.step = "slot", !.fresh = {}]  OBVIOUS
  <2>2. /\ Shape(d) /\ d.kind = c.kind /\ d.id = c.id /\ d.arg = c.arg /\ d.step = "slot" /\ d.reads = c.reads
    BY <2>1 DEF Shape
  <2>3. Form(p, d)  BY <1>2, <2>2 DEF Form, EditKinds
  <2>4. CallOK(p, d)  BY <1>2, <2>2, <2>3 DEF CallOK, Steady, Flagging
  <2> QED  BY <1>2, <2>1, <2>2, <2>4 DEF Turned
<1> QED  BY <1>1, <1>2


LEMMA BeginStep ==
  ASSUME CosmosInv, NEW p \in Processes, Begin(p)
  PROVE  CosmosInv'
<1>1. PICK kind \in Does[p] \ {"edit", "mark"}, id \in RowIds :
        /\ kind \in {"claim", "acquire"} => working[p] \in {NoRow, id}
        /\ kind \in {"release", "record"} => working[p] = id
        /\ kind \in {"insert", "reactivate", "rewrite", "drop"} => IsRuleRow(id)
        /\ kind = "withdraw" => ~IsRuleRow(id)
        /\ kind = "create" => /\ ~IsRuleRow(id)
                              /\ \A q \in Processes : call[q] # Idle => OriginOf(call[q].id) # OriginOf(id)
                              /\ \A e \in Dates : rows[<<OriginOf(id), e>>].status = "absent"
        /\ \E arg \in IF kind = "record" THEN {<<o>> : o \in Reported(p)} ELSE {<<>>} :
              LET c == Look(p, Call(kind, id, arg)) IN c # Idle /\ Become(p, c)
  BY DEF Begin
<1>2. PICK arg \in IF kind = "record" THEN {<<o>> : o \in Reported(p)} ELSE {<<>>} :
        LET c == Look(p, Call(kind, id, arg)) IN c # Idle /\ Become(p, c)
  BY <1>1
<1>3. PICK c : c = Call(kind, id, arg)  OBVIOUS
<1>4. /\ Shape(c) /\ c.kind = kind /\ c.id = id /\ c.arg = arg /\ c.step = "look" /\ c.reads = {}
  BY <1>3 DEF Call, Shape
<1>5. /\ kind \in Kinds /\ (kind \in LeasedKinds => p \in Owners) /\ (kind = "create" => p \notin Owners)
      /\ kind = "claim" => ActorOf[p] = "runner"
  BY CallsAssumption DEF Processes, LeasedKinds
<1>6. kind = "record" => arg[1] \in Outcomes(ActorOf[p]) /\ Drops(p, arg[1])
  BY <1>2 DEF Reported
<1>7. Form(p, c) /\ c.kind \notin EditKinds /\ Steady(p, c)
  <2>1. Form(p, c) /\ c.kind \notin EditKinds  BY <1>1, <1>4, <1>5, <1>6 DEF Form, EditKinds
  <2>2. ASSUME kind = "create", NEW x \in RowIds, OriginOf(x) = OriginOf(id) PROVE rows[x].status = "absent"
    <3>1. DateOf(x) \in Dates /\ x = <<OriginOf(id), DateOf(x)>>  BY <2>2 DEF RowIds, OriginOf, DateOf
    <3> QED  BY <1>1, <2>2, <3>1
  <2> QED  BY <1>1, <1>4, <1>6, <2>1, <2>2 DEF Steady
<1>8. (Look(p, c) = Idle \/ CallOK(p, Look(p, c))) /\ (Look(p, c).kind = "create" => kind = "create" /\ Look(p, c).id = id)
  <2>1. CASE Allowed(p, c)  BY <1>4, <1>7, <2>1, LookOK DEF CosmosInv
  <2>2. CASE ~Allowed(p, c)
    <3>1. Look(p, c) = Turned(c)  BY <2>2 DEF Look
    <3> QED  BY <1>4, <1>7, <3>1, TurnedOK
  <2> QED  BY <2>1, <2>2
<1>9. PICK d : d = Look(p, c)  OBVIOUS
<1>10. Become(p, d)  BY <1>2, <1>3, <1>9
<1>11. UNCHANGED <<vars, told>>  BY DEF Begin
<1>12. Lone(p, d)
  <2> SUFFICES ASSUME d.kind = "create", NEW q \in Processes, Creates(q, OriginOf(d.id)) PROVE FALSE  BY DEF Lone
  <2>1. kind = "create" /\ d.id = id  BY <1>8, <1>9
  <2>2. call[q].kind = "create"  BY DEF Creates
  <2>3. call[q] # Idle  BY <2>2 DEF Idle
  <2> QED  BY <1>1, <2>1, <2>3 DEF Creates
<1> QED  BY <1>8, <1>9, <1>10, <1>11, <1>12, ReadStep

LEMMA LookAgainStep ==
  ASSUME CosmosInv, NEW p \in Processes, LookAgain(p)
  PROVE  CosmosInv'
<1>1. PICK c : c = call[p]  OBVIOUS
<1>2. c # Idle  BY <1>1 DEF LookAgain, Reading, Idle
<1>3. CallOK(p, c) /\ c.kind \notin EditKinds  BY <1>1, <1>2 DEF CosmosInv, CallsOK, LookAgain, EditKinds
<1>4. /\ Look(p, c) = Idle \/ CallOK(p, Look(p, c))
      /\ Look(p, c).kind = "create" => Look(p, c).kind = c.kind /\ Look(p, c).id = c.id
  <2>1. CASE Allowed(p, c)  BY <1>3, <2>1, LookOK DEF CosmosInv, CallOK
  <2>2. CASE ~Allowed(p, c)
    <3>1. Look(p, c) = Turned(c)  BY <2>2 DEF Look
    <3> QED  BY <1>3, <3>1, TurnedOK DEF CallOK
  <2> QED  BY <2>1, <2>2
<1>5. PICK d : d = Look(p, c)  OBVIOUS
<1>6. Become(p, d) /\ UNCHANGED <<vars, told>>  BY <1>1, <1>5 DEF LookAgain, Reading
<1>7. Lone(p, d)  BY <1>1, <1>4, <1>5, StaysLone
<1> QED  BY <1>4, <1>5, <1>6, <1>7, ReadStep

LEMMA GuardStep ==
  ASSUME CosmosInv, NEW p \in Processes, Guard(p)
  PROVE  CosmosInv'
<1>1. PICK c : c = call[p] /\ c.step = "guard"  BY DEF Guard, Reading
<1>2. c # Idle  BY <1>1 DEF Idle
<1>3. CallOK(p, c) /\ c.kind \notin EditKinds  BY <1>1, <1>2 DEF CosmosInv, CallsOK, CallOK, Form, EditKinds
<1>4. PICK d : d = [c EXCEPT !.step = "point"]  OBVIOUS
<1>5. /\ Shape(d) /\ d.kind = c.kind /\ d.id = c.id /\ d.arg = c.arg /\ d.reads = c.reads /\ d.facts = c.facts
      /\ d.step = "point" /\ d.fresh = c.fresh
  BY <1>3, <1>4 DEF CallOK, Shape
<1>6. ASSUME \A x \in Opens(p, c) : MayBecomeActive(x) PROVE CallOK(p, d)
  <2>1. Form(p, d)  BY <1>3, <1>5 DEF CallOK, Form, EditKinds
  <2>2. Read(c) /\ \A x \in c.reads : Knows(p, c, x)  BY <1>1, <1>3 DEF CallOK
  <2>3. Read(d)  BY <1>5, <2>2 DEF Read
  <2>4. \A x \in d.reads : Knows(p, d, x)
    <3> SUFFICES ASSUME NEW x \in d.reads PROVE Knows(p, d, x)  OBVIOUS
    <3>1. Seen(d, x) = Seen(c, x) /\ Passed(p, c, x) = Passed(p, d, x)  BY <1>5 DEF Seen, Passed
    <3> QED  BY <1>5, <2>2, <3>1 DEF Knows
  <2>5. ASSUME NEW x \in RowIds, Sure(d, x), d.kind \in {"rewrite", "skip", "unskip"} PROVE ~d.facts.closed
    <3>1. Opening(c, x)  BY <1>5, <2>5 DEF Sure, Opening
    <3>2. x = c.id /\ x \in c.reads /\ c.kind # "insert"  BY <1>5, <2>2, <2>5, <3>1 DEF Opening, Read
    <3>3. Knows(p, c, x) /\ RowDoc(x) \in c.fresh  BY <1>5, <2>2, <2>5, <3>2 DEF Sure
    <3>4. Form(p, c) /\ TypeOK  BY <1>3 DEF CallOK, CosmosInv
    <3>5. x \in Opens(p, c)  BY <1>3, <2>2, <3>1, <3>2, <3>3, <3>4, OpeningPointed
    <3>6. ~DateClosed(DateOf(c.id))  BY <1>6, <3>2, <3>5 DEF MayBecomeActive
    <3> QED  BY <1>5, <2>2, <2>5, <3>6 DEF Read
  <2>6. Steady(p, d) /\ Flagging(d)  BY <1>3, <1>5 DEF CallOK, Steady, Flagging
  <2> QED  BY <1>3, <1>5, <2>1, <2>3, <2>4, <2>5, <2>6 DEF CallOK, EditKinds, Guarded
<1>7. PICK e : e = IF \A x \in Opens(p, c) : MayBecomeActive(x) THEN d ELSE Turned(c)  OBVIOUS
<1>8. Become(p, e)  BY <1>1, <1>4, <1>7 DEF Guard
<1>9. e = Idle \/ CallOK(p, e)  BY <1>3, <1>6, <1>7, TurnedOK DEF CallOK
<1>10. UNCHANGED <<vars, told>>  BY DEF Guard, Reading
<1>11. Turned(c).kind # "create"  BY <1>3, TurnedOK DEF CallOK
<1>12. Lone(p, e)  BY <1>1, <1>5, <1>7, <1>11, StaysLone
<1> QED  BY <1>8, <1>9, <1>10, <1>12, ReadStep

LEMMA PointStep ==
  ASSUME CosmosInv, NEW p \in Processes, Point(p)
  PROVE  CosmosInv'
<1>1. PICK c : c = call[p] /\ c.step = "point" /\ c.kind # "edit"  BY DEF Point, Reading
<1>2. c # Idle  BY <1>1 DEF Idle
<1>3. CallOK(p, c)  BY <1>1, <1>2 DEF CosmosInv, CallsOK
<1>4. PICK ps : ps = PointersRead(p, c)  OBVIOUS
<1>5. PICK fresh : fresh = c.fresh \cup ps \cup (IF slots[DateOf(c.id)] = NoRow THEN {} ELSE {SlotDoc(DateOf(c.id))})  OBVIOUS
<1>6. PICK slot : slot = slots[DateOf(c.id)]  OBVIOUS
<1>7. PICK d : d = [c EXCEPT !.step = "send", !.slot = slot, !.pointers = ps, !.fresh = fresh]  OBVIOUS
<1>8. /\ Shape(d) /\ d.kind = c.kind /\ d.id = c.id /\ d.arg = c.arg /\ d.reads = c.reads /\ d.facts = c.facts
      /\ d.step = "send" /\ d.slot = slot /\ d.pointers = ps /\ d.fresh = fresh
  <2>1. Shape(c)  BY <1>3 DEF CallOK
  <2> QED  BY <1>7, <2>1 DEF Shape
<1>9. PICK e : e = IF \A x \in Pointed(p, c) : ruledays[Weekday(DateOf(c.id))] = OriginOf(x) THEN d ELSE Turned(c)  OBVIOUS
<1>10. Become(p, e) /\ UNCHANGED <<vars, told>>  BY <1>1, <1>4, <1>5, <1>6, <1>7, <1>9 DEF Point, Reading
<1>11. c.kind \notin EditKinds  BY <1>1, <1>3 DEF CallOK, Form, EditKinds
<1>12. ASSUME \A x \in Pointed(p, c) : ruledays[Weekday(DateOf(c.id))] = OriginOf(x)
       PROVE  CallOK(p, d)
  <2>1. Read(c) /\ \A x \in c.reads : Knows(p, c, x)  BY <1>1, <1>3, <1>11 DEF CallOK
  <2>2. Form(p, c) /\ Form(p, d)  BY <1>3, <1>8, <1>11 DEF CallOK, Form, EditKinds
  <2>3. Read(d)  BY <1>8, <2>1 DEF Read
  <2>4. \A x : RowDoc(x) \in fresh => RowDoc(x) \in c.fresh
    <3>1. \A x : RowDoc(x) \notin ps  BY <1>4, DocsApart DEF PointersRead
    <3> QED  BY <1>5, <3>1, DocsApart
  <2>5. \A x \in d.reads : Knows(p, d, x)
    <3> SUFFICES ASSUME NEW x \in d.reads PROVE Knows(p, d, x)  OBVIOUS
    <3>1. Seen(d, x) = Seen(c, x) /\ Passed(p, c, x) = Passed(p, d, x)  BY <1>8 DEF Seen, Passed
    <3> QED  BY <1>8, <2>1, <2>4, <3>1 DEF Knows
  <2>6. ASSUME NEW x \in RowIds, Sure(d, x)
        PROVE  Stands(d, x) /\ Sure(c, x)
    <3>1. Opening(c, x)  BY <1>8, <2>6 DEF Sure, Opening
    <3>2. x \in c.reads => Knows(p, c, x) /\ RowDoc(x) \in c.fresh  BY <1>8, <2>1, <2>4, <2>6 DEF Sure
    <3>3. x \in Pointed(p, c) /\ DateOf(x) = DateOf(c.id)
      <4>1. CASE c.kind = "insert"  BY <3>1, <4>1 DEF Opening, Pointed
      <4>2. CASE c.kind # "insert"
        <5>1. x \in c.reads  BY <2>1, <3>1, <4>2 DEF Opening, Read
        <5> QED  BY <1>11, <2>1, <2>2, <3>1, <3>2, <5>1, OpeningPointed DEF CosmosInv, Read
      <4> QED  BY <4>1, <4>2
    <3>4. RuledayDoc(Weekday(DateOf(x))) \in ps  BY <1>4, <3>3 DEF PointersRead
    <3> QED  BY <1>8, <1>12, <3>1, <3>2, <3>3, <3>4 DEF Stands, Sure
  <2>7. \A x \in RowIds : Guarded(d, x)
    <3>1. \A x \in RowIds : Guarded(c, x)  BY <1>1, <1>3, <1>11 DEF CallOK
    <3> QED  BY <1>8, <2>6, <3>1 DEF Guarded
  <2>8. Steady(p, d) /\ Flagging(d)  BY <1>3, <1>8 DEF CallOK, Steady, Flagging
  <2> QED  BY <1>8, <1>11, <2>2, <2>3, <2>5, <2>6, <2>7, <2>8 DEF CallOK, Asserts, EditKinds
<1>13. (e = Idle \/ CallOK(p, e)) /\ (e.kind = "create" => e.kind = c.kind /\ e.id = c.id)
  BY <1>3, <1>8, <1>9, <1>11, <1>12, TurnedOK DEF CallOK
<1>14. Lone(p, e)  BY <1>1, <1>13, StaysLone
<1> QED  BY <1>10, <1>13, <1>14, ReadStep

LEMMA StaleStep ==
  ASSUME CosmosInv, NEW p \in Processes, Stale(p)
  PROVE  CosmosInv'
<1>1. PICK c : c = call[p] /\ c.step = "send" /\ c.kind \notin EditKinds  BY DEF Stale, Reading, EditKinds
<1>2. c # Idle  BY <1>1 DEF Idle
<1>3. CallOK(p, c) /\ Shape(c)  BY <1>1, <1>2 DEF CosmosInv, CallsOK, CallOK
<1>4. PICK d : d = [c EXCEPT !.step = "look"]  OBVIOUS
<1>5. /\ Shape(d) /\ d.kind = c.kind /\ d.id = c.id /\ d.arg = c.arg /\ d.reads = c.reads /\ d.facts = c.facts
      /\ d.step = "look"
  BY <1>3, <1>4 DEF Shape
<1>6. Form(p, d)  BY <1>1, <1>3, <1>5 DEF CallOK, Form, EditKinds
<1>7. CallOK(p, d)  BY <1>1, <1>3, <1>5, <1>6 DEF CallOK, EditKinds, Steady, Flagging
<1>8. PICK e : e = IF c.kind = "release" THEN d ELSE Turned(c)  OBVIOUS
<1>9. Become(p, e) /\ UNCHANGED <<vars, told>>  BY <1>1, <1>4, <1>8 DEF Stale, Reading
<1>10. (e = Idle \/ CallOK(p, e)) /\ e.kind # "create"  BY <1>1, <1>3, <1>5, <1>7, <1>8, TurnedOK DEF CallOK
<1>11. Lone(p, e)  BY <1>10 DEF Lone
<1> QED  BY <1>9, <1>10, <1>11, ReadStep

\* What record_outcomes goes through once an outcome was turned down.
LEMMA FlagReads ==
  ASSUME CosmosInv, NEW p \in Processes, FlagSlot(p) \/ FlagActive(p)
  PROVE  CosmosInv'
<1>1. PICK c : c = call[p] /\ c.step \in {"slot", "active"}  BY DEF FlagSlot, FlagActive, Reading
<1>2. c # Idle  BY <1>1 DEF Idle
<1>3. CallOK(p, c) /\ Shape(c) /\ c.kind = "record"  BY <1>1, <1>2 DEF CosmosInv, CallsOK, CallOK, Form
<1>4. ASSUME NEW d, Shape(d), d.kind = c.kind, d.id = c.id, d.arg = c.arg, d.reads \subseteq RowIds,
             d.step \in {"active", "flag"}, Flagging(d)
      PROVE  CallOK(p, d) /\ Lone(p, d)
  <2>1. Form(p, d)  BY <1>3, <1>4 DEF CallOK, Form, EditKinds
  <2>2. Steady(p, d)  BY <1>3, <1>4 DEF CallOK, Steady
  <2> QED  BY <1>3, <1>4, <2>1, <2>2 DEF CallOK, Lone
<1>5. CASE FlagSlot(p)
  <2>1. PICK slot : slot = slots[DateOf(c.id)]  OBVIOUS
  <2>2. PICK reads : reads = Displaced(DateOf(c.id))  OBVIOUS
  <2>3. PICK d : d = [c EXCEPT !.slot = slot, !.reads = reads, !.step = "active"]  OBVIOUS
  <2>4. Shape(d) /\ d.kind = c.kind /\ d.id = c.id /\ d.arg = c.arg /\ d.reads = reads /\ d.step = "active" /\ d.slot = slot
    BY <1>3, <2>3 DEF Shape
  <2>8. Flagging(d)  BY <2>1, <2>2, <2>4 DEF Flagging, Displaced
  <2>5. DateOf(c.id) \in Dates  BY <1>3, RowIdFacts DEF CallOK, Form
  <2>6. reads \subseteq RowIds  BY <2>2, <2>5 DEF Displaced, CosmosInv, TypeOK
  <2>7. Become(p, d) /\ UNCHANGED <<vars, told>>  BY <1>1, <1>5, <2>1, <2>2, <2>3 DEF FlagSlot, Reading
  <2> QED  BY <1>4, <2>4, <2>6, <2>7, <2>8, ReadStep
<1>6. CASE FlagActive(p)
  <2>1. PICK fresh : fresh = {RowDoc(x) : x \in c.reads}  OBVIOUS
  <2>2. PICK reads : reads = {x \in c.reads : ~rows[x].reconcile}  OBVIOUS
  <2>3. PICK facts : facts = [slot |-> c.slot, flagged |-> \E x \in c.reads : rows[x].reconcile]  OBVIOUS
  <2>4. PICK d : d = [c EXCEPT !.step = "flag", !.fresh = fresh, !.reads = reads, !.facts = facts]  OBVIOUS
  <2>5. Shape(d) /\ d.kind = c.kind /\ d.id = c.id /\ d.arg = c.arg /\ d.reads = reads /\ d.step = "flag"
        /\ d.slot = c.slot /\ d.facts = facts
    BY <1>3, <2>4 DEF Shape
  <2>8. Flagging(d)
    <3>1. c.step = "active"  BY <1>1, <1>6 DEF FlagActive, Reading
    <3>2. c.reads = IF c.slot = NoRow THEN {} ELSE {c.slot}  BY <1>3, <3>1 DEF CallOK, Flagging
    <3>3. facts.flagged = \E x \in c.reads : rows[x].reconcile  BY <2>3
    <3>4. CASE c.slot # NoRow /\ ~rows[c.slot].reconcile
      <4>1. reads = {c.slot}  BY <2>2, <3>2, <3>4
      <4> QED  BY <2>5, <3>4, <4>1 DEF Flagging
    <3>5. CASE ~(c.slot # NoRow /\ ~rows[c.slot].reconcile)
      <4>1. reads = {} /\ (c.slot # NoRow => facts.flagged)  BY <2>2, <3>2, <3>3, <3>5
      <4> QED  BY <2>5, <4>1 DEF Flagging
    <3> QED  BY <3>4, <3>5
  <2>6. reads \subseteq RowIds  BY <1>3, <2>2 DEF CallOK, Form
  <2>7. Become(p, d) /\ UNCHANGED <<vars, told>>  BY <1>1, <1>6, <2>1, <2>2, <2>3, <2>4 DEF FlagActive, Reading
  <2> QED  BY <1>4, <2>5, <2>6, <2>7, <2>8, ReadStep
<1> QED  BY <1>5, <1>6

LEMMA BeginEditStep ==
  ASSUME CosmosInv, NEW p \in Processes, BeginEdit(p)
  PROVE  CosmosInv'
<1>1. PICK kind \in Does[p] \cap {"edit", "mark"}, r \in Rules, d \in Dates, new \in Edits :
        /\ kind = "edit" => new # rules[r] /\ (rules[r].exists \/ new.active)
        /\ Become(p, [Call(kind, <<r, d>>, <<new>>) EXCEPT
                        !.step = IF kind = "mark" THEN "send" ELSE "point",
                        !.facts = [rule |-> rules[r]], !.fresh = {RuleDoc(r)}])
  BY DEF BeginEdit
<1>2. PICK c : c = Call(kind, <<r, d>>, <<new>>)  OBVIOUS
<1>3. Shape(c) /\ c.kind = kind /\ c.id = <<r, d>> /\ c.arg = <<new>> /\ c.reads = {}  BY <1>2 DEF Call, Shape
<1>4. PICK step : step = IF kind = "mark" THEN "send" ELSE "point"  OBVIOUS
<1>5. PICK facts : facts = [rule |-> rules[r]]  OBVIOUS
<1>6. PICK fresh : fresh = {RuleDoc(r)}  OBVIOUS
<1>7. PICK e : e = [c EXCEPT !.step = step, !.facts = facts, !.fresh = fresh]  OBVIOUS
<1>8. Shape(e) /\ e.kind = kind /\ e.id = <<r, d>> /\ e.arg = <<new>> /\ e.reads = {} /\ e.step = step
  BY <1>3, <1>7 DEF Shape
<1>9. Become(p, e) /\ UNCHANGED <<vars, told>>  BY <1>1, <1>2, <1>4, <1>5, <1>6, <1>7 DEF BeginEdit
<1>10. e.id \in RowIds /\ OriginOf(e.id) = r /\ IsRuleRow(e.id)  BY <1>8 DEF RowIds, Origins, OriginOf, IsRuleRow
<1>11. Form(p, e)  BY <1>1, <1>4, <1>8, <1>10 DEF Form, Kinds, LeasedKinds, EditKinds
<1>12. e.kind = "edit" => EditKnows(e)  BY <1>1, <1>4, <1>8, <1>10 DEF EditKnows
<1>13. CallOK(p, e) /\ Lone(p, e)
  <2>1. kind \in EditKinds /\ step \in {"point", "send"}  BY <1>1, <1>4 DEF EditKinds
  <2> QED  BY <1>8, <1>11, <1>12, <2>1 DEF CallOK, EditKinds, Steady, Flagging, Lone
<1> QED  BY <1>9, <1>13, ReadStep

LEMMA EditPointStep ==
  ASSUME CosmosInv, NEW p \in Processes, EditPoint(p)
  PROVE  CosmosInv'
<1>1. PICK c : c = call[p] /\ c.step = "point" /\ c.kind = "edit"  BY DEF EditPoint, Reading
<1>2. c # Idle  BY <1>1 DEF Idle
<1>3. CallOK(p, c) /\ Shape(c)  BY <1>1, <1>2 DEF CosmosInv, CallsOK, CallOK
<1>4. PICK new, r : new = c.arg[1] /\ r = OriginOf(c.id)  OBVIOUS
<1>5. new \in Rule /\ r \in Rules  BY <1>1, <1>3, <1>4, CallsAssumption DEF CallOK, Form, EditKinds, IsRuleRow
<1>6. PICK fresh : fresh = c.fresh \cup {RuledayDoc(x) : x \in {y \in {c.facts.rule.weekday, new.weekday} : ruledays[y] # NoRule}}
  OBVIOUS
<1>7. PICK slot : slot = ruledays  OBVIOUS
<1>8. PICK d : d = [c EXCEPT !.step = "send", !.slot = slot, !.fresh = fresh]  OBVIOUS
<1>9. Shape(d) /\ d.kind = c.kind /\ d.id = c.id /\ d.arg = c.arg /\ d.reads = c.reads /\ d.step = "send" /\ d.slot = slot
  BY <1>3, <1>8 DEF Shape
<1>10. PICK e : e = IF new.active /\ FreedRuledays(r)[new.weekday] \notin {NoRule, r} THEN Idle ELSE d  OBVIOUS
<1>11. Become(p, e) /\ UNCHANGED <<vars, told>>
  BY <1>1, <1>4, <1>6, <1>7, <1>8, <1>10 DEF EditPoint, Reading
<1>12. ASSUME new.active => FreedRuledays(r)[new.weekday] \in {NoRule, r}
       PROVE  CallOK(p, d)
  <2>1. Form(p, d)  BY <1>1, <1>3, <1>9 DEF CallOK, Form
  <2>2. new.weekday \in Weekdays  BY <1>5 DEF Rule
  <2>3. new.active => ruledays[new.weekday] \in {NoRule, r}  BY <1>12, <2>2 DEF FreedRuledays
  <2>4. EditKnows(d)  BY <1>1, <1>3, <1>4, <1>7, <1>9, <2>3 DEF CallOK, EditKnows
  <2> QED  BY <1>1, <1>9, <2>1, <2>4 DEF CallOK, EditKinds, Steady, Flagging
<1>13. Lone(p, e)  BY <1>1, <1>9, <1>10 DEF Lone, Idle
<1> QED  BY <1>10, <1>11, <1>12, <1>13, ReadStep

LEMMA EditStaleStep ==
  ASSUME CosmosInv, NEW p \in Processes, EditStale(p)
  PROVE  CosmosInv'
<1>1. PICK c : c = call[p] /\ c.step = "send" /\ c.kind \in EditKinds  BY DEF EditStale, Reading, EditKinds
<1>2. c # Idle  BY <1>1 DEF Idle
<1>3. CallOK(p, c) /\ Shape(c)  BY <1>1, <1>2 DEF CosmosInv, CallsOK, CallOK
<1>4. PICK step : step = IF c.kind = "mark" THEN "send" ELSE "point"  OBVIOUS
<1>5. PICK fresh : fresh = {RuleDoc(OriginOf(c.id))}  OBVIOUS
<1>6. PICK d : d = [c EXCEPT !.step = step, !.fresh = fresh]  OBVIOUS
<1>7. Shape(d) /\ d.kind = c.kind /\ d.id = c.id /\ d.arg = c.arg /\ d.reads = c.reads /\ d.step = step
  BY <1>3, <1>6 DEF Shape
<1>8. c.kind = "mark" => [c EXCEPT !.fresh = fresh] = d
  <2>1. ASSUME c.kind = "mark" PROVE [c EXCEPT !.fresh = fresh] = d  BY <1>1, <1>3, <1>4, <1>6, <2>1 DEF Shape
  <2> QED  BY <2>1
<1>9. PICK e \in {d, Idle} : Become(p, e) /\ UNCHANGED <<vars, told>>
  <2>1. CASE c.kind = "mark"  BY <1>1, <1>5, <1>8, <2>1 DEF EditStale, Reading
  <2>2. CASE c.kind = "edit"  BY <1>1, <1>4, <1>5, <1>6, <2>2 DEF EditStale, Reading
  <2> QED  BY <1>1, <2>1, <2>2 DEF EditKinds
<1>10. Form(p, d)  BY <1>1, <1>3, <1>4, <1>7 DEF CallOK, Form, EditKinds
<1>11. c.kind = "edit" => EditKnows(d)  BY <1>3, <1>4, <1>7 DEF CallOK, EditKnows
<1>12. CallOK(p, d)  BY <1>1, <1>4, <1>7, <1>10, <1>11 DEF CallOK, EditKinds, Steady, Flagging
<1>13. Lone(p, e)  BY <1>1, <1>7, <1>9 DEF Lone, Idle, EditKinds
<1> QED  BY <1>9, <1>12, <1>13, ReadStep

-----------------------------------------------------------------------------
(* The batches.                                                            *)

\* The answer of a batch that landed arrives or is lost.
LEMMA AnsweredCalls ==
  ASSUME TypeOK, TypeOK', CallsOK, NEW p \in Processes, NEW docs, NEW granted, DocFrame(docs), OwnFrame(p),
         NEW c, c = call[p], CallOK(p, c), p \in Owners => Steady(p, c)', Answered(p, docs, granted)
  PROVE  CallsOK' /\ (told' = granted \/ told' = told \cap granted)
<1>1. CASE Stamp(p, Idle, docs) /\ told' = granted
  <2>1. Idle.kind # "create"  BY DEF Idle
  <2>2. CallsOK'  BY <1>1, <2>1, WrittenCalls
  <2> QED  BY <1>1, <2>2
<1>2. CASE told' = told \cap granted /\ Stamp(p, IF p \in Owners THEN [call[p] EXCEPT !.step = "look"] ELSE Idle, docs)
  <2>2. CallOK(p, c) /\ Shape(c)  BY DEF CallOK
  <2>3. PICK d : d = [c EXCEPT !.step = "look"]  OBVIOUS
  <2>4. Shape(d) /\ d.kind = c.kind /\ d.id = c.id /\ d.arg = c.arg /\ d.reads = c.reads /\ d.step = "look"
    BY <2>2, <2>3 DEF Shape
  <2>5. Form(p, d)'  BY <2>2, <2>4 DEF CallOK, Form
  <2>6. d.kind = "edit" => EditKnows(d)'
    <3>1. ASSUME d.kind = "edit" PROVE EditKnows(d)'
      <4>1. EditKnows(c) /\ OriginOf(c.id) \in Rules  BY <2>2, <2>4, <3>1 DEF CallOK, Form, EditKinds, IsRuleRow
      <4> QED  BY <2>4, <4>1 DEF EditKnows, DocFrame
    <3> QED  BY <3>1
  <2>7. p \in Owners => CallOK(p, d)'
    <3>1. p \in Owners => Steady(p, d)'  BY <2>4 DEF Steady
    <3>2. Flagging(d)'  BY <2>4 DEF Flagging
    <3> QED  BY <2>4, <2>5, <2>6, <3>1, <3>2 DEF CallOK
  <2>8. PICK e : e = IF p \in Owners THEN d ELSE Idle  OBVIOUS
  <2>9. Stamp(p, e, docs)  BY <1>2, <2>3, <2>8
  <2>10. e = Idle \/ CallOK(p, e)'  BY <2>7, <2>8
  <2>12. e.kind # "create"  BY <2>2, <2>4, <2>8 DEF CallOK, Form, Idle
  <2>11. CallsOK'  BY <2>9, <2>10, <2>12, WrittenCalls
  <2> QED  BY <1>2, <2>11
<1> QED  BY <1>1, <1>2 DEF Answered

\* The slots after a batch that landed: the one it read is free, or left in the same batch.
LEMMA LandedSlots ==
  ASSUME TypeOK, OneActiveRowPerDate, NEW p, NEW c, CallOK(p, c), c.step = "send", c.kind \notin EditKinds,
         Lands(c, Writes(p, c)), rows' = Stored(Writes(p, c)), slots' = Taken(Writes(p, c))
  PROVE  /\ rows' \in [RowIds -> Row] /\ slots' \in [Dates -> RowIds \cup {NoRow}] /\ OneActiveRowPerDate'
         /\ \A x \in DOMAIN Writes(p, c) :
               /\ IsRuleRow(x) /\ BecomesBookable(rows[x], Writes(p, c)[x]) => Opening(c, x)
               /\ Opening(c, x) => ruledays[Weekday(DateOf(x))] = OriginOf(x)
         /\ \A e \in Entering(Writes(p, c)) : Freed(Writes(p, c))[DateOf(e)] \in {NoRow, e}
         /\ \A e, f \in Entering(Writes(p, c)) : e = f
<1>1. PICK w : w = Writes(p, c)  OBVIOUS
<1>2. Form(p, c) /\ Read(c) /\ (\A x \in c.reads : Knows(p, c, x)) /\ (\A x \in RowIds : Asserts(c, x))
  BY DEF CallOK
<1>3. \A x \in DOMAIN w : x \in RowIds /\ DateOf(x) = DateOf(c.id)  BY <1>1, <1>2, WritesRows
<1>4. \A x \in DOMAIN w : x \in c.reads => Knows(p, c, x) /\ RowDoc(x) \in c.fresh
  BY <1>1, <1>2 DEF Lands, RowsMatch
<1>5. \A x \in DOMAIN w :
        /\ w[x] \in Row
        /\ IsRuleRow(x) /\ BecomesBookable(rows[x], w[x]) => Opening(c, x)
        /\ rows[x].status \notin ActiveStatuses /\ w[x].status \in ActiveStatuses
              => x = c.id \/ (c.kind = "withdraw" /\ Opening(c, x))
  <2> SUFFICES ASSUME NEW x \in DOMAIN w
               PROVE  /\ w[x] \in Row
                      /\ IsRuleRow(x) /\ BecomesBookable(rows[x], w[x]) => Opening(c, x)
                      /\ rows[x].status \notin ActiveStatuses /\ w[x].status \in ActiveStatuses
                            => x = c.id \/ (c.kind = "withdraw" /\ Opening(c, x))
    OBVIOUS
  <2>1. x \in DOMAIN Writes(p, c) /\ (x \in c.reads => Knows(p, c, x) /\ RowDoc(x) \in c.fresh)  BY <1>1, <1>4
  <2> QED  BY <1>1, <1>2, <2>1, WritesRow
<1>6. \A x \in DOMAIN w : Opening(c, x) => ruledays[Weekday(DateOf(x))] = OriginOf(x)
  <2> SUFFICES ASSUME NEW x \in DOMAIN w, Opening(c, x) PROVE ruledays[Weekday(DateOf(x))] = OriginOf(x)  OBVIOUS
  <2>1. Stands(c, x)  BY <1>2, <1>3, <1>4 DEF Asserts, Sure
  <2>2. c.pointers \subseteq c.fresh  BY DEF Lands, PointersMatch
  <2> QED  BY <2>1, <2>2 DEF Stands
<1>7. /\ Entering(w) \subseteq DOMAIN w /\ Leaving(w) \subseteq DOMAIN w
      /\ \A x \in Entering(w) : rows[x].status \notin ActiveStatuses /\ w[x].status \in ActiveStatuses
  BY DEF Entering, Leaving, Active
<1>8. c.kind = "withdraw" => c.id \notin Entering(w)
  <2> SUFFICES ASSUME c.kind = "withdraw" PROVE w[c.id].status \notin ActiveStatuses  BY DEF Entering
  <2>1. Writes(p, c) = RestoredFor(c) /\ c.id \in RowIds  BY <1>2, WritesRows DEF Form
  <2>2. w[c.id] = Moved(c)  BY <1>1, <2>1 DEF RestoredFor
  <2>3. Moved(c).status = "withdrawn"  BY <2>1, MovedRow
  <2> QED  BY <2>2, <2>3 DEF ActiveStatuses
<1>9. ASSUME NEW e \in Entering(w), NEW f \in Entering(w) PROVE e = f
  <2>1. CASE c.kind # "withdraw"  BY <1>5, <1>7, <2>1
  <2>2. CASE c.kind = "withdraw"
    <3>1. Opening(c, e) /\ Opening(c, f)  BY <1>5, <1>7, <1>8, <2>2
    <3>2. OriginOf(e) = OriginOf(f) /\ DateOf(e) = DateOf(f)  BY <1>3, <1>6, <1>7, <3>1
    <3>3. e \in RowIds /\ f \in RowIds  BY <1>3, <1>7
    <3> QED  BY <3>2, <3>3 DEF RowIds, OriginOf, DateOf
  <2> QED  BY <2>1, <2>2
<1>10. ASSUME NEW e \in Entering(w) PROVE Freed(w)[DateOf(e)] \in {NoRow, e}
  <2>1. e \in RowIds /\ DateOf(e) = DateOf(c.id) /\ DateOf(e) \in Dates  BY <1>3, <1>7, RowIdFacts
  <2>2. Moving(w)  BY DEF Moving
  <2>3. slots[DateOf(e)] \in {NoRow} \cup Leaving(w) \cup Entering(w)
    BY <1>1, <2>1, <2>2 DEF Lands, SlotMatches
  <2>4. slots[DateOf(e)] \in Entering(w) => slots[DateOf(e)] = e  BY <1>9
  <2> QED  BY <2>1, <2>3, <2>4 DEF Freed
<1>11. DOMAIN w \in SUBSET RowIds /\ w \in [DOMAIN w -> Row]
  <2>1. w = [x \in DOMAIN w |-> w[x]]  BY <1>1 DEF Writes, RestoredFor, Created
  <2> QED  BY <1>3, <1>5, <2>1
<1>12. Batch(w)  BY <1>1 DEF Batch, Stored, Taken
<1>13. PICK S \in SUBSET RowIds : w \in [S -> Row]  BY <1>11
<1>14. \A e, f \in Entering(w) : DateOf(e) = DateOf(f) => e = f  BY <1>9
<1>15. \A e \in Entering(w) : Freed(w)[DateOf(e)] \in {NoRow, e}  BY <1>10
<1>16. OneActiveRowPerDate'  BY <1>12, <1>13, <1>14, <1>15, BatchSlots
<1>17. rows' \in [RowIds -> Row] /\ slots' \in [Dates -> RowIds \cup {NoRow}]  BY <1>12, <1>13, BatchType
<1> QED  BY <1>1, <1>5, <1>6, <1>9, <1>15, <1>16, <1>17

\* Leases that were granted stick: a batch replaces only rows that are as it read them, and
\* those are under its own lease or none.
LEMMA LandedLeases ==
  ASSUME TypeOK, ToldOK, NEW p, NEW c, CallOK(p, c), c.step = "send", c.kind \notin EditKinds,
         Lands(c, Writes(p, c)), rows' = Stored(Writes(p, c)), told' \subseteq Granted(p, c)
  PROVE  ToldOK'
<1>1. PICK w : w = Writes(p, c)  OBVIOUS
<1>2. Form(p, c) /\ Read(c) /\ (\A x \in c.reads : Knows(p, c, x))  BY DEF CallOK
<1>3. ASSUME NEW t \in told'
      PROVE  /\ t \in Owners \X RowIds
             /\ rows'[t[2]].live /\ rows'[t[2]].owner = t[1] /\ rows'[t[2]].status \in {"pending", "booked"}
  <2>1. t \in told \/ (c.kind \in {"claim", "acquire"} /\ t = <<p, c.id>>)  BY <1>3 DEF Granted
  <2>2. c.kind \in {"release", "record"} => t # <<p, c.id>>  BY <1>3 DEF Granted
  <2>3. c.kind \in LeasedKinds => p \in Owners /\ c.id \in RowIds  BY <1>2 DEF Form
  <2>4. t \in Owners \X RowIds  BY <2>1, <2>3 DEF ToldOK, LeasedKinds
  <2>5. PICK o \in Owners, x \in RowIds : t = <<o, x>>  BY <2>4
  <2>6. rows'[x] = IF x \in DOMAIN w THEN w[x] ELSE rows[x]  BY <1>1 DEF Stored
  <2>7. t \in told => rows[x].live /\ rows[x].owner = o /\ rows[x].status \in {"pending", "booked"}
    BY <2>5 DEF ToldOK, LeaseSticks
  <2>8. CASE x \notin DOMAIN w
    <3>1. ASSUME c.kind \in {"claim", "acquire"} PROVE c.id \in DOMAIN w
      <4>1. Writes(p, c) = [y \in {c.id} |-> Written(p, c)]  BY <3>1 DEF Writes
      <4> QED  BY <1>1, <4>1
    <3>2. t = <<p, c.id>> => x = c.id  BY <2>5
    <3>3. t \in told  BY <2>1, <2>8, <3>1, <3>2
    <3> QED  BY <2>4, <2>5, <2>6, <2>7, <2>8, <3>3
  <2>9. CASE x \in DOMAIN w
    <3>1. x \in c.reads => RowDoc(x) \in c.fresh /\ Knows(p, c, x)  BY <1>1, <1>2, <2>9 DEF Lands, RowsMatch
    <3>2. x \notin c.reads => rows[x].status = "absent"  BY <1>1, <2>9 DEF Lands, RowsMatch
    <3>3. c.kind \in LeasedKinds /\ o = p /\ x = c.id
      <4>1. CASE t \in told
        <5>1. rows[x].live /\ x \in c.reads  BY <2>7, <3>2, <4>1
        <5>2. c.kind \in LeasedKinds /\ rows[x].owner = p  BY <3>1, <5>1 DEF Knows
        <5>3. x = c.id  BY <1>2, <5>1, <5>2 DEF Read, LeasedKinds
        <5> QED  BY <2>7, <4>1, <5>2, <5>3
      <4>2. CASE t \notin told  BY <2>1, <2>5, <4>2 DEF LeasedKinds
      <4> QED  BY <4>1, <4>2
    <3>4. c.kind \in {"claim", "acquire"}  BY <2>2, <2>5, <3>3 DEF LeasedKinds
    <3>5. x \in c.reads  BY <1>2, <3>3, <3>4 DEF Read
    <3>6. rows[x].status \in {"pending", "booked"}  BY <3>1, <3>4, <3>5 DEF Knows, Seen
    <3>7. w[x] = [rows[x] EXCEPT !.owner = p, !.live = TRUE]  BY <1>1, <3>3, <3>4 DEF Writes, Written
    <3>8. PICK row \in Row : row = rows[x]  BY StoredRow
    <3>9. PICK new : new = [row EXCEPT !.owner = p, !.live = TRUE]  OBVIOUS
    <3>10. new.live /\ new.owner = p /\ new.status = row.status  BY <3>9 DEF Row
    <3>11. rows'[x] = new  BY <2>6, <2>9, <3>7, <3>8, <3>9
    <3> QED  BY <2>4, <2>5, <3>3, <3>6, <3>8, <3>10, <3>11
  <2> QED  BY <2>8, <2>9
<1> QED  BY <1>3 DEF ToldOK, LeaseSticks

\* A batch leases to its owner alone, keeps a cancelled row cancelled, and creates only the
\* row it is about.
LEMMA LeftAlone ==
  ASSUME TypeOK, NEW p, NEW c, Form(p, c), Read(c), c.kind \notin EditKinds,
         NEW x \in DOMAIN Writes(p, c), x \in c.reads => Knows(p, c, x) /\ RowDoc(x) \in c.fresh,
         x \notin c.reads => rows[x].status = "absent"
  PROVE  /\ Writes(p, c)[x].owner \in {rows[x].owner, NoOwner, p}
         /\ c.kind = "release" => Writes(p, c)[x].owner = NoOwner
         /\ IsUserTerminal(rows[x]) => IsUserTerminal(Writes(p, c)[x])
         /\ rows[x].status = "absent" /\ Writes(p, c)[x].status # "absent" => x = c.id /\ c.kind \in {"insert", "create"}
<1>1. x \in RowIds /\ x \in {c.id} \cup c.reads  BY WritesRows
<1>2. x \in c.reads => rows[x].status \in Seen(c, x)  BY DEF Knows
<1>3. PICK old \in Row : old = rows[x]  BY <1>1, StoredRow
<1>4. PICK u \in Row : u = UnleasedWrite(rows[x]) /\ u.owner \in {old.owner, NoOwner}
  <2>1. UnleasedWrite(old) \in Row /\ UnleasedWrite(old).owner \in {old.owner, NoOwner}  BY DEF UnleasedWrite, Row
  <2> QED  BY <1>3, <2>1
<1>5. PICK new : new = Writes(p, c)[x]  OBVIOUS
<1>6. x \notin c.reads => x = c.id /\ c.kind \in {"insert", "create"}
  <2>1. CASE c.kind = "withdraw"  BY <2>1, WritesRows DEF Read
  <2>2. CASE c.kind \notin {"withdraw", "insert", "create"}
    <3>1. DOMAIN Writes(p, c) = {c.id} /\ c.reads = {c.id}  BY <2>2, WritesRows DEF Read
    <3> QED  BY <3>1
  <2> QED  BY <1>1, <2>1, <2>2
<1>7. CASE c.kind \in {"release", "record"}
  <2>1. x = c.id /\ new = Written(p, c) /\ x \in c.reads
    <3>1. DOMAIN Writes(p, c) = {c.id} /\ Writes(p, c)[c.id] = Written(p, c)  BY <1>7, WritesRows
    <3> QED  BY <1>5, <1>6, <1>7, <3>1
  <2>2. CASE c.kind = "release"
    <3>1. new = [old EXCEPT !.owner = NoOwner, !.live = FALSE]  BY <1>3, <2>1, <2>2 DEF Written
    <3>2. new.owner = NoOwner /\ new.status = old.status /\ new.reason = old.reason  BY <3>1 DEF Row
    <3> QED  BY <1>3, <1>5, <2>2, <3>2 DEF IsUserTerminal
  <2>3. CASE c.kind = "record"
    <3>1. PICK o \in OutcomeType : o = c.arg[1]
      BY <2>3, OutcomesType, OwnerAssumption DEF Form, LeasedKinds
    <3>2. new = OutcomeRow(p, x, o) /\ new.status = IF o.to = "same" THEN old.status ELSE o.to
      <4>1. p \in Owners  BY <2>3 DEF Form, LeasedKinds
      <4> QED  BY <1>1, <1>3, <2>1, <2>3, <3>1, <4>1, OutcomeRowType DEF Written
    <3>3. CASE o.to = "same"
      <4>1. PICK noted : noted = [old EXCEPT !.reconcile = @ \/ o.reconcile]  OBVIOUS
      <4>2. noted.status = old.status /\ noted.reason = old.reason /\ noted.owner = old.owner /\ noted \in Row
        BY <3>1, <4>1 DEF Row, OutcomeType
      <4>3. new = IF old.owner = p THEN [noted EXCEPT !.owner = NoOwner, !.live = FALSE] ELSE noted
        BY <1>3, <3>2, <3>3, <4>1 DEF OutcomeRow
      <4>4. new.status = old.status /\ new.reason = old.reason /\ new.owner \in {old.owner, NoOwner}
        BY <4>2, <4>3 DEF Row
      <4> QED  BY <1>3, <1>5, <2>3, <4>4 DEF IsUserTerminal
    <3>4. CASE o.to # "same"
      <4>1. old.status \in {"pending", "booked"}  BY <1>2, <1>3, <2>1, <2>3, <3>1, <3>4 DEF Seen
      <4>2. PICK b : b = BookingFields(old, o)  OBVIOUS
      <4>3. b \in Row /\ b.owner = old.owner  BY <3>1, <4>2 DEF BookingFields, Row, OutcomeType
      <4>4. PICK m : m = [b EXCEPT !.status = o.to, !.reason = o.reason, !.reconcile = o.reconcile]  OBVIOUS
      <4>5. m.owner = old.owner /\ m = [status |-> m.status, reason |-> m.reason, from |-> m.from, cutoff |-> m.cutoff,
                own |-> m.own, want |-> m.want, owner |-> m.owner, live |-> m.live, reconcile |-> m.reconcile, raw |-> m.raw]
        BY <4>3, <4>4 DEF Row
      <4>6. new = IF old.owner = p THEN [m EXCEPT !.owner = NoOwner, !.live = FALSE] ELSE m
        BY <1>3, <3>2, <3>4, <4>2, <4>4 DEF OutcomeRow
      <4>7. new.owner \in {old.owner, NoOwner}  BY <4>5, <4>6
      <4> QED  BY <1>3, <1>5, <2>3, <4>1, <4>7 DEF IsUserTerminal
    <3> QED  BY <3>3, <3>4
  <2> QED  BY <1>7, <2>2, <2>3
<1>8. CASE c.kind \notin {"release", "record"}
  <2>1. x \in c.reads => old.status \notin {"absent", "cancelled"}
    <3>1. c.kind # "insert" => Seen(c, x) \subseteq {"pending", "booked", "skipped", "superseded", "withdrawn"}
      BY <1>8 DEF Seen, Form, Kinds, LeasedKinds, EditKinds
    <3>2. c.kind = "insert" => c.reads = {}  BY DEF Read
    <3> QED  BY <1>2, <1>3, <3>1, <3>2
  <2>2. new.owner \in {old.owner, NoOwner, p}
    <3>1. CASE c.kind = "withdraw"
      <4>1. x \in {c.id} \cup c.facts.back /\ new = RestoredFor(c)[x]  BY <1>5, <3>1, WritesRows
      <4>2. CASE x = c.id
        <5>1. new = Moved(c)  BY <4>1, <4>2 DEF RestoredFor
        <5>2. PICK t : t = Transitions["withdraw"]  OBVIOUS
        <5>3. PICK from : from = IF t.to = "withdrawn" THEN u.from ELSE "none"  OBVIOUS
        <5>4. new = [u EXCEPT !.status = t.to, !.reason = t.reason, !.from = from]
          BY <1>4, <3>1, <4>2, <5>1, <5>2, <5>3 DEF Moved
        <5> QED  BY <1>4, <5>4 DEF Row
      <4>3. CASE x # c.id
        <5>1. PICK v : v = [u EXCEPT !.status = Prior(rows[x]), !.reason = "none", !.from = "none",
                                     !.want = IF rows[x].status = "withdrawn" THEN RuleOf(x).want ELSE @]
          OBVIOUS
        <5>2. v.owner = u.owner /\ v = [status |-> v.status, reason |-> v.reason, from |-> v.from, cutoff |-> v.cutoff,
                own |-> v.own, want |-> v.want, owner |-> v.owner, live |-> v.live, reconcile |-> v.reconcile, raw |-> v.raw]
          BY <5>1 DEF Row
        <5>3. PICK want : want = IF rows[x].status = "withdrawn" THEN c.facts.want[x] ELSE v.want  OBVIOUS
        <5>4. Restored(x) = v  BY <1>4, <5>1 DEF Restored
        <5>5. new = [v EXCEPT !.want = want]  BY <4>1, <4>3, <5>3, <5>4 DEF RestoredFor
        <5>6. new.owner = v.owner  BY <5>2, <5>5
        <5> QED  BY <1>4, <5>2, <5>6
      <4> QED  BY <4>2, <4>3
    <3>2. CASE c.kind = "create"
      <4>1. new = Created(c)[x]  BY <1>5, <3>2, WritesRows
      <4>2. CASE x = c.id
        <5>1. new = NewRow("pending", AnyWant, CutoffAt(DateOf(x), SiteCutoff))  BY <4>1, <4>2 DEF Created
        <5> QED  BY <5>1 DEF NewRow, AbsentRow
      <4>3. CASE x # c.id
        <5>1. new = [u EXCEPT !.status = "superseded", !.from = rows[x].status]  BY <1>1, <1>4, <4>1, <4>3 DEF Created
        <5> QED  BY <1>4, <5>1 DEF Row
      <4> QED  BY <4>2, <4>3
    <3>3. CASE c.kind \notin {"withdraw", "create"}
      <4>1. x = c.id /\ new = Written(p, c)
        <5>1. DOMAIN Writes(p, c) = {c.id} /\ Writes(p, c)[c.id] = Written(p, c)  BY <3>3, WritesRows
        <5> QED  BY <1>5, <5>1
      <4>2. CASE c.kind = "insert"  BY <4>1, <4>2 DEF Written, Inserted, NewRow, AbsentRow
      <4>3. CASE c.kind = "reactivate"
        <5>1. new = [u EXCEPT !.status = Prior(rows[x]), !.reason = "none", !.from = "none",
                              !.want = c.facts.want, !.cutoff = c.facts.at]
          BY <1>4, <4>1, <4>3 DEF Written, Reactivated
        <5> QED  BY <1>4, <5>1 DEF Row
      <4>4. CASE c.kind = "rewrite"
        <5>1. new = [u EXCEPT !.want = c.facts.want]  BY <1>4, <4>1, <4>4 DEF Written
        <5> QED  BY <1>4, <5>1 DEF Row
      <4>5. CASE c.kind \in {"claim", "acquire"}
        <5>1. new = [old EXCEPT !.owner = p, !.live = TRUE]  BY <1>3, <4>1, <4>5 DEF Written
        <5> QED  BY <5>1 DEF Row
      <4>6. CASE c.kind = "finalize"
        <5>1. \/ new = [u EXCEPT !.status = "lost", !.reason = "none"]
              \/ new = [u EXCEPT !.status = "withdrawn", !.reason = "system"]
          BY <1>4, <4>1, <4>6 DEF Written, Ended
        <5> QED  BY <1>4, <5>1 DEF Row
      <4>7. CASE c.kind \in {"skip", "unskip", "drop"}
        <5>1. new = Moved(c)  BY <4>1, <4>7 DEF Written
        <5>2. PICK t : t = Transitions[c.kind]  OBVIOUS
        <5>3. PICK from : from = IF t.to = "withdrawn" THEN u.from ELSE "none"  OBVIOUS
        <5>4. new = [u EXCEPT !.status = t.to, !.reason = t.reason, !.from = from]
          BY <1>4, <4>1, <5>1, <5>2, <5>3 DEF Moved
        <5> QED  BY <1>4, <5>4 DEF Row
      <4> QED  BY <1>8, <3>3, <4>2, <4>3, <4>4, <4>5, <4>6, <4>7 DEF Form, Kinds, LeasedKinds, EditKinds
    <3> QED  BY <3>1, <3>2, <3>3
  <2>3. IsUserTerminal(old) => FALSE  BY <1>3, <2>1 DEF IsUserTerminal
  <2>4. old.status = "absent" => x = c.id /\ c.kind \in {"insert", "create"}  BY <1>6, <2>1
  <2> QED  BY <1>3, <1>5, <1>8, <2>2, <2>3, <2>4
<1> QED  BY <1>7, <1>8

\* A batch of rows that landed.
LEMMA SendStep ==
  ASSUME CosmosInv, NEW p \in Processes, Send(p)
  PROVE  /\ CosmosInv'
         /\ \A x \in RowIds : IsRuleRow(x) /\ BecomesBookable(rows[x], rows'[x])
               => ruledays[Weekday(DateOf(x))] = OriginOf(x)
<1>1. PICK c : c = call[p] /\ c.step = "send" /\ c.kind \notin EditKinds  BY DEF Send, EditKinds
<1>2. c # Idle  BY <1>1 DEF Idle
<1>3. CallOK(p, c) /\ Form(p, c) /\ Read(c)  BY <1>1, <1>2 DEF CosmosInv, CallsOK, CallOK
<1>4. TypeOK /\ OneActiveRowPerDate /\ RuledayAgreement /\ Settled /\ ToldOK /\ CallsOK  BY DEF CosmosInv
<1>5. PICK w : w = Writes(p, c)  OBVIOUS
<1>6. PICK docs : docs = {RowDoc(x) : x \in DOMAIN w} \cup c.pointers
                         \cup {SlotDoc(d) : d \in {e \in Dates : Taken(w)[e] # slots[e]}}
  OBVIOUS
<1>7. PICK granted : granted = Granted(p, c)  OBVIOUS
<1>8. /\ Lands(c, w) /\ rows' = Stored(w) /\ slots' = Taken(w) /\ Ledgered(c) /\ Noted(p, c)
      /\ Answered(p, docs, granted) /\ UNCHANGED <<rules, ruledays, userCutoff, now>>
  BY <1>1, <1>5, <1>6, <1>7 DEF Send
<1>9. /\ rows' \in [RowIds -> Row] /\ slots' \in [Dates -> RowIds \cup {NoRow}] /\ OneActiveRowPerDate'
      /\ \A x \in DOMAIN w : IsRuleRow(x) /\ BecomesBookable(rows[x], w[x]) => ruledays[Weekday(DateOf(x))] = OriginOf(x)
  BY <1>1, <1>3, <1>4, <1>5, <1>8, LandedSlots
<1>10. \A x \in RowIds : rows'[x] = IF x \in DOMAIN w THEN w[x] ELSE rows[x]  BY <1>8 DEF Stored
<1>19. ASSUME NEW x \in DOMAIN w
       PROVE  /\ w[x].owner \in {rows[x].owner, NoOwner, p} /\ (c.kind = "release" => w[x].owner = NoOwner)
              /\ IsUserTerminal(rows[x]) => IsUserTerminal(w[x])
              /\ rows[x].status = "absent" /\ w[x].status # "absent" => x = c.id /\ c.kind \in {"insert", "create"}
  <2>1. /\ x \in c.reads => RowDoc(x) \in c.fresh /\ Knows(p, c, x)
        /\ x \notin c.reads => rows[x].status = "absent"
    BY <1>1, <1>3, <1>8, <1>19 DEF Lands, RowsMatch, CallOK
  <2>2. x \in DOMAIN Writes(p, c)  BY <1>5, <1>19
  <2> QED  BY <1>1, <1>3, <1>4, <1>5, <2>1, <2>2, LeftAlone
<1>20. \A b \in Raws : ledger[b] # "absent" => ledger'[b] # "absent"
  BY <1>8 DEF Ledgered, WriteLedger
<1>11. DocFrame(docs)
  <2>1. \A x \in RowIds : RowDoc(x) \notin docs => AsRead(rows[x], rows'[x])  BY <1>6, <1>10 DEF AsRead
  <2>2. \A x \in RowIds : IsUserTerminal(rows[x]) => IsUserTerminal(rows'[x])  BY <1>10, <1>19
  <2>3. \A d \in Dates : DateClosed(d) => DateClosed(d)'  BY <2>2 DEF DateClosed
  <2> QED  BY <1>8, <1>20, <2>1, <2>3 DEF DocFrame
<1>21. OwnFrame(p)
  <2>1. ASSUME NEW q \in Owners \ {p}, NEW x \in RowIds, rows'[x].owner = q PROVE rows[x].owner = q
    BY <1>10, <1>19, <2>1, OwnerAssumption
  <2>2. \A q \in Owners \ {p} : working'[q] = working[q]  BY <1>4, <1>8 DEF Noted, TypeOK
  <2>3. ASSUME NEW x \in RowIds, rows[x].status = "absent", rows'[x].status # "absent"
        PROVE  IsRuleRow(x) \/ Creates(p, OriginOf(x))
    <3>1. x = c.id /\ c.kind \in {"insert", "create"}  BY <1>10, <1>19, <2>3
    <3> QED  BY <1>1, <1>3, <3>1 DEF Form, Creates
  <2> QED  BY <2>1, <2>2, <2>3 DEF OwnFrame
<1>22. p \in Owners => Steady(p, c)'
  <2> SUFFICES ASSUME p \in Owners PROVE Steady(p, c)'  OBVIOUS
  <2>1. Steady(p, c) /\ c.id \in RowIds  BY <1>3 DEF CallOK, Form
  <2>2. CASE c.kind \in {"claim", "acquire"}
    <3>1. working' = [working EXCEPT ![p] = c.id]  BY <1>8, <2>2 DEF Noted
    <3>2. working'[p] = c.id  BY <1>4, <3>1 DEF TypeOK
    <3> QED  BY <2>2, <3>2 DEF Steady
  <2>3. CASE c.kind = "release"
    <3>1. working' = [working EXCEPT ![p] = NoRow]  BY <1>8, <2>3 DEF Noted
    <3>2. working'[p] = NoRow  BY <1>4, <3>1 DEF TypeOK
    <3>3. c.id \in DOMAIN w  BY <1>1, <1>3, <1>5, WritesRows
    <3>4. rows'[c.id].owner = NoOwner  BY <1>10, <1>19, <2>1, <2>3, <3>3
    <3>5. NoOwner # p  BY OwnerAssumption
    <3> QED  BY <2>3, <3>2, <3>4, <3>5 DEF Steady
  <2>4. CASE c.kind = "record"
    <3>1. working' = working  BY <1>8, <2>4 DEF Noted
    <3>2. c.arg[1].dropped \subseteq Raws
      <4>1. c.arg[1] \in OutcomeType  BY <1>3, <2>4, OutcomesType, OwnerAssumption DEF Form, LeasedKinds
      <4> QED  BY <4>1 DEF OutcomeType
    <3>3. Drops(p, c.arg[1])'  BY <1>20, <2>1, <2>4, <3>2 DEF Steady, Drops
    <3> QED  BY <2>1, <2>4, <3>1, <3>3 DEF Steady
  <2>5. CASE c.kind \notin {"claim", "acquire", "release", "record"}
    <3>1. c.kind # "create"  BY <1>3 DEF Form
    <3> QED  BY <2>5, <3>1 DEF Steady
  <2> QED  BY <2>2, <2>3, <2>4, <2>5
<1>14. working' \in [Owners -> RowIds \cup {NoRow}] /\ skipWish' \subseteq RowIds
  <2>1. c.id \in RowIds  BY <1>3 DEF Form
  <2> QED  BY <1>4, <1>8, <2>1 DEF Noted, TypeOK
<1>15. ledger' \in [Raws -> LedgerStates]
  <2>1. CASE c.kind = "record"
    <3>1. c.arg[1] \in OutcomeType  BY <1>3, <2>1, OutcomesType, OwnerAssumption DEF Form, LeasedKinds
    <3>2. WriteLedger(c.arg[1])  BY <1>8, <2>1 DEF Ledgered
    <3> QED  BY <1>4, <3>1, <3>2 DEF WriteLedger, OutcomeType, TypeOK, LedgerStates
  <2>2. CASE c.kind # "record"  BY <1>4, <1>8, <2>2 DEF Ledgered, TypeOK
  <2> QED  BY <2>1, <2>2
<1>16. TypeOK'  BY <1>4, <1>8, <1>9, <1>14, <1>15 DEF TypeOK
<1>12. CallsOK' /\ (told' = granted \/ told' = told \cap granted)
  BY <1>1, <1>3, <1>4, <1>8, <1>11, <1>16, <1>21, <1>22, AnsweredCalls
<1>13. ToldOK'  BY <1>1, <1>3, <1>4, <1>5, <1>7, <1>8, <1>12, LandedLeases
<1>17. RuledayAgreement' /\ Settled'  BY <1>4, <1>8 DEF RuledayAgreement, Settled
<1>18. ASSUME NEW x \in RowIds, IsRuleRow(x), BecomesBookable(rows[x], rows'[x])
       PROVE  ruledays[Weekday(DateOf(x))] = OriginOf(x)
  <2>1. x \in DOMAIN w
    <3>1. \A row : ~BecomesBookable(row, row)  BY DEF BecomesBookable, ActiveStatuses
    <3> QED  BY <1>10, <1>18, <3>1
  <2> QED  BY <1>9, <1>10, <1>18, <2>1
<1> QED  BY <1>9, <1>12, <1>13, <1>16, <1>17, <1>18 DEF CosmosInv

\* A step that leaves every lease and every status alone, and grants none.
LEMMA KeptLeases ==
  ASSUME ToldOK, told' \subseteq told,
         \A t \in told' : /\ rows'[t[2]].live = rows[t[2]].live /\ rows'[t[2]].owner = rows[t[2]].owner
                          /\ rows'[t[2]].status = rows[t[2]].status
  PROVE  ToldOK'
BY DEF ToldOK, LeaseSticks

\* A step that writes no more of a row than its flag, or lets its lease run out.
LEMMA LightStep ==
  ASSUME \A x \in RowIds : AsRead(rows[x], rows'[x])
  PROVE  /\ \A d \in Dates : DateClosed(d) => DateClosed(d)'
         /\ \A p \in Processes : (\A q \in Owners \ {p} : working'[q] = working[q]) => OwnFrame(p)
<1>1. \A x \in RowIds : IsUserTerminal(rows[x]) => IsUserTerminal(rows'[x])  BY DEF AsRead, IsUserTerminal
<1>2. \A x \in RowIds : rows'[x].owner = rows[x].owner /\ (rows[x].status = "absent" => rows'[x].status = "absent")
  BY DEF AsRead
<1> QED  BY <1>1, <1>2 DEF DateClosed, OwnFrame

\* An outcome turned down: its ledger entries, and the date's active row flagged.
LEMMA FlagLands ==
  ASSUME CosmosInv, NEW p \in Processes, Flag(p)
  PROVE  CosmosInv' /\ \A x \in RowIds : rows'[x].status = rows[x].status
<1>1. PICK c : c = call[p] /\ c.step = "flag"  BY DEF Flag
<1>2. c # Idle  BY <1>1 DEF Idle
<1>3. CallOK(p, c) /\ Shape(c) /\ Form(p, c) /\ c.kind = "record"
  BY <1>1, <1>2 DEF CosmosInv, CallsOK, CallOK, Form
<1>4. UNCHANGED <<slots, rules, ruledays, userCutoff, now>>  BY <1>1 DEF Flag
<1>5. TypeOK /\ OneActiveRowPerDate /\ RuledayAgreement /\ Settled /\ ToldOK /\ CallsOK  BY DEF CosmosInv
<1>6. CASE \A x \in c.reads : RowDoc(x) \in c.fresh
  <2>1. PICK docs : docs = {RowDoc(x) : x \in c.reads}  OBVIOUS
  <2>2. PICK granted : granted = told \ {<<p, c.id>>}  OBVIOUS
  <2>3. /\ rows' = Stored([x \in c.reads |-> [rows[x] EXCEPT !.reconcile = TRUE]])
        /\ WriteLedger(c.arg[1]) /\ Noted(p, c) /\ Answered(p, docs, granted)
    BY <1>1, <1>6, <2>1, <2>2 DEF Flag, FlagLedger
  <2>4. \A x \in RowIds : rows'[x] = IF x \in c.reads THEN [rows[x] EXCEPT !.reconcile = TRUE] ELSE rows[x]
    BY <2>3 DEF Stored
  <2>5. \A x \in RowIds : /\ rows'[x] \in Row /\ rows'[x].status = rows[x].status
                          /\ rows'[x].live = rows[x].live /\ rows'[x].owner = rows[x].owner
                          /\ AsRead(rows[x], rows'[x])
    <3> SUFFICES ASSUME NEW x \in RowIds
                 PROVE  /\ rows'[x] \in Row /\ rows'[x].status = rows[x].status
                        /\ rows'[x].live = rows[x].live /\ rows'[x].owner = rows[x].owner
                        /\ AsRead(rows[x], rows'[x])
      OBVIOUS
    <3>1. PICK row \in Row : row = rows[x]  BY <1>5, StoredRow
    <3>2. PICK new : new = [row EXCEPT !.reconcile = TRUE]  OBVIOUS
    <3>3. new \in Row /\ new.status = row.status /\ new.live = row.live /\ new.owner = row.owner /\ AsRead(row, new)
      BY <3>2 DEF Row, AsRead
    <3>5. AsRead(row, row)  BY DEF AsRead
    <3>4. rows'[x] \in {new, row}  BY <2>4, <3>1, <3>2
    <3> QED  BY <3>1, <3>3, <3>4, <3>5
  <2>6. rows' \in [RowIds -> Row]  BY <2>3, <2>5 DEF Stored
  <2>13. c.id \in RowIds /\ c.arg[1] \in OutcomeType
    BY <1>3, OutcomesType, OwnerAssumption DEF Form, LeasedKinds
  <2>14. ledger' \in [Raws -> LedgerStates]  BY <1>5, <2>3, <2>13 DEF WriteLedger, OutcomeType, TypeOK, LedgerStates
  <2>15. working' \in [Owners -> RowIds \cup {NoRow}] /\ skipWish' \subseteq RowIds
    BY <1>3, <1>5, <2>3 DEF Noted, TypeOK
  <2>16. TypeOK'  BY <1>4, <1>5, <2>6, <2>14, <2>15 DEF TypeOK
  <2>18. \A b \in Raws : ledger[b] # "absent" => ledger'[b] # "absent"  BY <2>3 DEF WriteLedger
  <2>19. working' = working  BY <1>3, <2>3 DEF Noted
  <2>7. DocFrame(docs)
    <3>1. \A d \in Dates : DateClosed(d) => DateClosed(d)'  BY <2>5, LightStep
    <3> QED  BY <1>4, <2>5, <2>18, <3>1 DEF DocFrame
  <2>20. OwnFrame(p)  BY <2>5, <2>19, LightStep
  <2>21. Steady(p, c)'
    <3>1. Steady(p, c)  BY <1>3 DEF CallOK
    <3>2. Drops(p, c.arg[1]) => Drops(p, c.arg[1])'  BY <2>13, <2>18 DEF Drops, OutcomeType
    <3> QED  BY <1>3, <2>19, <3>1, <3>2 DEF Steady
  <2>8. CallsOK' /\ (told' = granted \/ told' = told \cap granted)
    BY <1>1, <1>3, <1>5, <2>3, <2>7, <2>16, <2>20, <2>21, AnsweredCalls
  <2>9. told' \subseteq told  BY <2>2, <2>8
  <2>10. \A t \in told' : t[2] \in RowIds  BY <1>5, <2>9 DEF ToldOK
  <2>11. ToldOK'  BY <1>5, <2>5, <2>9, <2>10, KeptLeases
  <2>12. OneActiveRowPerDate'  BY <1>4, <1>5, <2>5, <2>6, QuietSlots DEF QuietStep
  <2>17. RuledayAgreement' /\ Settled'  BY <1>4, <1>5 DEF RuledayAgreement, Settled
  <2> QED  BY <2>5, <2>8, <2>11, <2>12, <2>16, <2>17 DEF CosmosInv
<1>7. CASE ~(\A x \in c.reads : RowDoc(x) \in c.fresh)
  <2>1. PICK d : d = [c EXCEPT !.step = "slot"]  OBVIOUS
  <2>2. Shape(d) /\ d.kind = c.kind /\ d.id = c.id /\ d.arg = c.arg /\ d.reads = c.reads /\ d.step = "slot"
    BY <1>3, <2>1 DEF Shape
  <2>3. Form(p, d)  BY <1>3, <2>2 DEF Form, EditKinds
  <2>8. Steady(p, d) /\ Flagging(d)  BY <1>3, <2>2 DEF CallOK, Steady, Flagging
  <2>4. CallOK(p, d)  BY <1>3, <2>2, <2>3, <2>8 DEF CallOK
  <2>5. Become(p, d) /\ UNCHANGED <<rows, ledger, working, skipWish, told>>  BY <1>1, <1>7, <2>1 DEF Flag
  <2>6. UNCHANGED <<vars, told>>  BY <1>4, <2>5 DEF vars
  <2>9. Lone(p, d)  BY <1>3, <2>2 DEF Lone
  <2>7. CosmosInv'  BY <2>4, <2>5, <2>6, <2>9, ReadStep
  <2> QED  BY <2>5, <2>7
<1> QED  BY <1>6, <1>7

\* upsert_rule lands: the rule it was made from is still stored, and the pointers it moves
\* are as it read them.
LEMMA EditLandsUpsert ==
  ASSUME TypeOK, NEW p, NEW c, CallOK(p, c), c.kind = "edit", c.step = "send", EditLands(c),
         NEW r, r = OriginOf(c.id), NEW new, new = c.arg[1],
         rules' = [rules EXCEPT ![r] = new], ruledays' = Pointers(r, new),
         UNCHANGED <<rows, slots, ledger, userCutoff, now, working, skipWish>>
  PROVE  r \in Rules /\ new \in Rule /\ UpsertRule(r, new)
<1>1. r \in Rules /\ new \in Rule /\ new.exists
  BY CallsAssumption DEF CallOK, Form, EditKinds, IsRuleRow
<1>2. rules[r].exists \/ new.active  BY DEF CallOK, EditKnows
<1>3. new.active => FreedRuledays(r)[new.weekday] \in {NoRule, r}
  <2> SUFFICES ASSUME new.active PROVE FreedRuledays(r)[new.weekday] \in {NoRule, r}  OBVIOUS
  <2>1. new.weekday \in Weekdays  BY <1>1 DEF Rule
  <2>2. c.slot[new.weekday] \in {NoRule, r}  BY DEF CallOK, EditKnows
  <2>3. Pointers(r, new)[new.weekday] = r  BY <2>1 DEF Pointers, FreedRuledays
  <2>4. new.weekday \in MovedPointers(r, new) => ruledays[new.weekday] = c.slot[new.weekday]  BY DEF EditLands
  <2>5. ruledays[new.weekday] \in {NoRule, r}  BY <2>1, <2>2, <2>3, <2>4 DEF MovedPointers
  <2> QED  BY <2>1, <2>5 DEF FreedRuledays
<1>4. ruledays' = IF new.active THEN [FreedRuledays(r) EXCEPT ![new.weekday] = r] ELSE FreedRuledays(r)
  BY DEF Pointers
<1> QED  BY <1>1, <1>2, <1>3, <1>4 DEF UpsertRule

\* An edit that landed, or the watermark.
LEMMA EditSendStep ==
  ASSUME CosmosInv, NEW p \in Processes, EditSend(p)
  PROVE  CosmosInv' /\ UNCHANGED rows
<1>1. PICK c : c = call[p] /\ c.step = "send" /\ c.kind \in EditKinds /\ EditLands(c)  BY DEF EditSend, EditKinds
<1>2. c # Idle  BY <1>1 DEF Idle
<1>3. CallOK(p, c) /\ Form(p, c) /\ OriginOf(c.id) \in Rules
  BY <1>1, <1>2 DEF CosmosInv, CallsOK, CallOK, Form, IsRuleRow
<1>4. TypeOK /\ OneActiveRowPerDate /\ RuledayAgreement /\ Settled /\ ToldOK /\ CallsOK  BY DEF CosmosInv
<1>5. PICK r \in Rules : r = OriginOf(c.id)  BY <1>3
<1>6. PICK new : new = IF c.kind = "edit" THEN c.arg[1] ELSE rules[r]  OBVIOUS
<1>7. PICK docs : docs = {RuleDoc(r)} \cup {RuledayDoc(x) : x \in {y \in Weekdays : ruledays'[y] # ruledays[y]}}
  OBVIOUS
<1>8. /\ rules' = [rules EXCEPT ![r] = new] /\ ruledays' = (IF c.kind = "edit" THEN Pointers(r, new) ELSE ruledays)
      /\ Answered(p, docs, told) /\ UNCHANGED <<rows, slots, ledger, userCutoff, now, working, skipWish>>
  BY <1>1, <1>5, <1>6, <1>7 DEF EditSend
<1>9. new \in Rule /\ (new.active => new.exists)
  <2>1. CASE c.kind = "edit"  BY <1>3, <1>6, <2>1, CallsAssumption DEF Form, EditKinds
  <2>2. CASE c.kind # "edit"
    <3>1. new = rules[r]  BY <1>6, <2>2
    <3> QED  BY <1>4, <3>1 DEF TypeOK, Settled
  <2> QED  BY <2>1, <2>2
<1>10. TypeOK' /\ RuledayAgreement' /\ (rules[r].exists => new.exists)
  <2>1. CASE c.kind = "edit"
    <3>1. new = c.arg[1] /\ ruledays' = Pointers(r, new)  BY <1>6, <1>8, <2>1
    <3>2. UpsertRule(r, new)  BY <1>1, <1>3, <1>4, <1>5, <1>8, <2>1, <3>1, EditLandsUpsert
    <3>3. OthersOK' /\ RuledayAgreement'  BY <1>4, <1>9, <3>2, UpsertType, UpsertKeepsRuledays
    <3>4. new.exists  BY <3>2 DEF UpsertRule
    <3> QED  BY <1>4, <1>8, <3>3, <3>4 DEF TypeOK, OthersOK
  <2>2. CASE c.kind # "edit"
    <3>1. new = rules[r] /\ ruledays' = ruledays  BY <1>6, <1>8, <2>2
    <3>2. rules' = rules  BY <1>4, <1>8, <3>1 DEF TypeOK
    <3> QED  BY <1>4, <1>8, <3>1, <3>2 DEF TypeOK, RuledayAgreement
  <2> QED  BY <2>1, <2>2
<1>11. \A x \in Rules : rules'[x] = IF x = r THEN new ELSE rules[x]  BY <1>4, <1>8 DEF TypeOK
<1>12. Settled'  BY <1>4, <1>8, <1>9, <1>11 DEF Settled
<1>17. \A x \in RowIds : AsRead(rows[x], rows'[x])  BY <1>8 DEF AsRead
<1>13. DocFrame(docs)
  <2>1. \A x \in Weekdays : RuledayDoc(x) \notin docs => ruledays'[x] = ruledays[x]  BY <1>7
  <2>2. \A d \in Dates : DateClosed(d) => DateClosed(d)'  BY <1>17, LightStep
  <2> QED  BY <1>8, <1>10, <1>11, <1>17, <2>1, <2>2 DEF DocFrame
<1>18. OwnFrame(p)  BY <1>8, <1>17, LightStep
<1>19. Steady(p, c)'  BY <1>1 DEF Steady, EditKinds
<1>14. CallsOK' /\ (told' = told \/ told' = told \cap told)
  BY <1>1, <1>3, <1>4, <1>8, <1>10, <1>13, <1>18, <1>19, AnsweredCalls
<1>15. ToldOK'  BY <1>4, <1>8, <1>14, KeptLeases
<1>16. OneActiveRowPerDate'
  BY <1>4, <1>8 DEF OneActiveRowPerDate, SlotAgreement, SlotsInPlace, Active
<1> QED  BY <1>8, <1>10, <1>12, <1>14, <1>15, <1>16 DEF CosmosInv

\* A lease runs out: what a call knows says no more than that of a live lease.
LEMMA ExpiresStep ==
  ASSUME CosmosInv, NEW id \in RowIds, Expires(id)
  PROVE  CosmosInv' /\ \A x \in RowIds : rows'[x].status = rows[x].status
<1>1. /\ LeaseExpires(id) /\ told' = {t \in told : t[2] # id} /\ call' = call
      /\ rows' = [rows EXCEPT ![id].live = FALSE]
      /\ UNCHANGED <<slots, rules, ruledays, ledger, userCutoff, now, working, skipWish>>
  BY DEF Expires, LeaseExpires
<1>2. TypeOK /\ OneActiveRowPerDate /\ RuledayAgreement /\ Settled /\ ToldOK /\ CallsOK  BY DEF CosmosInv
<1>3. \A x \in RowIds : /\ rows'[x] \in Row /\ rows'[x].status = rows[x].status /\ rows'[x].owner = rows[x].owner
                        /\ rows'[x].live => rows[x].live
                        /\ x # id => rows'[x].live = rows[x].live
                        /\ AsRead(rows[x], rows'[x])
  <2> SUFFICES ASSUME NEW x \in RowIds
               PROVE  /\ rows'[x] \in Row /\ rows'[x].status = rows[x].status /\ rows'[x].owner = rows[x].owner
                      /\ rows'[x].live => rows[x].live
                      /\ x # id => rows'[x].live = rows[x].live
                      /\ AsRead(rows[x], rows'[x])
    OBVIOUS
  <2>1. PICK row \in Row : row = rows[x]  BY <1>2, StoredRow
  <2>2. PICK new : new = [row EXCEPT !.live = FALSE]  OBVIOUS
  <2>3. new \in Row /\ new.status = row.status /\ ~new.live /\ new.owner = row.owner /\ AsRead(row, new)
    BY <2>2 DEF Row, AsRead
  <2>4. rows'[x] = IF x = id THEN new ELSE row  BY <1>1, <1>2, <2>1, <2>2 DEF TypeOK
  <2>5. AsRead(row, row)  BY DEF AsRead
  <2> QED  BY <2>1, <2>3, <2>4, <2>5
<1>4. rows' \in [RowIds -> Row]  BY <1>1, <1>2, <1>3 DEF TypeOK
<1>5. TypeOK' /\ RuledayAgreement' /\ Settled'  BY <1>1, <1>2, <1>4 DEF TypeOK, RuledayAgreement, Settled
<1>6. OneActiveRowPerDate'  BY <1>1, <1>2, <1>3, <1>4, QuietSlots DEF QuietStep
<1>7. ToldOK'
  <2>1. \A t \in told' : t \in told /\ t[2] \in RowIds /\ t[2] # id  BY <1>1, <1>2 DEF ToldOK
  <2> QED  BY <1>2, <1>3, <2>1, KeptLeases
<1>8. DocFrame({})
  <2>1. \A d \in Dates : DateClosed(d) => DateClosed(d)'  BY <1>3, LightStep
  <2> QED  BY <1>1, <1>3, <2>1 DEF DocFrame
<1>9. ASSUME NEW q \in Processes PROVE call'[q] = Idle \/ CallOK(q, call[q])'
  <2>1. PICK c : c = call[q] /\ (c = Idle \/ CallOK(q, c))  BY <1>2 DEF CallsOK
  <2>2. call'[q] = c  BY <1>1, <2>1
  <2>3. CASE CallOK(q, c)
    <3>1. Shape(c) /\ c.fresh \subseteq c.fresh /\ c.fresh \cap {} = {} /\ Steady(q, c)  BY <2>3 DEF CallOK
    <3>3. Steady(q, c)'
      <4>1. c.id \in RowIds  BY <2>3 DEF CallOK, Form
      <4> QED  BY <1>1, <1>3, <3>1, <4>1 DEF Steady, Drops
    <3>2. CallOK(q, c)'  BY <1>2, <1>5, <1>8, <2>3, <3>1, <3>3, CallFrame
    <3> QED  BY <2>2, <3>2
  <2> QED  BY <2>1, <2>2, <2>3
<1>10. CallsOK'
  <2>1. \A q \in Processes : Lone(q, call[q])'  BY <1>1, <1>2 DEF CallsOK, Lone, Creates
  <2> QED  BY <1>1, <1>2, <1>9, <2>1 DEF CallsOK
<1> QED  BY <1>3, <1>5, <1>6, <1>7, <1>10 DEF CosmosInv

\* An owner whose answer was lost gives up.
LEMMA GivesUpStep ==
  ASSUME CosmosInv, NEW p \in Processes, GivesUp(p)
  PROVE  CosmosInv' /\ UNCHANGED rows
<1>1. /\ Become(p, Idle) /\ working' = [working EXCEPT ![p] = NoRow] /\ told' \subseteq told
      /\ UNCHANGED <<rows, slots, rules, ruledays, ledger, userCutoff, now, skipWish>>
  BY DEF GivesUp
<1>2. TypeOK /\ OneActiveRowPerDate /\ RuledayAgreement /\ Settled /\ ToldOK /\ CallsOK  BY DEF CosmosInv
<1>3. TypeOK' /\ OneActiveRowPerDate' /\ RuledayAgreement' /\ Settled'
  BY <1>1, <1>2 DEF TypeOK, OneActiveRowPerDate, SlotAgreement, SlotsInPlace, Active, RuledayAgreement, Settled
<1>4. ToldOK'  BY <1>1, <1>2, KeptLeases
<1>5. call' = [call EXCEPT ![p] = Idle]  BY <1>1 DEF Become
<1>6. \A x \in RowIds : AsRead(rows[x], rows'[x])  BY <1>1 DEF AsRead
<1>7. DocFrame({})  BY <1>1, <1>6, LightStep DEF DocFrame
<1>9. \A q \in Owners \ {p} : working'[q] = working[q]  BY <1>1, <1>2 DEF TypeOK
<1>10. OwnFrame(p)  BY <1>6, <1>9, LightStep
<1>11. Stamp(p, Idle, {})
  <2>1. \A q \in Processes : call'[q] = IF q = p THEN Idle ELSE [call[q] EXCEPT !.fresh = @ \ {}]
    <3> SUFFICES ASSUME NEW q \in Processes, q # p PROVE [call[q] EXCEPT !.fresh = @ \ {}] = call[q]
      BY <1>2, <1>5 DEF CallsOK
    <3>1. PICK c : c = call[q] /\ (c = Idle \/ CallOK(q, c))  BY <1>2 DEF CallsOK
    <3>2. c.fresh \ {} = c.fresh  OBVIOUS
    <3>3. CASE c = Idle  BY <3>1, <3>2, <3>3 DEF Idle
    <3>4. CASE CallOK(q, c)
      <4>1. Shape(c)  BY <3>4 DEF CallOK
      <4> QED  BY <3>1, <3>2, <4>1 DEF Shape
    <3> QED  BY <3>1, <3>3, <3>4
  <2>2. call' = [q \in Processes |-> call'[q]]  BY <1>2, <1>5 DEF CallsOK
  <2> QED  BY <2>1, <2>2 DEF Stamp
<1>12. Idle.kind # "create"  BY DEF Idle
<1>8. CallsOK'  BY <1>2, <1>3, <1>7, <1>10, <1>11, <1>12, WrittenCalls
<1> QED  BY <1>1, <1>3, <1>4, <1>8 DEF CosmosInv

-----------------------------------------------------------------------------
(* The invariant, and what follows from it.                                *)

LEMMA CosmosStart == CosmosInit => CosmosInv
<1> SUFFICES ASSUME CosmosInit PROVE CosmosInv  OBVIOUS
<1>1. PICK r \in Rules, d \in Dates, status \in {"absent", "pending", "skipped", "withdrawn"} :
        /\ rules = [x \in Rules |-> [exists |-> x = r, active |-> x = r, weekday |-> IF x = r THEN Weekday(d) ELSE 0,
                                     cutoff |-> NoCutoff, want |-> AnyWant]]
        /\ ruledays = [w \in Weekdays |-> IF w = Weekday(d) THEN r ELSE NoRule]
        /\ rows = [id \in RowIds |->
                     IF id # <<r, d>> \/ status = "absent" THEN AbsentRow
                     ELSE [NewRow(status, AnyWant, CutoffAt(d, SiteCutoff)) EXCEPT
                             !.reason = IF status = "withdrawn" THEN "system" ELSE "none"]]
        /\ slots = [e \in Dates |-> IF e = d /\ status \in ActiveStatuses THEN <<r, d>> ELSE NoRow]
        /\ skipWish = IF status = "skipped" THEN {<<r, d>>} ELSE {}
        /\ ledger = [b \in Raws |-> "absent"] /\ userCutoff = NoCutoff /\ now \in Clocks
        /\ working = [o \in Owners |-> NoRow]
        /\ call = [p \in Processes |-> Idle] /\ told = {} /\ begun = 0 /\ mishaps = 0
  BY Zenon DEF CosmosInit
<1>2. /\ ledger = [b \in Raws |-> "absent"] /\ userCutoff = NoCutoff /\ now \in Clocks
      /\ working = [o \in Owners |-> NoRow]
      /\ call = [p \in Processes |-> Idle] /\ told = {}
  BY <1>1
<1>3. Weekday(d) \in Weekdays /\ 0 \in Weekdays /\ <<r, d>> \in RowIds /\ d \in Nat
  BY TimeAssumption DEF Weekday, Weekdays, RowIds, Origins
<1>4. PICK first : first = [NewRow(status, AnyWant, CutoffAt(d, SiteCutoff)) EXCEPT
                              !.reason = IF status = "withdrawn" THEN "system" ELSE "none"]
  OBVIOUS
<1>5. first \in Row /\ first.status = status
  <2>1. CutoffAt(d, SiteCutoff) \in Int  BY <1>3, CutoffAssumption, TimeAssumption DEF CutoffAt
  <2>2. status \in Statuses  BY DEF Statuses, ActiveStatuses
  <2>3. PICK row : row = NewRow(status, AnyWant, CutoffAt(d, SiteCutoff))  OBVIOUS
  <2>4. row \in Row /\ row.status = status  BY <2>1, <2>2, <2>3, NewRowType, AbsentRowType
  <2>5. first = [row EXCEPT !.reason = IF status = "withdrawn" THEN "system" ELSE "none"]  BY <1>4, <2>3
  <2> QED  BY <2>4, <2>5 DEF Row, Reasons
<1>6. \A id \in RowIds : rows[id] = IF id # <<r, d>> \/ status = "absent" THEN AbsentRow ELSE first
  BY <1>1, <1>4
<1>7. AbsentRow \in Row /\ AbsentRow.status = "absent" /\ AnyWant \in Wants  BY AbsentRowType DEF AbsentRow
<1>8. \A id \in RowIds : rows[id] \in Row /\ rows[id].status = IF id = <<r, d>> THEN status ELSE "absent"
  BY <1>5, <1>6, <1>7
<1>9. TypeOK
  <2>1. rows \in [RowIds -> Row]  BY <1>1, <1>8
  <2>2. \A x \in Rules : rules[x] \in Rule
    <3>1. \A b \in BOOLEAN, w \in Weekdays :
            [exists |-> b, active |-> b, weekday |-> w, cutoff |-> NoCutoff, want |-> AnyWant] \in Rule
      BY <1>7 DEF Rule
    <3>2. \A x \in Rules : (x = r) \in BOOLEAN /\ (IF x = r THEN Weekday(d) ELSE 0) \in Weekdays  BY <1>3
    <3> QED  BY <1>1, <3>1, <3>2
  <2>3. rules \in [Rules -> Rule]  BY <1>1, <2>2
  <2>4. slots \in [Dates -> RowIds \cup {NoRow}] /\ ruledays \in [Weekdays -> Rules \cup {NoRule}]
    BY <1>1, <1>3
  <2>5. now \in Nat  BY <1>2, CosmosAssumption, TimeAssumption
  <2> QED  BY <1>1, <1>2, <1>3, <2>1, <2>3, <2>4, <2>5 DEF TypeOK, LedgerStates
<1>10. OneActiveRowPerDate
  <2>1. \A x \in RowIds : Active(x) <=> x = <<r, d>> /\ status \in ActiveStatuses
    BY <1>8 DEF Active, ActiveStatuses
  <2>2. ASSUME NEW x \in RowIds PROVE Active(x) <=> slots[DateOf(x)] = x
    <3>1. DateOf(x) \in Dates /\ x # NoRow  BY RowIdFacts
    <3>2. slots[DateOf(x)] = IF DateOf(x) = d /\ status \in ActiveStatuses THEN <<r, d>> ELSE NoRow  BY <1>1, <3>1
    <3>3. x = <<r, d>> => DateOf(x) = d  BY DEF DateOf
    <3> QED  BY <2>1, <3>1, <3>2, <3>3
  <2>3. ASSUME NEW e \in Dates, slots[e] # NoRow PROVE DateOf(slots[e]) = e  BY <1>1, <2>3 DEF DateOf
  <2> QED  BY <2>2, <2>3 DEF OneActiveRowPerDate, SlotAgreement, SlotsInPlace
<1>11. RuledayAgreement
  <2> SUFFICES ASSUME NEW w \in Weekdays, NEW x \in Rules
               PROVE  ruledays[w] = x <=> rules[x].active /\ rules[x].weekday = w
    BY DEF RuledayAgreement
  <2>1. ruledays[w] = x <=> (w = Weekday(d) /\ x = r)  BY <1>1, RulesAssumption
  <2>2. rules[x].active <=> x = r  BY <1>1
  <2>3. rules[x].weekday = IF x = r THEN Weekday(d) ELSE 0  BY <1>1
  <2> QED  BY <2>1, <2>2, <2>3
<1>12. Settled  BY <1>1 DEF Settled
<1>13. ToldOK /\ CallsOK
  <2>1. \A p \in Processes : call[p] = Idle /\ call[p].kind # "create"  BY <1>2 DEF Idle
  <2> QED  BY <1>2, <2>1 DEF ToldOK, LeaseSticks, CallsOK, Lone
<1> QED  BY <1>9, <1>10, <1>11, <1>12, <1>13 DEF CosmosInv

\* Every step; only a batch of rows moves a status.
LEMMA CosmosStep ==
  ASSUME CosmosInv, [CosmosNext]_cosmosVars
  PROVE  /\ CosmosInv'
         /\ \A x \in RowIds : IsRuleRow(x) /\ BecomesBookable(rows[x], rows'[x])
               => ruledays[Weekday(DateOf(x))] = OriginOf(x)
<1> DEFINE StatusKept == \A x \in RowIds : rows'[x].status = rows[x].status
<1>1. ASSUME StatusKept PROVE \A x \in RowIds : ~BecomesBookable(rows[x], rows'[x])
  BY <1>1 DEF BecomesBookable, ActiveStatuses
<1>2. CASE UNCHANGED cosmosVars
  <2>1. UNCHANGED <<vars, told, call>>  BY <1>2 DEF cosmosVars
  <2>2. /\ UNCHANGED <<rows, slots, rules, ruledays, ledger, userCutoff, now, working, skipWish>>
        /\ UNCHANGED <<told, call>>
    BY <2>1 DEF vars
  <2>3. TypeOK /\ OneActiveRowPerDate /\ RuledayAgreement /\ Settled /\ ToldOK /\ CallsOK  BY DEF CosmosInv
  <2>4. TypeOK' /\ OneActiveRowPerDate' /\ RuledayAgreement' /\ Settled' /\ ToldOK'
    BY <2>2, <2>3 DEF TypeOK, OneActiveRowPerDate, SlotAgreement, SlotsInPlace, Active, RuledayAgreement, Settled,
                      ToldOK, LeaseSticks
  <2>5. ASSUME NEW q \in Processes PROVE call'[q] = Idle \/ CallOK(q, call[q])'
    <3>1. PICK c : c = call[q] /\ (c = Idle \/ CallOK(q, c))  BY <2>3 DEF CallsOK
    <3>2. CASE CallOK(q, c)
      <4>1. CallOK(q, c)'  BY <2>2, <2>3, <3>2, QuietCall
      <4> QED  BY <2>2, <3>1, <4>1
    <3> QED  BY <2>2, <3>1, <3>2
  <2>7. \A q \in Processes : Lone(q, call[q])'  BY <2>2, <2>3 DEF CallsOK, Lone, Creates
  <2>6. CallsOK'  BY <2>2, <2>3, <2>5, <2>7 DEF CallsOK
  <2> QED  BY <1>1, <2>2, <2>4, <2>6 DEF CosmosInv
<1>3. ASSUME NEW p \in Processes, Begin(p) \/ LookAgain(p) \/ Guard(p) \/ Point(p) \/ Stale(p) \/ FlagSlot(p) \/ FlagActive(p)
             \/ BeginEdit(p) \/ EditPoint(p) \/ EditStale(p)
      PROVE  CosmosInv' /\ StatusKept
  <2>1. CosmosInv'
    BY <1>3, BeginStep, LookAgainStep, GuardStep, PointStep, StaleStep, FlagReads, BeginEditStep, EditPointStep,
       EditStaleStep
  <2>2. UNCHANGED vars
    BY <1>3 DEF Begin, LookAgain, Guard, Point, Stale, FlagSlot, FlagActive, BeginEdit, EditPoint, EditStale, Reading
  <2> QED  BY <2>1, <2>2 DEF vars
<1>4. ASSUME NEW p \in Processes, Flag(p) \/ EditSend(p) \/ GivesUp(p) PROVE CosmosInv' /\ StatusKept
  BY <1>4, FlagLands, EditSendStep, GivesUpStep
<1>5. ASSUME NEW id \in RowIds, Expires(id) PROVE CosmosInv' /\ StatusKept
  BY <1>5, ExpiresStep
<1>6. ASSUME NEW p \in Processes, Send(p)
      PROVE  CosmosInv' /\ \A x \in RowIds : IsRuleRow(x) /\ BecomesBookable(rows[x], rows'[x])
                               => ruledays[Weekday(DateOf(x))] = OriginOf(x)
  BY <1>6, SendStep
<1>7. CASE CosmosNext
  <2>1. CASE \E p \in Processes : Send(p)  BY <1>6, <2>1
  <2>2. CASE ~\E p \in Processes : Send(p)
    <3>1. CosmosInv' /\ StatusKept  BY <1>3, <1>4, <1>5, <1>7, <2>2 DEF CosmosNext
    <3> QED  BY <1>1, <3>1
  <2> QED  BY <2>1, <2>2
<1> QED  BY <1>2, <1>7

\* In every state, whatever calls interleave, fail, or are called again, the calls in flight
\* know what CosmosInv says the ETags keep for them (store.py, _commit and _guarded).
THEOREM CosmosInvariant == CosmosSpec => []CosmosInv
<1>1. CosmosInv /\ [CosmosNext]_cosmosVars => CosmosInv'  BY CosmosStep
<1> QED  BY <1>1, CosmosStart, PTL DEF CosmosSpec

\* Though every call reads in several round trips and asserts only some of what it read, a
\* date never carries two active rows, and its slot names the one it carries: what the
\* in-memory store gets from its lock, the slot document's ETag gives (_slot_ops).
THEOREM OneRowPerDateOnCosmos == CosmosSpec => []OneActiveRowPerDate
<1>1. CosmosInv => OneActiveRowPerDate  BY DEF CosmosInv
<1> QED  BY <1>1, CosmosInvariant, PTL

\* A lease granted in an answer sticks until it is released, recorded on or runs out: no
\* call that read the row before the lease takes it (acquire_row_lease, _commit's IfMatch).
THEOREM LeasesStick == CosmosSpec => []LeaseSticks
<1>1. CosmosInv => LeaseSticks  BY DEF CosmosInv, ToldOK
<1> QED  BY <1>1, CosmosInvariant, PTL

\* A rule row opens only under a rule that covers it when its batch lands, though the rule
\* was read earlier and is not in the batch: the ruleday pointer stands for it (store.py
\* 19-24), and keeps doing so across an edit of the rule in between.
THEOREM OpenedUnderRule == CosmosSpec => CoveredWhenOpened
<1>1. ASSUME CosmosInv, [CosmosNext]_cosmosVars,
             NEW id \in RowIds, IsRuleRow(id), BecomesBookable(rows[id], rows'[id])
      PROVE  Covered(id)
  <2>1. ruledays[Weekday(DateOf(id))] = OriginOf(id)  BY <1>1, CosmosStep
  <2>2. OriginOf(id) \in Rules /\ Weekday(DateOf(id)) \in Weekdays  BY <1>1, WeekdayType DEF IsRuleRow
  <2>3. rules[OriginOf(id)].active /\ rules[OriginOf(id)].weekday = Weekday(DateOf(id))
    BY <1>1, <2>1, <2>2 DEF CosmosInv, RuledayAgreement
  <2>4. rules[OriginOf(id)].exists  BY <1>1, <2>2, <2>3 DEF CosmosInv, Settled
  <2> QED  BY <2>3, <2>4 DEF Covered, CoveredBy
<1>2. CosmosInv /\ [CosmosNext]_cosmosVars
        => [\A id \in RowIds : IsRuleRow(id) /\ BecomesBookable(rows[id], rows'[id]) => Covered(id)]_cosmosVars
  BY <1>1
<1> QED  BY <1>2, CosmosInvariant, PTL DEF CosmosSpec, CoveredWhenOpened
-----------------------------------------------------------------------------
(* In one step.  While the facts it does not assert are still so, a batch  *)
(* does what the in-memory store's method does in the state it lands in.   *)

\* A row a call judged is as it was judged.
Judged(p, c, x) ==
    /\ rows[x].live => c.kind \in LeasedKinds /\ rows[x].owner = p
    /\ rows[x].status \in Seen(c, x)
    /\ Passed(p, c, x)

\* A batch of rows that lands is one Commit, of rows that are as its call judged them.
LEMMA SentCommits ==
  ASSUME CosmosInv, NEW p, NEW c, CallOK(p, c), c.step = "send", c.kind \notin EditKinds, c.facts = Facts(c),
         NEW w, w = Writes(p, c), Lands(c, w), rows' = Stored(w), slots' = Taken(w)
  PROVE  /\ Commit(w)
         /\ \A x \in c.reads : Judged(p, c, x)
         /\ c.id \notin c.reads => rows[c.id].status = "absent"
         /\ Opening(c, c.id) => MayBecomeActive(c.id)
<1>1. TypeOK /\ OneActiveRowPerDate /\ RuledayAgreement /\ Settled  BY DEF CosmosInv
<1>2. Form(p, c) /\ Read(c) /\ (\A x \in c.reads : Knows(p, c, x)) /\ (\A x \in RowIds : Guarded(c, x))
  BY DEF CallOK
<1>3. /\ c.id \in DOMAIN w /\ c.reads \subseteq DOMAIN w
      /\ \A x \in DOMAIN w : x \in RowIds /\ DateOf(x) = DateOf(c.id)
  <2>1. /\ c.id \in DOMAIN w /\ \A x \in DOMAIN w : x \in RowIds /\ DateOf(x) = DateOf(c.id)
        /\ c.kind \notin {"withdraw", "create"} => DOMAIN w = {c.id}
        /\ c.kind = "withdraw" => DOMAIN w = {c.id} \cup c.facts.back
        /\ c.kind = "create" => w = Created(c)
    BY <1>2, WritesRows
  <2>2. DOMAIN Created(c) = {c.id} \cup c.reads  BY DEF Created
  <2>3. c.kind \notin {"withdraw", "create"} => c.reads \subseteq {c.id}  BY <1>2 DEF Read
  <2>4. c.kind = "withdraw" => c.reads = {c.id} \cup c.facts.back  BY <1>2 DEF Read
  <2> QED  BY <2>1, <2>2, <2>3, <2>4
<1>4. \A x \in DOMAIN w : /\ x \in c.reads => RowDoc(x) \in c.fresh
                          /\ x \notin c.reads => rows[x].status = "absent"
  BY DEF Lands, RowsMatch
<1>5. \A x \in c.reads : Judged(p, c, x)  BY <1>2, <1>3, <1>4 DEF Knows, Judged
<1>6. /\ \A x \in DOMAIN w : /\ IsRuleRow(x) /\ BecomesBookable(rows[x], w[x]) => Opening(c, x)
                             /\ Opening(c, x) => ruledays[Weekday(DateOf(x))] = OriginOf(x)
      /\ \A e \in Entering(w) : Freed(w)[DateOf(e)] \in {NoRow, e}
      /\ \A e, f \in Entering(w) : e = f
  BY <1>1, LandedSlots
<1>7. ASSUME NEW x \in DOMAIN w, Opening(c, x) PROVE MayBecomeActive(x)
  <2>1. Covered(x)
    <3>1. OriginOf(x) \in Rules /\ Weekday(DateOf(x)) \in Weekdays  BY <1>3, <1>7, WeekdayType DEF Opening, IsRuleRow
    <3>2. ruledays[Weekday(DateOf(x))] = OriginOf(x)  BY <1>6, <1>7
    <3>3. rules[OriginOf(x)].active /\ rules[OriginOf(x)].weekday = Weekday(DateOf(x))
      BY <1>1, <3>1, <3>2 DEF RuledayAgreement
    <3>4. rules[OriginOf(x)].exists  BY <1>1, <3>1, <3>3 DEF Settled
    <3> QED  BY <3>3, <3>4 DEF Covered, CoveredBy
  <2>2. ~DateClosed(DateOf(x))
    <3>1. PICK d : d = DateOf(c.id)  OBVIOUS
    <3>2. DateOf(x) = d  BY <1>3, <3>1
    <3>3. CASE c.kind \in {"insert", "reactivate"}
      <4>1. ~c.facts.closed  BY <1>2, <3>3 DEF Read
      <4>2. Facts(c).closed = DateClosed(d)  BY <3>1, <3>3 DEF Facts
      <4> QED  BY <3>2, <4>1, <4>2
    <3>4. CASE c.kind \in {"rewrite", "skip", "unskip"}
      <4>1. Sure(c, x)  BY <1>3, <1>4, <1>7 DEF Sure
      <4>2. ~c.facts.closed  BY <1>2, <1>3, <3>4, <4>1 DEF Guarded
      <4>3. x = c.id /\ IsRuleRow(c.id)  BY <1>7, <3>4 DEF Opening
      <4>4. Facts(c).closed = (IF c.kind = "rewrite" THEN DateClosed(d) ELSE IsRuleRow(c.id) /\ DateClosed(d))
        BY <3>1, <3>4 DEF Facts
      <4> QED  BY <3>2, <4>2, <4>3, <4>4
    <3>5. CASE c.kind = "withdraw"
      <4>1. x \in c.facts.back  BY <1>7, <3>5 DEF Opening
      <4>2. Facts(c).back = Restorable(d)  BY <3>1, <3>5 DEF Facts
      <4>3. Restorable(d) # {}  BY <4>1, <4>2
      <4> QED  BY <3>2, <4>3 DEF Restorable
    <3>6. CASE c.kind \notin {"insert", "reactivate", "rewrite", "skip", "unskip", "withdraw"}
      BY <1>7, <3>6 DEF Opening
    <3> QED  BY <3>3, <3>4, <3>5, <3>6
  <2> QED  BY <2>1, <2>2 DEF MayBecomeActive
<1>8. Commit(w)
  <2>1. CommitOK(w)  BY <1>6, <1>7 DEF CommitOK
  <2> QED  BY <2>1 DEF Commit, Stored, Taken
<1> QED  BY <1>3, <1>4, <1>5, <1>7, <1>8

\* The step of a batch of rows whose facts are still so, without its answer.
Sent(p, c) ==
    /\ CallOK(p, c) /\ c.step = "send" /\ c.kind \notin EditKinds /\ c.facts = Facts(c)
    /\ Lands(c, Writes(p, c)) /\ rows' = Stored(Writes(p, c)) /\ slots' = Taken(Writes(p, c))
    /\ Ledgered(c) /\ Noted(p, c)
    /\ UNCHANGED <<rules, ruledays, userCutoff, now>>

LEMMA SentFacts ==
  ASSUME CosmosInv, NEW p \in Processes, NEW c, Sent(p, c)
  PROVE  /\ TypeOK /\ OneActiveRowPerDate /\ userCutoff = NoCutoff
         /\ Form(p, c) /\ Steady(p, c) /\ Read(c) /\ c.id = <<OriginOf(c.id), DateOf(c.id)>>
         /\ Commit(Writes(p, c)) /\ (c.kind \notin {"withdraw", "create"} => Write(c.id, Written(p, c)))
         /\ \A x \in c.reads : Judged(p, c, x)
         /\ c.kind \notin {"insert", "create"} => Judged(p, c, c.id)
         /\ c.kind = "insert" => rows[c.id].status = "absent"
         /\ Opening(c, c.id) => MayBecomeActive(c.id)
         /\ c.kind \notin {"claim", "acquire", "release"} => working' = working
         /\ c.kind \notin {"skip", "unskip"} => skipWish' = skipWish
         /\ c.kind # "record" => ledger' = ledger
<1>1. /\ CallOK(p, c) /\ c.step = "send" /\ c.kind \notin EditKinds /\ c.facts = Facts(c)
      /\ Lands(c, Writes(p, c)) /\ rows' = Stored(Writes(p, c)) /\ slots' = Taken(Writes(p, c))
  BY DEF Sent
<1>2. /\ Commit(Writes(p, c))
      /\ \A x \in c.reads : Judged(p, c, x)
      /\ c.id \notin c.reads => rows[c.id].status = "absent"
      /\ Opening(c, c.id) => MayBecomeActive(c.id)
  BY <1>1, SentCommits
<1>3. TypeOK /\ OneActiveRowPerDate /\ userCutoff = NoCutoff  BY DEF CosmosInv, Settled
<1>4. Form(p, c) /\ Steady(p, c) /\ Read(c)  BY <1>1 DEF CallOK
<1>5. c.id = <<OriginOf(c.id), DateOf(c.id)>>  BY <1>4 DEF Form, RowIds, OriginOf, DateOf
<1>6. c.kind \notin {"withdraw", "create"} => Write(c.id, Written(p, c))
  <2>1. c.kind \notin {"withdraw", "create"} => Writes(p, c) = [x \in {c.id} |-> Written(p, c)]  BY DEF Writes
  <2> QED  BY <1>2, <2>1 DEF Write
<1>7. (c.kind \notin {"insert", "create"} => c.id \in c.reads) /\ (c.kind = "insert" => c.id \notin c.reads)
  BY <1>4 DEF Read
<1>8. /\ c.kind \notin {"claim", "acquire", "release"} => working' = working
      /\ c.kind \notin {"skip", "unskip"} => skipWish' = skipWish
      /\ c.kind # "record" => ledger' = ledger
  BY DEF Sent, Noted, Ledgered
<1> QED  BY <1>2, <1>3, <1>4, <1>5, <1>6, <1>7, <1>8

\* insert_rule_row_if_absent, reactivate_rule_row, rewrite_pending_rule_row: the materializer's.
LEMMA SentByTick ==
  ASSUME CosmosInv, NEW p \in Processes, NEW c, Sent(p, c), c.kind \in {"insert", "reactivate", "rewrite"}
  PROVE  InOneStep(p, c)
<1> DEFINE id == c.id  r == OriginOf(c.id)  d == DateOf(c.id)
<1>1. /\ TypeOK /\ Form(p, c) /\ Read(c) /\ id = <<r, d>> /\ Write(id, Written(p, c))
      /\ c.kind # "insert" => Judged(p, c, id)
      /\ c.kind = "insert" => rows[id].status = "absent"
  BY SentFacts
<1>2. UNCHANGED <<rules, ruledays, ledger, userCutoff, now, working, skipWish>>  BY SentFacts DEF Sent
<1>3. c.step = "send" /\ c.facts = Facts(c)  BY DEF Sent
<1>4. IsRuleRow(id) /\ MayBecomeActive(id) /\ CoveredBy(r, d) /\ ~DateClosed(d)
  <2>1. IsRuleRow(id)  BY <1>1 DEF Form
  <2>2. Opening(c, id)  BY <2>1 DEF Opening
  <2> QED  BY <2>1, <2>2, SentFacts DEF MayBecomeActive, Covered
<1>5. PICK row \in Row : row = rows[id]  BY <1>1, StoredRow DEF Form
<1>6. c.kind # "insert" => ~row.live  BY <1>1, <1>5 DEF Judged, LeasedKinds
<1>7. CASE c.kind = "insert"
  <2>0. Facts(c) = [want |-> RuleOf(id).want, at |-> RuleCutoffAt(id), closed |-> DateClosed(d),
                    taken |-> slots[d] # NoRow]
    BY <1>7 DEF Facts
  <2>1. c.facts.want = RuleOf(id).want /\ c.facts.at = RuleCutoffAt(id) /\ c.facts.taken = (slots[d] # NoRow)
    BY <1>3, <2>0
  <2>2. PICK new : new = [AbsentRow EXCEPT !.status = IF slots[d] = NoRow THEN "pending" ELSE "superseded",
                                           !.cutoff = RuleCutoffAt(id), !.want = RuleOf(id).want]
    OBVIOUS
  <2>3. Written(p, c) = new  BY <1>7, <2>1, <2>2 DEF Written, Inserted, NewRow
  <2>4. new.cutoff = RuleCutoffAt(id)  BY <2>2 DEF AbsentRow
  <2>5. ~Frozen(d, new.cutoff)  BY <1>1, <1>7, <2>1, <2>4 DEF Read
  <2>6. InsertRuleRow(r, d)  BY <1>1, <1>2, <1>4, <1>7, <2>2, <2>3, <2>5 DEF InsertRuleRow
  <2> QED  BY <1>3, <1>7, <2>6 DEF InOneStep
<1>8. CASE c.kind = "reactivate"
  <2>1. c.facts.want = RuleOf(id).want /\ c.facts.at = RuleCutoffAt(id)  BY <1>3, <1>8 DEF Facts
  <2>2. PICK at : at = RuleCutoffAt(id)  OBVIOUS
  <2>3. PICK want : want = RuleOf(id).want  OBVIOUS
  <2>4. PICK to : to = Prior(row)  OBVIOUS
  <2>5. PICK fresh : fresh = [row EXCEPT !.cutoff = at]  OBVIOUS
  <2>6. MayTransition(id, fresh, to, "materializer", "none", FALSE)
    BY <1>1, <1>5, <1>8, <2>1, <2>2, <2>4, <2>5 DEF Judged, Passed
  <2>7. Written(p, c) = [UnleasedWrite(fresh) EXCEPT !.status = to, !.reason = "none", !.from = "none", !.want = want]
    <3>1. ~fresh.live /\ fresh = [status |-> row.status, reason |-> row.reason, from |-> row.from, cutoff |-> at,
                own |-> row.own, want |-> row.want, owner |-> row.owner, live |-> row.live,
                reconcile |-> row.reconcile, raw |-> row.raw]
      BY <1>6, <1>8, <2>5 DEF Row
    <3>2. UnleasedWrite(fresh) = [fresh EXCEPT !.owner = NoOwner] /\ UnleasedWrite(row) = [row EXCEPT !.owner = NoOwner]
      BY <1>6, <1>8, <3>1 DEF UnleasedWrite
    <3>3. Written(p, c) = [UnleasedWrite(row) EXCEPT !.status = to, !.reason = "none", !.from = "none",
                                                     !.want = want, !.cutoff = at]
      BY <1>5, <1>8, <2>1, <2>2, <2>3, <2>4 DEF Written, Reactivated
    <3>4. PICK new : new = [status |-> to, reason |-> "none", from |-> "none", cutoff |-> at,
                own |-> row.own, want |-> want, owner |-> NoOwner, live |-> row.live,
                reconcile |-> row.reconcile, raw |-> row.raw]
      OBVIOUS
    <3>5. Written(p, c) = new
      <4>1. PICK u : u = UnleasedWrite(row)  OBVIOUS
      <4>2. u = [status |-> row.status, reason |-> row.reason, from |-> row.from, cutoff |-> row.cutoff,
                own |-> row.own, want |-> row.want, owner |-> NoOwner, live |-> row.live,
                reconcile |-> row.reconcile, raw |-> row.raw]
        BY <3>2, <4>1 DEF Row
      <4>3. PICK v : v = [u EXCEPT !.status = to, !.reason = "none", !.from = "none", !.want = want, !.cutoff = at]  OBVIOUS
      <4>4. v = [status |-> v.status, reason |-> v.reason, from |-> v.from, cutoff |-> v.cutoff,
                own |-> v.own, want |-> v.want, owner |-> v.owner, live |-> v.live,
                reconcile |-> v.reconcile, raw |-> v.raw]
        BY <4>2, <4>3
      <4>5. v.status = to /\ v.reason = "none" /\ v.from = "none" /\ v.cutoff = at /\ v.own = row.own
            /\ v.want = want /\ v.owner = NoOwner /\ v.live = row.live /\ v.reconcile = row.reconcile /\ v.raw = row.raw
        BY <4>2, <4>3
      <4> QED  BY <3>3, <3>4, <4>1, <4>3, <4>4, <4>5
    <3>6. [UnleasedWrite(fresh) EXCEPT !.status = to, !.reason = "none", !.from = "none", !.want = want] = new
      <4>1. PICK u : u = UnleasedWrite(fresh)  OBVIOUS
      <4>2. u = [status |-> row.status, reason |-> row.reason, from |-> row.from, cutoff |-> at,
                own |-> row.own, want |-> row.want, owner |-> NoOwner, live |-> row.live,
                reconcile |-> row.reconcile, raw |-> row.raw]
        BY <3>1, <3>2, <4>1
      <4>3. PICK v : v = [u EXCEPT !.status = to, !.reason = "none", !.from = "none", !.want = want]  OBVIOUS
      <4>4. v = [status |-> v.status, reason |-> v.reason, from |-> v.from, cutoff |-> v.cutoff,
                own |-> v.own, want |-> v.want, owner |-> v.owner, live |-> v.live,
                reconcile |-> v.reconcile, raw |-> v.raw]
        BY <4>2, <4>3
      <4>5. v.status = to /\ v.reason = "none" /\ v.from = "none" /\ v.cutoff = at /\ v.own = row.own
            /\ v.want = want /\ v.owner = NoOwner /\ v.live = row.live /\ v.reconcile = row.reconcile /\ v.raw = row.raw
        BY <4>2, <4>3
      <4> QED  BY <3>4, <4>1, <4>3, <4>4, <4>5
    <3> QED  BY <3>5, <3>6
  <2>8. RuleOf(id).active  BY <1>4 DEF CoveredBy, RuleOf
  <2>9. ReactivateRuleRow(r, d)
    BY <1>1, <1>2, <1>4, <1>5, <1>6, <1>8, <2>2, <2>3, <2>4, <2>5, <2>6, <2>7, <2>8 DEF ReactivateRuleRow, LeaseHeld
  <2> QED  BY <1>3, <1>8, <2>9 DEF InOneStep
<1>9. CASE c.kind = "rewrite"
  <2>1. c.facts.want = RuleOf(id).want  BY <1>3, <1>9 DEF Facts
  <2>2. Written(p, c) = [UnleasedWrite(rows[id]) EXCEPT !.want = RuleOf(id).want]  BY <1>9, <2>1 DEF Written
  <2>3. rows[id].status = "pending" /\ ~Frozen(d, rows[id].cutoff) /\ ~LeaseHeld(id)
    BY <1>1, <1>5, <1>6, <1>9 DEF Judged, Seen, Passed, LeaseHeld
  <2>4. RewritePendingRuleRow(r, d)  BY <1>1, <1>2, <1>4, <2>2, <2>3 DEF RewritePendingRuleRow
  <2> QED  BY <1>3, <1>9, <2>4 DEF InOneStep
<1> QED  BY <1>7, <1>8, <1>9

\* transition_row and finalize_lost.
LEMMA SentMove ==
  ASSUME CosmosInv, NEW p \in Processes, NEW c, Sent(p, c), c.kind \in {"skip", "unskip", "drop", "finalize"}
  PROVE  InOneStep(p, c)
<1> DEFINE id == c.id  r == OriginOf(c.id)  d == DateOf(c.id)
<1>1. TypeOK /\ Form(p, c) /\ id = <<r, d>> /\ Write(id, Written(p, c)) /\ Judged(p, c, id)  BY SentFacts
<1>2. UNCHANGED <<rules, ruledays, ledger, userCutoff, now, working>>  BY SentFacts DEF Sent
<1>3. c.step = "send" /\ c.facts = Facts(c) /\ Noted(p, c)  BY DEF Sent
<1>4. PICK u \in Row : u = UnleasedWrite(rows[id])  BY <1>1, StoredRow, UnleasedWriteType DEF Form
<1>5. ~LeaseHeld(id)  BY <1>1 DEF Judged, LeasedKinds, LeaseHeld
<1>6. CASE c.kind = "skip"
  <2>1. MayTransition(id, rows[id], "skipped", "web", "none", FALSE)
    <3>1. Movable(id, Transitions["skip"])  BY <1>1, <1>6 DEF Judged, Passed
    <3> QED  BY <3>1 DEF Movable, Transitions
  <2>2. Written(p, c) = [UnleasedWrite(rows[id]) EXCEPT !.status = "skipped", !.reason = "none", !.from = "none"]
    <3>1. PICK t : t = Transitions["skip"]  OBVIOUS
    <3>2. t.to = "skipped" /\ t.reason = "none"  BY <3>1 DEF Transitions
    <3>3. Moved(c) = [u EXCEPT !.status = t.to, !.reason = t.reason, !.from = "none"]
      BY <1>4, <1>6, <3>1, <3>2 DEF Moved
    <3> QED  BY <1>4, <1>6, <3>2, <3>3 DEF Written
  <2>3. WebTransition(id, "skipped")  BY <1>1, <1>2, <1>5, <2>1, <2>2 DEF WebTransition
  <2>4. skipWish' = skipWish \cup {id}  BY <1>3, <1>6 DEF Noted
  <2> QED  BY <1>3, <1>6, <2>3, <2>4 DEF InOneStep, SkipRow
<1>7. CASE c.kind = "unskip"
  <2>1. MayTransition(id, rows[id], "pending", "web", "none", FALSE)
    <3>1. Movable(id, Transitions["unskip"])  BY <1>1, <1>7 DEF Judged, Passed
    <3> QED  BY <3>1 DEF Movable, Transitions
  <2>2. Written(p, c) = [UnleasedWrite(rows[id]) EXCEPT !.status = "pending", !.reason = "none", !.from = "none"]
    <3>1. PICK t : t = Transitions["unskip"]  OBVIOUS
    <3>2. t.to = "pending" /\ t.reason = "none"  BY <3>1 DEF Transitions
    <3>3. Moved(c) = [u EXCEPT !.status = t.to, !.reason = t.reason, !.from = "none"]
      BY <1>4, <1>7, <3>1, <3>2 DEF Moved
    <3> QED  BY <1>4, <1>7, <3>2, <3>3 DEF Written
  <2>3. WebTransition(id, "pending")  BY <1>1, <1>2, <1>5, <2>1, <2>2 DEF WebTransition
  <2>4. skipWish' = skipWish \ {id}  BY <1>3, <1>7 DEF Noted
  <2> QED  BY <1>3, <1>7, <2>3, <2>4 DEF InOneStep, UnskipRow
<1>8. CASE c.kind = "drop"
  <2>1. MayTransition(id, rows[id], "withdrawn", "materializer", "system", FALSE)
    <3>1. Movable(id, Transitions["drop"])  BY <1>1, <1>8 DEF Judged, Passed
    <3> QED  BY <3>1 DEF Movable, Transitions
  <2>2. Written(p, c) = [UnleasedWrite(rows[id]) EXCEPT !.status = "withdrawn", !.reason = "system"]
    <3>1. PICK t : t = Transitions["drop"]  OBVIOUS
    <3>2. t.to = "withdrawn" /\ t.reason = "system"  BY <3>1 DEF Transitions
    <3>3. Moved(c) = [u EXCEPT !.status = t.to, !.reason = t.reason, !.from = u.from]
      BY <1>4, <1>8, <3>1, <3>2 DEF Moved
    <3>4. Moved(c) = [u EXCEPT !.status = "withdrawn", !.reason = "system"]  BY <3>2, <3>3 DEF Row
    <3> QED  BY <1>4, <1>8, <3>4 DEF Written
  <2>3. skipWish' = skipWish  BY <1>3, <1>8 DEF Noted
  <2>4. WithdrawRuleRow(r, d)  BY <1>1, <1>2, <1>5, <2>1, <2>2, <2>3 DEF WithdrawRuleRow
  <2> QED  BY <1>3, <1>8, <2>4 DEF InOneStep
<1>9. CASE c.kind = "finalize"
  <2>1. id \in FrozenPending  BY <1>1, <1>5, <1>9 DEF Judged, Seen, Passed, FrozenPending, Form
  <2>2. c.facts.covered <=> Covered(id)  BY <1>3, <1>9 DEF Facts
  <2>3. Written(p, c) = Finalized(id)  BY <1>9, <2>2 DEF Written, Ended, Finalized
  <2>4. skipWish' = skipWish  BY <1>3, <1>9 DEF Noted
  <2> QED  BY <1>1, <1>2, <1>3, <1>9, <2>1, <2>3, <2>4 DEF InOneStep
<1> QED  BY <1>6, <1>7, <1>8, <1>9

\* claim_rows, acquire_row_lease, release_row_lease, record_outcomes: the owners'.
LEMMA SentByOwner ==
  ASSUME CosmosInv, NEW p \in Processes, NEW c, Sent(p, c), c.kind \in LeasedKinds
  PROVE  InOneStep(p, c)
<1> DEFINE id == c.id
<1>1. TypeOK /\ Form(p, c) /\ Steady(p, c) /\ Write(id, Written(p, c)) /\ Judged(p, c, id)  BY SentFacts DEF LeasedKinds
<1>2. UNCHANGED <<rules, ruledays, userCutoff, now, skipWish>> /\ (c.kind # "record" => ledger' = ledger)
  BY SentFacts DEF Sent, LeasedKinds
<1>3. c.step = "send" /\ c.facts = Facts(c) /\ Noted(p, c) /\ Ledgered(c)  BY DEF Sent
<1>4. p \in Owners  BY <1>1 DEF Form
<1>5. LeaseFree(id, p)  BY <1>1 DEF Judged, LeaseFree, LeaseHeld
<1>6. CASE c.kind \in {"claim", "acquire"}
  <2>1. working[p] \in {NoRow, id}  BY <1>1, <1>6 DEF Steady
  <2>2. Written(p, c) = [rows[id] EXCEPT !.owner = p, !.live = TRUE]  BY <1>6 DEF Written
  <2>3. working' = [working EXCEPT ![p] = id]  BY <1>3, <1>6 DEF Noted
  <2>4. Lease(id, p)  BY <1>1, <2>1, <2>2, <2>3 DEF Lease
  <2>5. CASE c.kind = "claim"
    <3>1. ActorOf[p] = "runner" /\ rows[id].status = "pending"  BY <1>1, <2>5 DEF Form, Judged, Seen
    <3>2. ClaimRow(p, id)  BY <1>2, <1>5, <2>4, <2>5, <3>1 DEF ClaimRow
    <3> QED  BY <1>3, <2>5, <3>2 DEF InOneStep
  <2>6. CASE c.kind = "acquire"
    <3>1. rows[id].status \in {"pending", "booked"}  BY <1>1, <2>6 DEF Judged, Seen
    <3>2. AcquireRowLease(p, id)  BY <1>2, <1>5, <2>4, <2>6, <3>1 DEF AcquireRowLease
    <3> QED  BY <1>3, <2>6, <3>2 DEF InOneStep
  <2> QED  BY <1>6, <2>5, <2>6
<1>7. CASE c.kind = "release"
  <2>1. rows[id].owner = p  BY <1>1, <1>7 DEF Judged, Passed
  <2>2. working[p] = id  BY <1>1, <1>7, <2>1 DEF Steady
  <2>3. Written(p, c) = [rows[id] EXCEPT !.owner = NoOwner, !.live = FALSE]  BY <1>7 DEF Written
  <2>4. working' = [working EXCEPT ![p] = NoRow]  BY <1>3, <1>7 DEF Noted
  <2>5. ReleaseRowLease(p, id)  BY <1>1, <1>2, <1>7, <2>1, <2>2, <2>3, <2>4 DEF ReleaseRowLease
  <2> QED  BY <1>3, <1>7, <2>5 DEF InOneStep
<1>8. CASE c.kind = "record"
  <2>1. PICK o : o = c.arg[1]  OBVIOUS
  <2>2. working[p] = id /\ Drops(p, o) /\ o \in Outcomes(ActorOf[p])  BY <1>1, <1>8, <2>1 DEF Steady, Form
  <2>3. c.facts.live = rows[id].live  BY <1>3, <1>8 DEF Facts
  <2>4. Accepted(p, id, o)  BY <1>1, <1>8, <2>1, <2>3 DEF Judged, Passed
  <2>5. Written(p, c) = OutcomeRow(p, id, o) /\ WriteLedger(o)  BY <1>3, <1>8, <2>1 DEF Written, Ledgered
  <2>6. working' = working  BY <1>3, <1>8 DEF Noted
  <2>7. RecordOutcome(p, id, o)  BY <1>1, <1>2, <2>2, <2>4, <2>5, <2>6 DEF RecordOutcome, Applied, Drops
  <2> QED  BY <1>3, <1>8, <2>1, <2>7 DEF InOneStep
<1> QED  BY <1>6, <1>7, <1>8 DEF LeasedKinds

\* withdraw_explicit_row, with the rule row its date goes back to.
LEMMA SentWithdraw ==
  ASSUME CosmosInv, NEW p \in Processes, NEW c, Sent(p, c), c.kind = "withdraw"
  PROVE  InOneStep(p, c)
<1> DEFINE id == c.id
<1>1. /\ TypeOK /\ Form(p, c) /\ Read(c) /\ Commit(Writes(p, c)) /\ Judged(p, c, id)
      /\ \A x \in c.reads : Judged(p, c, x)
  BY SentFacts
<1>2. UNCHANGED <<rules, ruledays, ledger, userCutoff, now, working, skipWish>>  BY SentFacts DEF Sent
<1>3. c.step = "send" /\ c.facts = Facts(c)  BY DEF Sent
<1>4. PICK back : back = Restorable(DateOf(id))  OBVIOUS
<1>5. c.facts.back = back /\ c.facts.want = [x \in back |-> RuleOf(x).want] /\ c.reads = {id} \cup back
  BY <1>1, <1>3, <1>4 DEF Facts, Read
<1>6. ~IsRuleRow(id) /\ id \in RowIds  BY <1>1 DEF Form
<1>7. MayTransition(id, rows[id], "withdrawn", "web", "user_withdrawn", FALSE)
  <2>1. Movable(id, Transitions["withdraw"])  BY <1>1 DEF Judged, Passed
  <2> QED  BY <2>1 DEF Movable, Transitions
<1>8. \A x \in back \cup {id} : ~LeaseHeld(x)  BY <1>1, <1>5 DEF Judged, LeasedKinds, LeaseHeld
<1>9. PICK gone : gone = [UnleasedWrite(rows[id]) EXCEPT !.status = "withdrawn", !.reason = "user_withdrawn"]  OBVIOUS
<1>10. Moved(c) = gone
  <2>1. PICK u \in Row : u = UnleasedWrite(rows[id])  BY <1>1, <1>6, StoredRow, UnleasedWriteType
  <2>2. PICK t : t = Transitions["withdraw"]  OBVIOUS
  <2>3. t.to = "withdrawn" /\ t.reason = "user_withdrawn"  BY <2>2 DEF Transitions
  <2>4. Moved(c) = [u EXCEPT !.status = t.to, !.reason = t.reason, !.from = u.from]  BY <2>1, <2>2, <2>3 DEF Moved
  <2>5. gone = [u EXCEPT !.status = "withdrawn", !.reason = "user_withdrawn"]  BY <1>9, <2>1
  <2> QED  BY <2>3, <2>4, <2>5 DEF Row
<1>11. ASSUME NEW x \in back, x # id PROVE RestoredFor(c)[x] = Restored(x)
  <2>1. PICK u \in Row : u = UnleasedWrite(rows[x])
    <3>1. x \in RowIds  BY <1>1, <1>5, <1>11 DEF Form
    <3> QED  BY <1>1, <3>1, StoredRow, UnleasedWriteType
  <2>2. PICK status : status = Prior(rows[x])  OBVIOUS
  <2>3. PICK want : want = IF rows[x].status = "withdrawn" THEN RuleOf(x).want ELSE u.want  OBVIOUS
  <2>4. PICK v : v = [u EXCEPT !.status = status, !.reason = "none", !.from = "none", !.want = want]  OBVIOUS
  <2>5. Restored(x) = v  BY <2>1, <2>2, <2>3, <2>4 DEF Restored
  <2>6. v.want = want  BY <2>4 DEF Row
  <2>7. v = [status |-> v.status, reason |-> v.reason, from |-> v.from, cutoff |-> v.cutoff, own |-> v.own,
             want |-> v.want, owner |-> v.owner, live |-> v.live, reconcile |-> v.reconcile, raw |-> v.raw]
    BY <2>4 DEF Row
  <2>8. [v EXCEPT !.want = want] = v  BY <2>6, <2>7
  <2>9. (IF rows[x].status = "withdrawn" THEN c.facts.want[x] ELSE v.want) = want  BY <1>5, <1>11, <2>3, <2>6
  <2>10. x \in {c.id} \cup c.facts.back  BY <1>5, <1>11
  <2>11. RestoredFor(c)[x] = [v EXCEPT !.want = IF rows[x].status = "withdrawn" THEN c.facts.want[x] ELSE v.want]
    BY <1>11, <2>5, <2>10 DEF RestoredFor
  <2> QED  BY <2>5, <2>8, <2>9, <2>11
<1>12. Writes(p, c) = [x \in back \cup {id} |-> IF x = id THEN gone ELSE Restored(x)]
  <2>1. PICK w : w = Writes(p, c)  OBVIOUS
  <2>2. w = RestoredFor(c)  BY <2>1 DEF Writes
  <2>3. DOMAIN RestoredFor(c) = {c.id} \cup c.facts.back /\ RestoredFor(c)[id] = Moved(c)  BY DEF RestoredFor
  <2>4. w = [x \in {c.id} \cup c.facts.back |-> w[x]]  BY <2>2 DEF RestoredFor
  <2>5. \A x \in back \cup {id} : w[x] = IF x = id THEN gone ELSE Restored(x)  BY <1>10, <1>11, <2>2, <2>3
  <2>6. {c.id} \cup c.facts.back = back \cup {id}  BY <1>5
  <2> QED  BY <2>1, <2>4, <2>5, <2>6
<1>13. WithdrawExplicit(id)  BY <1>1, <1>2, <1>4, <1>6, <1>7, <1>8, <1>9, <1>12 DEF WithdrawExplicit
<1> QED  BY <1>3, <1>13 DEF InOneStep

\* create_explicit_row: the row that steps aside is the one the slot names.
LEMMA SentCreate ==
  ASSUME CosmosInv, NEW p \in Processes, NEW c, Sent(p, c), c.kind = "create"
  PROVE  InOneStep(p, c)
<1> DEFINE id == c.id  o == OriginOf(c.id)  d == DateOf(c.id)
<1>1. /\ TypeOK /\ OneActiveRowPerDate /\ userCutoff = NoCutoff
      /\ Form(p, c) /\ Steady(p, c) /\ Read(c) /\ id = <<o, d>> /\ Commit(Writes(p, c))
      /\ \A x \in c.reads : Judged(p, c, x)
  BY SentFacts
<1>2. UNCHANGED <<rules, ruledays, ledger, userCutoff, now, working, skipWish>>  BY SentFacts DEF Sent
<1>3. c.step = "send" /\ Writes(p, c) = Created(c)  BY DEF Sent, Writes
<1>4. id \in RowIds /\ d \in Dates  BY <1>1, RowIdFacts DEF Form
<1>5. \A e \in Dates : rows[<<o, e>>].status = "absent"
  <2> SUFFICES ASSUME NEW e \in Dates PROVE rows[<<o, e>>].status = "absent"  OBVIOUS
  <2>1. <<o, e>> \in RowIds /\ OriginOf(<<o, e>>) = OriginOf(c.id)  BY <1>4 DEF RowIds, OriginOf
  <2> QED  BY <1>1, <2>1 DEF Steady
<1>6. rows[id].status = "absent"  BY <1>1, <1>4, <1>5
<1>7. \A x \in c.reads : /\ x \in RowIds /\ DateOf(x) = d /\ slots[d] = x /\ x # id /\ ~LeaseHeld(x)
                         /\ MayTransition(x, rows[x], "superseded", "web", "none", FALSE)
  <2> SUFFICES ASSUME NEW x \in c.reads
               PROVE  /\ x \in RowIds /\ DateOf(x) = d /\ slots[d] = x /\ x # id /\ ~LeaseHeld(x)
                      /\ MayTransition(x, rows[x], "superseded", "web", "none", FALSE)
    OBVIOUS
  <2>1. x \in RowIds /\ DateOf(x) = d  BY <1>1 DEF Form, Read
  <2>2. rows[x].status \in {"pending", "skipped"} /\ ~rows[x].live
    BY <1>1 DEF Judged, Seen, LeasedKinds
  <2>3. MayTransition(x, rows[x], "superseded", "web", "none", FALSE)  BY <1>1 DEF Judged, Passed
  <2>4. slots[d] = x  BY <1>1, <2>1, <2>2 DEF OneActiveRowPerDate, SlotAgreement, Active, ActiveStatuses
  <2> QED  BY <1>6, <2>1, <2>2, <2>3, <2>4 DEF LeaseHeld
<1>8. PICK row : row = [AbsentRow EXCEPT !.status = "pending", !.own = NoCutoff,
                                         !.cutoff = CutoffAt(d, Resolve(NoCutoff, userCutoff))]
  OBVIOUS
<1>9. row = NewRow("pending", AnyWant, CutoffAt(d, SiteCutoff)) /\ row.cutoff = CutoffAt(d, SiteCutoff)
  <2>1. Resolve(NoCutoff, userCutoff) = SiteCutoff  BY <1>1 DEF Resolve
  <2>2. PICK at : at = CutoffAt(d, SiteCutoff)  OBVIOUS
  <2>3. PICK new : new = [status |-> "pending", reason |-> "none", from |-> "none", cutoff |-> at, own |-> NoCutoff,
                          want |-> AnyWant, owner |-> NoOwner, live |-> FALSE, reconcile |-> FALSE, raw |-> NoRaw]
    OBVIOUS
  <2>4. row = new
    <3>1. row = [AbsentRow EXCEPT !.status = "pending", !.own = NoCutoff, !.cutoff = at]  BY <1>8, <2>1, <2>2
    <3>2. PICK v : v = [AbsentRow EXCEPT !.status = "pending", !.own = NoCutoff, !.cutoff = at]  OBVIOUS
    <3>3. v = [status |-> v.status, reason |-> v.reason, from |-> v.from, cutoff |-> v.cutoff, own |-> v.own,
               want |-> v.want, owner |-> v.owner, live |-> v.live, reconcile |-> v.reconcile, raw |-> v.raw]
      BY <3>2 DEF AbsentRow
    <3>4. /\ v.status = "pending" /\ v.reason = "none" /\ v.from = "none" /\ v.cutoff = at /\ v.own = NoCutoff
          /\ v.want = AnyWant /\ v.owner = NoOwner /\ v.live = FALSE /\ v.reconcile = FALSE /\ v.raw = NoRaw
      BY <3>2 DEF AbsentRow
    <3> QED  BY <2>3, <3>1, <3>2, <3>3, <3>4
  <2>5. NewRow("pending", AnyWant, at) = new
    <3>1. NewRow("pending", AnyWant, at) = [AbsentRow EXCEPT !.status = "pending", !.cutoff = at, !.want = AnyWant]
      BY DEF NewRow
    <3> QED  BY <2>3, <3>1 DEF AbsentRow
  <2> QED  BY <2>2, <2>3, <2>4, <2>5
<1>10. ~Frozen(d, row.cutoff)  BY <1>1, <1>9 DEF Read
<1>11. c.reads = IF slots[d] = NoRow THEN {} ELSE {slots[d]}
  <2>1. CASE c.reads # {}
    <3>1. PICK x \in c.reads : TRUE  BY <2>1
    <3>2. slots[d] = x /\ x # NoRow  BY <1>7, <3>1, RowIdFacts
    <3>3. c.reads = {slots[d]}  BY <1>7, <3>1, <3>2
    <3> QED  BY <3>2, <3>3
  <2>2. CASE c.reads = {}
    <3>1. PICK w : w = Writes(p, c)  OBVIOUS
    <3>2. DOMAIN w = {id} /\ w[id].status = "pending"
      <4>1. w = [x \in {c.id} \cup c.reads |->
                   IF x = c.id THEN NewRow("pending", AnyWant, CutoffAt(DateOf(x), SiteCutoff))
                   ELSE [UnleasedWrite(rows[x]) EXCEPT !.status = "superseded", !.from = rows[x].status]]
        BY <1>3, <3>1 DEF Created
      <4>2. DOMAIN w = {id} /\ w[id] = row  BY <1>9, <2>2, <4>1
      <4>3. row.status = "pending"  BY <1>8 DEF AbsentRow
      <4> QED  BY <4>2, <4>3
    <3>3. ~Active(id)  BY <1>6 DEF Active, ActiveStatuses
    <3>4. Entering(w) = {id} /\ Leaving(w) = {}
      BY <3>2, <3>3 DEF Entering, Leaving, ActiveStatuses
    <3>5. Freed(w)[d] \in {NoRow, id}  BY <1>1, <3>1, <3>4 DEF Commit, CommitOK
    <3>6. slots[d] \in {NoRow, id}  BY <1>4, <3>4, <3>5 DEF Freed
    <3>7. slots[d] # id  BY <1>1, <1>4, <3>3 DEF OneActiveRowPerDate, SlotAgreement
    <3> QED  BY <2>2, <3>6, <3>7
  <2> QED  BY <2>1, <2>2
<1>12. CASE slots[d] = NoRow
  <2>1. Created(c) = [x \in {id} |-> row]
    <3>1. {c.id} \cup c.reads = {id}  BY <1>11, <1>12
    <3>2. Created(c) = [x \in {id} |->
                   IF x = c.id THEN NewRow("pending", AnyWant, CutoffAt(DateOf(x), SiteCutoff))
                   ELSE [UnleasedWrite(rows[x]) EXCEPT !.status = "superseded", !.from = rows[x].status]]
      BY <3>1 DEF Created
    <3> QED  BY <1>9, <3>2
  <2>2. Write(id, row)  BY <1>1, <1>3, <2>1 DEF Write
  <2>3. CreateExplicitRow(o, d, NoCutoff)  BY <1>1, <1>2, <1>5, <1>8, <1>10, <1>12, <2>2 DEF CreateExplicitRow
  <2> QED  BY <1>3, <2>3 DEF InOneStep
<1>13. CASE slots[d] # NoRow
  <2>1. PICK holder : holder = slots[d]  OBVIOUS
  <2>2. c.reads = {holder}  BY <1>11, <1>13, <2>1
  <2>3. /\ MayTransition(holder, rows[holder], "superseded", "web", "none", FALSE) /\ ~LeaseHeld(holder)
        /\ IsRuleRow(holder) /\ holder # id
    <3>1. holder # id /\ ~LeaseHeld(holder) /\ MayTransition(holder, rows[holder], "superseded", "web", "none", FALSE)
      BY <1>7, <2>2
    <3>2. IsRuleRow(holder)  BY <3>1 DEF MayTransition
    <3> QED  BY <3>1, <3>2
  <2>4. PICK displaced : displaced = [UnleasedWrite(rows[holder]) EXCEPT !.status = "superseded", !.from = rows[holder].status]
    OBVIOUS
  <2>5. Created(c) = [x \in {id, holder} |-> IF x = id THEN row ELSE displaced]
    <3>1. {c.id} \cup c.reads = {id, holder}  BY <2>2
    <3>2. Created(c) = [x \in {id, holder} |->
                   IF x = c.id THEN NewRow("pending", AnyWant, CutoffAt(DateOf(x), SiteCutoff))
                   ELSE [UnleasedWrite(rows[x]) EXCEPT !.status = "superseded", !.from = rows[x].status]]
      BY <3>1 DEF Created
    <3> QED  BY <1>9, <2>4, <3>2
  <2>6. Commit([x \in {id, holder} |-> IF x = id THEN row ELSE displaced])  BY <1>1, <1>3, <2>5
  <2>7. CreateExplicitRow(o, d, NoCutoff)
    BY <1>1, <1>2, <1>5, <1>8, <1>10, <1>13, <2>1, <2>3, <2>4, <2>6 DEF CreateExplicitRow
  <2> QED  BY <1>3, <2>7 DEF InOneStep
<1> QED  BY <1>12, <1>13

\* record_outcomes turned down: the row flagged is the date's active row, if it was not flagged.
LEMMA FlagInOneStep ==
  ASSUME CosmosInv, NEW p \in Processes, Flag(p), vars' # vars, StillSo(call[p])
  PROVE  InOneStep(p, call[p])
<1>1. PICK c : c = call[p] /\ c.step = "flag"  BY DEF Flag
<1>2. c # Idle  BY <1>1 DEF Idle
<1>3. CallOK(p, c) /\ Form(p, c) /\ c.kind = "record" /\ Flagging(c) /\ TypeOK
  BY <1>1, <1>2 DEF CosmosInv, CallsOK, CallOK, Form
<1>4. PICK d \in Dates : d = DateOf(c.id)  BY <1>3, RowIdFacts DEF Form
<1>5. c.slot = slots[d] /\ c.facts.flagged = (c.slot # NoRow /\ rows[c.slot].reconcile)
  BY <1>1, <1>4 DEF StillSo
<1>6. UNCHANGED <<slots, rules, ruledays, userCutoff, now>>  BY <1>1 DEF Flag
<1>7. \A x \in c.reads : RowDoc(x) \in c.fresh
  <2> SUFFICES ASSUME ~\A x \in c.reads : RowDoc(x) \in c.fresh PROVE FALSE  OBVIOUS
  <2>1. UNCHANGED <<rows, ledger, working, skipWish>>  BY <1>1 DEF Flag
  <2> QED  BY <1>6, <2>1 DEF vars
<1>8. /\ rows' = Stored([x \in c.reads |-> [rows[x] EXCEPT !.reconcile = TRUE]])
      /\ WriteLedger(c.arg[1]) /\ Noted(p, c)
  BY <1>1, <1>7 DEF Flag, FlagLedger
<1>9. UNCHANGED <<working, skipWish>>  BY <1>3, <1>8 DEF Noted
<1>10. \A x \in RowIds : rows'[x] = IF x \in c.reads THEN [rows[x] EXCEPT !.reconcile = TRUE] ELSE rows[x]
  BY <1>8 DEF Stored
<1>11. rows' = [x \in RowIds |-> rows'[x]] /\ rows = [x \in RowIds |-> rows[x]]  BY <1>3, <1>8 DEF Stored, TypeOK
<1>12. FlagActiveRow(d)
  <2>1. CASE slots[d] = NoRow
    <3>1. c.reads = {}  BY <1>1, <1>3, <1>5, <2>1 DEF Flagging
    <3>2. \A x \in RowIds : rows'[x] = rows[x]  BY <1>10, <3>1
    <3>3. rows' = rows  BY <1>11, <3>2
    <3> QED  BY <2>1, <3>3 DEF FlagActiveRow
  <2>2. CASE slots[d] # NoRow
    <3>1. PICK s \in RowIds : s = slots[d]  BY <1>3, <2>2 DEF TypeOK
    <3>2. PICK row \in Row : row = rows[s]  BY <1>3, <3>1, StoredRow
    <3>3. PICK new : new = [row EXCEPT !.reconcile = TRUE]  OBVIOUS
    <3>4. rows'[s] = new
      <4>1. CASE c.reads = {c.slot}  BY <1>5, <1>10, <3>1, <3>2, <3>3, <4>1
      <4>2. CASE c.reads # {c.slot}
        <5>1. c.reads = {} /\ c.facts.flagged  BY <1>1, <1>3, <1>5, <2>2, <4>2 DEF Flagging
        <5>2. row.reconcile = TRUE  BY <1>5, <3>1, <3>2, <5>1 DEF Row
        <5>3. row = [status |-> row.status, reason |-> row.reason, from |-> row.from, cutoff |-> row.cutoff,
                     own |-> row.own, want |-> row.want, owner |-> row.owner, live |-> row.live,
                     reconcile |-> TRUE, raw |-> row.raw]
          BY <5>2 DEF Row
        <5>4. new = row  BY <3>3, <5>3
        <5>5. rows'[s] = rows[s]  BY <1>10, <3>1, <5>1
        <5> QED  BY <3>2, <5>4, <5>5
      <4> QED  BY <4>1, <4>2
    <3>5. \A x \in RowIds : x # s => rows'[x] = rows[x]
      <4>1. c.reads \subseteq {s}  BY <1>1, <1>3, <1>5, <3>1 DEF Flagging
      <4> QED  BY <1>10, <4>1
    <3>6. PICK flagged : flagged = [rows EXCEPT ![s] = new]  OBVIOUS
    <3>7. flagged = [x \in RowIds |-> flagged[x]] /\ \A x \in RowIds : flagged[x] = IF x = s THEN new ELSE rows[x]
      BY <1>11, <3>6
    <3>8. rows' = flagged  BY <1>11, <3>4, <3>5, <3>7
    <3>9. [rows EXCEPT ![s].reconcile = TRUE] = flagged  BY <3>2, <3>3, <3>6
    <3>10. FlagActiveRow(d) <=> rows' = [rows EXCEPT ![s].reconcile = TRUE]  BY <2>2, <3>1 DEF FlagActiveRow
    <3> QED  BY <3>8, <3>9, <3>10
  <2> QED  BY <2>1, <2>2
<1>13. Refused(c.id, c.arg[1])  BY <1>4, <1>6, <1>8, <1>12 DEF Refused
<1>14. UNCHANGED <<rules, ruledays, userCutoff, now, working, skipWish>>  BY <1>6, <1>9
<1>15. c.step = "flag" /\ c.kind = "record"  BY <1>1, <1>3
<1>16. InOneStep(p, c)  BY <1>13, <1>14, <1>15 DEF InOneStep
<1> QED  BY <1>1, <1>16

\* upsert_rule; the watermark is not part of what the store promises of a rule.
LEMMA EditInOneStep ==
  ASSUME CosmosInv, NEW p \in Processes, EditSend(p), vars' # vars
  PROVE  InOneStep(p, call[p])
<1>1. PICK c : c = call[p] /\ c.step = "send" /\ c.kind \in EditKinds /\ EditLands(c)  BY DEF EditSend, EditKinds
<1>2. c # Idle  BY <1>1 DEF Idle
<1>3. CallOK(p, c) /\ OriginOf(c.id) \in Rules /\ TypeOK
  BY <1>1, <1>2 DEF CosmosInv, CallsOK, CallOK, Form, IsRuleRow
<1>4. PICK r \in Rules : r = OriginOf(c.id)  BY <1>3
<1>5. PICK new : new = IF c.kind = "edit" THEN c.arg[1] ELSE rules[r]  OBVIOUS
<1>6. /\ rules' = [rules EXCEPT ![r] = new] /\ ruledays' = (IF c.kind = "edit" THEN Pointers(r, new) ELSE ruledays)
      /\ UNCHANGED <<rows, slots, ledger, userCutoff, now, working, skipWish>>
  BY <1>1, <1>4, <1>5 DEF EditSend
<1>7. CASE c.kind = "edit"
  <2>1. new = c.arg[1] /\ ruledays' = Pointers(r, new)  BY <1>5, <1>6, <1>7
  <2>2. UpsertRule(r, new)  BY <1>1, <1>3, <1>4, <1>6, <1>7, <2>1, EditLandsUpsert
  <2> QED  BY <1>1, <1>4, <1>7, <2>1, <2>2 DEF InOneStep
<1>8. CASE c.kind = "mark"
  <2>1. rules' = rules /\ ruledays' = ruledays  BY <1>3, <1>5, <1>6, <1>8 DEF TypeOK
  <2> QED  BY <1>6, <2>1 DEF vars
<1> QED  BY <1>1, <1>7, <1>8 DEF EditKinds

\* A batch lands only in its own process's step.
LEMMA OwnBatch ==
  ASSUME CosmosInv, [CosmosNext]_cosmosVars, NEW p \in Processes, Landed(p)
  PROVE  Send(p) \/ Flag(p) \/ EditSend(p)
<1>1. PICK c : c = call[p] /\ c.step \in {"send", "flag"} /\ call'[p].step # c.step  BY DEF Landed
<1>2. Shape(c) /\ \A docs : [c EXCEPT !.fresh = @ \ docs].step = c.step
  <2>1. c # Idle  BY <1>1 DEF Idle
  <2>2. Shape(c)  BY <1>1, <2>1 DEF CosmosInv, CallsOK, CallOK
  <2>3. \A docs : [c EXCEPT !.fresh = @ \ docs].step = c.step
    <3> SUFFICES ASSUME NEW docs PROVE [c EXCEPT !.fresh = @ \ docs].step = c.step  OBVIOUS
    <3>1. PICK e : e = [c EXCEPT !.fresh = @ \ docs]  OBVIOUS
    <3>2. e.step = c.step  BY <2>2, <3>1 DEF Shape
    <3> QED  BY <3>1, <3>2
  <2> QED  BY <2>2, <2>3
<1>3. vars' # vars  BY DEF Landed
<1>4. CosmosNext  BY <1>3 DEF cosmosVars
<1>5. \A q \in Processes : ~(Begin(q) \/ LookAgain(q) \/ Guard(q) \/ Point(q) \/ Stale(q) \/ FlagSlot(q) \/ FlagActive(q)
                             \/ BeginEdit(q) \/ EditPoint(q) \/ EditStale(q))
  <2> SUFFICES ASSUME NEW q \in Processes,
                      Begin(q) \/ LookAgain(q) \/ Guard(q) \/ Point(q) \/ Stale(q) \/ FlagSlot(q) \/ FlagActive(q)
                      \/ BeginEdit(q) \/ EditPoint(q) \/ EditStale(q)
               PROVE  FALSE
    OBVIOUS
  <2>1. UNCHANGED vars
    BY DEF Begin, LookAgain, Guard, Point, Stale, FlagSlot, FlagActive, BeginEdit, EditPoint, EditStale, Reading
  <2> QED  BY <1>3, <2>1
<1>6. ASSUME NEW q \in Processes \ {p}, NEW e, NEW docs, Stamp(q, e, docs) PROVE FALSE
  <2>1. call'[p] = [c EXCEPT !.fresh = @ \ docs]  BY <1>1, <1>6 DEF Stamp
  <2> QED  BY <1>1, <1>2, <2>1
<1>7. ASSUME NEW q \in Processes \ {p}, NEW docs, NEW granted, Answered(q, docs, granted) PROVE FALSE
  <2>1. \E e : Stamp(q, e, docs)  BY <1>7 DEF Answered
  <2> QED  BY <1>6, <2>1
<1>8. ASSUME NEW q \in Processes \ {p}, NEW e, Become(q, e) PROVE FALSE
  <2>1. call = [r \in Processes |-> call[r]]  BY DEF CosmosInv, CallsOK
  <2>2. call'[p] = call[p]  BY <1>8, <2>1 DEF Become
  <2> QED  BY <1>1, <2>2
<1>9. \A q \in Processes \ {p} : ~(Send(q) \/ Flag(q) \/ EditSend(q) \/ GivesUp(q))
  <2> SUFFICES ASSUME NEW q \in Processes \ {p}, Send(q) \/ Flag(q) \/ EditSend(q) \/ GivesUp(q) PROVE FALSE  OBVIOUS
  <2>1. CASE Send(q)
    <3>1. \E docs, granted : Answered(q, docs, granted)  BY <2>1 DEF Send
    <3> QED  BY <1>7, <3>1
  <2>2. CASE Flag(q)
    <3>1. (\E docs, granted : Answered(q, docs, granted)) \/ (\E e : Become(q, e))  BY <2>2 DEF Flag
    <3> QED  BY <1>7, <1>8, <3>1
  <2>3. CASE EditSend(q)
    <3>1. \E docs, granted : Answered(q, docs, granted)  BY <2>3 DEF EditSend
    <3> QED  BY <1>7, <3>1
  <2>4. CASE GivesUp(q)  BY <1>8, <2>4 DEF GivesUp
  <2> QED  BY <2>1, <2>2, <2>3, <2>4
<1>10. ~GivesUp(p)  BY <1>1 DEF GivesUp
<1>11. \A id \in RowIds : ~Expires(id)  BY <1>1 DEF Expires
<1> QED  BY <1>4, <1>5, <1>9, <1>10, <1>11 DEF CosmosNext

\* Whatever lands between a call's reads and its batch, the batch does in one step what the
\* in-memory store's method does in the state it lands in, as long as the few things the
\* batch does not assert are still so (store.py 4, _commit, _guarded): the Cosmos store
\* implements the store TenantRows specifies, call by call.
THEOREM CosmosImplementsTheStore == CosmosSpec => ImplementsTheStore
<1>1. ASSUME CosmosInv, [CosmosNext]_cosmosVars, NEW p \in Processes, Landed(p), StillSo(call[p])
      PROVE  InOneStep(p, call[p])
  <2>1. CASE Send(p)
    <3>1. PICK c : c = call[p] /\ c.step = "send" /\ c.kind \notin EditKinds  BY <2>1 DEF Send, EditKinds
    <3>2. c # Idle  BY <3>1 DEF Idle
    <3>3. CallOK(p, c) /\ Form(p, c)  BY <1>1, <3>1, <3>2 DEF CosmosInv, CallsOK, CallOK
    <3>4. c.facts = Facts(c)  BY <1>1, <3>1 DEF StillSo
    <3>5. Sent(p, c)  BY <2>1, <3>1, <3>3, <3>4 DEF Send, Sent
    <3>6. InOneStep(p, c)
      BY <1>1, <3>1, <3>3, <3>5, SentByTick, SentMove, SentByOwner, SentWithdraw, SentCreate
         DEF Form, Kinds, LeasedKinds, EditKinds
    <3> QED  BY <3>1, <3>6
  <2>2. CASE Flag(p)  BY <1>1, <2>2, FlagInOneStep DEF Landed
  <2>3. CASE EditSend(p)  BY <1>1, <2>3, EditInOneStep DEF Landed
  <2> QED  BY <1>1, <2>1, <2>2, <2>3, OwnBatch
<1>2. CosmosInv /\ [CosmosNext]_cosmosVars
        => [\A p \in Processes : Landed(p) /\ StillSo(call[p]) => InOneStep(p, call[p])]_cosmosVars
  BY <1>1
<1> QED  BY <1>2, CosmosInvariant, PTL DEF CosmosSpec, ImplementsTheStore
=============================================================================
