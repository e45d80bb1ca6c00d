-------------------------- MODULE TenantWatchProofs --------------------------
(***************************************************************************)
(* Proofs about TenantWatch, for every value of its constants: any number  *)
(* of accounts, slots, reservations and faults.                            *)
(*                                                                         *)
(* WatchInv says what the watcher, the web request and the bookers know,   *)
(* and why it stays so: a row is written with its version, and under a     *)
(* live lease by the lease's holder alone.  BlameInv adds the upgrade      *)
(* markers and what was cancelled, HandInv whose reservations the bot may  *)
(* touch, KeepInv that every booking on record is live where nobody but    *)
(* the watcher cancels.  Each is inductive together with WatchInv: one     *)
(* lemma per action, over lemmas that say what an outcome may do to a row. *)
(***************************************************************************)
EXTENDS TenantWatch, WellFoundedInduction, TLAPS

Phases == {"idle", "plan", "login", "act", "release", "mark", "extras", "rebook", "pick", "write",
           "collapse", "shed", "shedcancel", "shedwrite"}
Shedders == {"shedcancel", "shedwrite"}
\* The phases in which the watcher holds the lease of the row it works on.
Holding == {"release", "mark", "extras", "rebook", "pick", "write"} \cup Shedders

States == {"pending", "booked", "lost", "external", "user"}
Entry == {"none", "held", "held_extra", "cancelled_upgrade", "cancelled_extra", "cancelled_group",
          "cancelled_user", "vanished"}
Row == [status : States, raw : Ids \cup {0}, tee : Slots \cup {0}, reconcile : BOOLEAN,
        marker : BOOLEAN, lease : {"none", "w", "u", "b"}, alive : BOOLEAN]
PlanType == [row : Row, ranks : SUBSET Nat, slots : SUBSET Slots, own : SUBSET Ids, ours : BOOLEAN,
             missed : BOOLEAN]
RunType == [at : Phases, plan : [Accounts -> PlanType], todo : SUBSET Accounts, cur : Accounts \cup {0},
            seen : SUBSET Ids, sess : SUBSET Accounts,
            pre : {"none", "adopt", "engine", "bot", "external"},
            cand : SUBSET Nat, cuts : SUBSET Ids, new : Ids \cup {0}, unsure : BOOLEAN, halt : BOOLEAN]
WebType == [at : {"idle", "leased", "write"}, acct : Accounts \cup {0}, raw : Ids \cup {0},
            owned : BOOLEAN, why : {"none", "cancelled_user", "vanished"}, left : SUBSET Ids]
BookerType == [on : BOOLEAN, done : BOOLEAN, ids : SUBSET Ids]
ResType == [acct : Accounts, slot : Slots, by : {"watch", "booker", "hand"}] \cup {NoRes}

\* The variables keep their shapes.
TypeOK ==
    /\ dry \in BOOLEAN /\ frozen \in BOOLEAN
    /\ res \in [Ids -> ResType] /\ live \subseteq Ids
    /\ row \in [Accounts -> Row] /\ led \in [Ids -> Entry]
    /\ snap \in [Accounts -> [listed : BOOLEAN, ids : SUBSET Ids]]
    /\ moved \subseteq {"w", "u"} \X Accounts
    /\ w \in RunType /\ u \in WebType /\ b \in [Accounts -> BookerType]
    /\ cut \subseteq Ids /\ quit \subseteq Ids

\* Where the watcher is goes with what it has at hand.
PhaseOK ==
    /\ w.at = "login" => w.todo # {}
    /\ w.at \in Holding \cup {"act"} => w.cur \in w.todo
    /\ w.at \in {"rebook", "pick"} => w.cand \subseteq Slots
    /\ w.at = "extras" => w.cand \subseteq Ids
    /\ w.at \notin (Holding \ Shedders) \cup {"act"} => w.seen = {}
    /\ w.at \notin Holding \ Shedders => w.cuts = {} /\ w.new = 0 /\ ~w.unsure
    /\ w.at # "write" => w.new = 0
    /\ w.at \in Holding \ Shedders => w.pre # "none"
    /\ w.at \in {"mark", "extras", "rebook", "pick"} => w.pre = "engine"
    /\ w.pre # "engine" => w.cuts = {}

\* What the run knows of the row it holds.
CurOK ==
    /\ w.at \in Holding /\ w.pre \in {"bot", "external"} => Cur.row.status = "booked"
    /\ w.at \in {"mark", "extras", "rebook"} \cup Shedders => Cur.row.status = "booked"
    /\ w.at = "pick" => Cur.row.status = "pending"
    /\ w.at = "rebook" => Cur.row.raw \in w.cuts
    /\ w.at \in Holding /\ Cur.row.status = "booked" /\ (w.new # 0 \/ w.unsure) => Cur.row.raw \in w.cuts
    /\ w.at \in Holding \ Shedders /\ w.pre = "engine" /\ Cur.row.status = "booked" => Cur.row.raw \in w.seen

\* Whose reservation is whose.
Of(i, a) == i \in Ids /\ res[i].acct = a
Bound(r, a) ==
    /\ r.status \in {"booked", "external"} => Of(r.raw, a) /\ r.tee = res[r.raw].slot
    /\ r.status = "pending" => r.tee = 0 /\ r.raw = 0
RowsBound == \A a \in Accounts : Bound(row[a], a)
PlansBound == \A a \in Accounts : Bound(w.plan[a].row, a) /\ \A i \in w.plan[a].own : Of(i, a)
RunBound ==
    /\ \A i \in w.seen : Of(i, w.cur)
    /\ w.at = "extras" => \A i \in w.cand : Of(i, w.cur)
    /\ w.new # 0 => Of(w.new, w.cur) /\ res[w.new].by = "watch"
CrewBound ==
    /\ \A a \in Accounts : /\ \A i \in b[a].ids : Of(i, a) /\ res[i].by = "booker"
                           /\ ~b[a].on => b[a].ids = {}
    /\ u.at # "idle" => u.acct \in Accounts /\ Of(u.raw, u.acct)
    /\ u.at = "write" => u.why # "none"
Used(i) == res[i] # NoRes
AllUsed == \A i \in Ids : led[i] # "none" \/ i \in live \cup cut \cup quit => Used(i)

\* A lease excludes: who works under one holds it, and the row is as it was read.
RunHolds ==
    w.at \in Holding => /\ row[w.cur].lease = "w" /\ row[w.cur].alive /\ Active(row[w.cur])
                        /\ row[w.cur].status = Cur.row.status /\ row[w.cur].raw = Cur.row.raw
BookerHolds == \A a \in Accounts : b[a].on => row[a].lease = "b" /\ row[a].alive /\ row[a].status = "pending"
ReadOK == \A a \in w.todo : Fresh("w", a) => Version(w.plan[a].row) = Version(row[a])

\* What the user was told is cancelled leaves its row given up.
QuitOK == \A q \in quit : res[q].acct \in Accounts /\ row[res[q].acct].status = "user"

WatchInv ==
    /\ TypeOK /\ PhaseOK /\ CurOK
    /\ RowsBound /\ PlansBound /\ RunBound /\ CrewBound /\ AllUsed
    /\ RunHolds /\ BookerHolds /\ ReadOK /\ QuitOK

-----------------------------------------------------------------------------
\* The bot made a reservation of account a for tee time s.
Bots(a, s) == \E j \in Ids : res[j].acct = a /\ res[j].slot = s /\ res[j].by \in {"watch", "booker"}

\* Made by the bot, or at the very tee time of one made by the bot.
AtBots(i) == Used(i) /\ Bots(res[i].acct, res[i].slot)

\* A flag on a row with a tee time speaks of a tee time of the bot.
FlagOK(r, a) == r.reconcile /\ r.tee # 0 /\ r.status = "booked" => Bots(a, r.tee)
RowsHand == \A a \in Accounts : FlagOK(row[a], a)
PlansHand == \A a \in Accounts : FlagOK(w.plan[a].row, a) /\ \A i \in w.plan[a].own : AtBots(i)

\* What the ledger names and what was cancelled is the bot's.
TrailHand == \A i \in Ids : led[i] # "none" \/ i \in cut => AtBots(i)

\* What the run may cancel is the bot's.
RunHand ==
    /\ w.at = "extras" => \A i \in w.cand : AtBots(i)
    /\ w.at \in {"mark", "extras"} => AtBots(Cur.row.raw)
    /\ w.at \notin Shedders \cup {"shed"}

\* The web holds the lease of the row it works on.
WebHand == u.at # "idle" => row[u.acct].lease = "u" /\ row[u.acct].alive /\ (u.owned => led[u.raw] # "none")

HandInv == RowsHand /\ PlansHand /\ TrailHand /\ RunHand /\ WebHand

\* A booking the bot cancelled and not yet recorded as gone has its marker.
CutGone == cut \cap live = {} /\ \A a \in Accounts : b[a].ids \cap cut = {}
CutMarked == \A a \in Accounts : row[a].status = "booked" /\ row[a].raw \in cut => row[a].marker
RunCut ==
    /\ w.at \in Holding \cup {"act"} => w.seen \cap cut \subseteq w.cuts
    /\ w.new \notin cut
    /\ w.at \in {"extras", "rebook"} \cup Shedders => row[w.cur].marker
    /\ w.at \in Holding \ Shedders /\ w.pre = "external" => row[w.cur].raw \notin cut
MarkersRead ==
    w.at \notin {"idle", "collapse", "shed"} \cup Shedders =>
        \A a \in w.todo : (w.at \in Holding /\ a = w.cur) \/ w.plan[a].row.marker = row[a].marker

BlameInv == CutGone /\ NotBlamedOnUser /\ CutMarked /\ RunCut /\ MarkersRead

\* Nobody but the watcher cancels, no cancel is taken for a failed one, and a run
\* that has cancelled lives to write it down.
OnlyWatcherCancels ==
    /\ "web" \notin Actors /\ "owner" \notin Actors
    /\ "cutlost" \notin Faults /\ "crash" \notin Faults /\ "write" \notin Faults

\* What was ever reserved and not cancelled is live.
OnlyCuts == \A i \in Ids : Used(i) => i \in live \cup cut

\* A row names a cancelled booking only while the run that cancelled it holds it.
CutHeld ==
    \A a \in Accounts : row[a].status = "booked" /\ row[a].raw \in cut =>
        a = w.cur /\ (w.at = "shedwrite" \/ (w.at \in Holding \ Shedders /\ row[a].raw \in w.cuts))

\* The collapse leaves one booked row out.
BestKept == w.at \in {"shed"} \cup Shedders => \E x \in Accounts \ w.todo : row[x].status = "booked"

KeepInv == u.at = "idle" /\ OnlyCuts /\ CutHeld /\ BestKept /\ (w.at = "release" => w.cuts = {})
-----------------------------------------------------------------------------
(* What the choices choose.                                                *)

LEMMA Least ==
  ASSUME NEW S, S \subseteq Nat, S # {}
  PROVE  \E x \in S : \A y \in S : x <= y
<1> DEFINE Less == OpToRel(<, Nat)
<1>1. \E x \in S : \A y \in S : <<y, x>> \notin Less  BY WFMin, NatLessThanWellFounded
<1>2. ASSUME NEW x \in S, NEW y \in S, <<y, x>> \notin Less PROVE x <= y
  <2>1. ~ (y < x)  BY <1>2 DEF OpToRel
  <2> QED  BY <2>1
<1> HIDE DEF Less
<1> QED  BY <1>1, <1>2

LEMMA MinIn ==
  ASSUME NEW S, S \subseteq Nat, S # {}
  PROVE  Min(S) \in S
BY Least DEF Min

LEMMA KeyNat ==
  ASSUME NEW a \in Accounts, NEW s \in Slots \cup {0}
  PROVE  Key(a, s) \in Nat
<1>1. RankOf(a, s) \in Nat  BY WatchAssumption DEF RankOf, Unranked, Slots
<1>2. s \in Nat /\ NSlots + 1 \in Nat  BY WatchAssumption DEF Slots
<1>3. RankOf(a, s) * (NSlots + 1) \in Nat  BY <1>1, <1>2
<1> QED  BY <1>2, <1>3 DEF Key

LEMMA BestSlotIn ==
  ASSUME NEW a \in Accounts, NEW S, S \subseteq Slots, S # {}
  PROVE  BestSlot(a, S) \in S
<1> DEFINE keys == {Key(a, s) : s \in S}
<1>1. keys \subseteq Nat /\ keys # {}  BY KeyNat
<1>2. \E k \in keys : \A l \in keys : k <= l  BY <1>1, Least
<1>3. \E s \in S : \A t \in S : Key(a, s) <= Key(a, t)  BY <1>2
<1> QED  BY <1>3 DEF BestSlot

LEMMA BestResIn ==
  ASSUME TypeOK, NEW a \in Accounts, NEW S, S \subseteq Ids, S # {}
  PROVE  BestRes(a, S) \in S
<1> DEFINE key(i) == Key(a, res[i].slot)
           keys == {key(i) : i \in S}
<1>1. \A i \in S : key(i) \in Nat
  <2> TAKE i \in S
  <2>1. res[i].slot \in Slots \cup {0}  BY DEF TypeOK, ResType, NoRes
  <2> QED  BY <2>1, KeyNat
<1> HIDE DEF key
<1>2. keys \subseteq Nat /\ keys # {}  BY <1>1
<1>3. PICK k \in keys : \A l \in keys : k <= l  BY <1>2, Least
<1> DEFINE best == {i \in S : key(i) = k}
<1>4. best \subseteq Nat /\ best # {}  BY WatchAssumption DEF Ids
<1>5. PICK i \in best : \A j \in best : i <= j  BY <1>4, Least
<1>6. \A j \in S : key(i) < key(j) \/ (key(i) = key(j) /\ i <= j)
  <2> TAKE j \in S
  <2>1. CASE key(j) = k  BY <1>5, <2>1
  <2>2. CASE key(j) # k  BY <1>1, <1>3, <1>5, <2>2
  <2> QED  BY <2>1, <2>2
<1>7. \E x \in S : \A j \in S : \/ Key(a, res[x].slot) < Key(a, res[j].slot)
                                \/ Key(a, res[x].slot) = Key(a, res[j].slot) /\ x <= j
  BY <1>6 DEF key
<1> QED  BY <1>7 DEF BestRes

-----------------------------------------------------------------------------
(* What a POST, an outcome and a version are.                              *)

Posted(a, s, by, i) ==
    /\ i \in Ids /\ i = Min(Unused) /\ res[i] = NoRes /\ res'[i] = [acct |-> a, slot |-> s, by |-> by]
    /\ \A j \in Ids : j # i => res'[j] = res[j]
    /\ res' \in [Ids -> ResType] /\ live' = live \cup {i}

LEMMA ReservingPosts ==
  ASSUME TypeOK, NEW a \in Accounts, NEW s \in Slots, NEW by \in {"watch", "booker", "hand"},
         Reserving(a, s, by)
  PROVE  \E i \in Ids : Posted(a, s, by, i)
<1>1. Unused # {} /\ Unused \subseteq Ids /\ Unused \subseteq Nat  BY DEF Reserving, Unused, Ids
<1>2. PICK i \in Unused : i = Min(Unused)  BY <1>1, MinIn
<1>3. i \in Ids /\ res[i] = NoRes  BY DEF Unused
<1>4. res' = [res EXCEPT ![i] = [acct |-> a, slot |-> s, by |-> by]] /\ live' = live \cup {i}
  BY <1>2 DEF Reserving
<1> QED  BY <1>2, <1>3, <1>4 DEF Posted, TypeOK, ResType

\* An outcome as the code builds them.
EntriesOK(f) == DOMAIN f \subseteq Ids /\ \A i \in DOMAIN f : f[i] \in Entry \ {"none"}
OutcomeOK(o) ==
    /\ o = [to |-> o.to, raw |-> o.raw, reconcile |-> o.reconcile, clear |-> o.clear, entries |-> o.entries]
    /\ o.to \in {"same", "pending", "booked", "external", "user"} /\ o.raw \in Ids \cup {0}
    /\ o.to = "booked" => o.raw \in Ids
    /\ o.reconcile \in BOOLEAN /\ o.clear \in BOOLEAN /\ EntriesOK(o.entries)

LEMMA EntriesType ==
  ASSUME NEW S, S \subseteq Ids, NEW state \in Entry \ {"none"}
  PROVE  EntriesOK(Entries(S, state)) /\ DOMAIN Entries(S, state) = S
BY DEF EntriesOK, Entries

LEMMA NoEntriesType == EntriesOK(NoEntries) /\ DOMAIN NoEntries = {}
BY DEF EntriesOK, NoEntries

LEMMA PlusType ==
  ASSUME NEW f, NEW g, EntriesOK(f), EntriesOK(g)
  PROVE  EntriesOK(Plus(f, g)) /\ DOMAIN Plus(f, g) = (DOMAIN f) \cup (DOMAIN g)
BY DEF EntriesOK, Plus

LEMMA LedgerType ==
  ASSUME TypeOK, NEW o, OutcomeOK(o)
  PROVE  /\ Ledger(o) \in [Ids -> Entry]
         /\ \A i \in Ids : i \notin DOMAIN o.entries => Ledger(o)[i] = led[i]
         /\ \A i \in DOMAIN o.entries : Ledger(o)[i] # "none"
         /\ \A i \in Ids : led[i] # "none" => Ledger(o)[i] # "none"
BY DEF Ledger, OutcomeOK, EntriesOK, TypeOK

\* The row an accepted outcome leaves behind.
Becomes(r, o, p, n) ==
    /\ n \in Row
    /\ n.status = IF o.to # "same" THEN o.to ELSE r.status
    /\ n.raw = IF o.to = "booked" THEN o.raw ELSE IF o.to = "pending" THEN 0 ELSE r.raw
    /\ n.tee = IF o.to = "booked" THEN res[o.raw].slot ELSE IF o.to = "pending" THEN 0 ELSE r.tee
    /\ o.to # "same" => n.reconcile = o.reconcile
    /\ n.reconcile => (r.reconcile \/ o.reconcile)
    /\ o.to = "same" /\ r.reconcile => n.reconcile
    /\ n.marker <=> (r.marker /\ ~o.clear)
    /\ n.lease = IF r.lease = p THEN "none" ELSE r.lease
    /\ n.alive <=> (r.alive /\ r.lease # p)

LEMMA OutcomeRowIs ==
  ASSUME TypeOK, NEW r \in Row, NEW o, OutcomeOK(o), NEW p
  PROVE  Becomes(r, o, p, OutcomeRow(r, o, p))
<1>1. o.to = "booked" => res[o.raw].slot \in Slots \cup {0}
  BY DEF OutcomeOK, TypeOK, ResType, NoRes
<1>2. PICK rec \in BOOLEAN : rec = IF o.to # "same" THEN o.reconcile ELSE r.reconcile \/ o.reconcile
  BY DEF Row, OutcomeOK
<1>3. PICK mark \in BOOLEAN : mark = (r.marker /\ ~o.clear)  BY DEF Row, OutcomeOK
<1>4. PICK st : st = IF o.to # "same" THEN o.to ELSE r.status  OBVIOUS
<1>5. PICK raw : raw = IF o.to = "booked" THEN o.raw ELSE IF o.to = "pending" THEN 0 ELSE r.raw  OBVIOUS
<1>6. PICK tee : tee = IF o.to = "booked" THEN res[o.raw].slot ELSE IF o.to = "pending" THEN 0 ELSE r.tee  OBVIOUS
<1>7. PICK new : new = [r EXCEPT !.status = st, !.raw = raw, !.tee = tee, !.reconcile = rec, !.marker = mark]
  OBVIOUS
<1>8. OutcomeRow(r, o, p) = Released(new, p)
  BY <1>2, <1>3, <1>4, <1>5, <1>6, <1>7, Zenon DEF OutcomeRow
<1>9. /\ new \in Row /\ new.status = st /\ new.raw = raw /\ new.tee = tee /\ new.reconcile = rec
      /\ new.marker = mark /\ new.lease = r.lease /\ new.alive = r.alive
  <2>1. st \in States /\ raw \in Ids \cup {0} /\ tee \in Slots \cup {0}
    BY <1>1, <1>4, <1>5, <1>6 DEF OutcomeOK, Row, States
  <2> QED  BY <1>7, <2>1 DEF Row
<1>10. CASE r.lease = p
  <2>1. PICK done : done = [new EXCEPT !.lease = "none", !.alive = FALSE]  OBVIOUS
  <2>2. OutcomeRow(r, o, p) = done  BY <1>8, <1>9, <1>10, <2>1 DEF Released
  <2>3. /\ done \in Row /\ done.status = st /\ done.raw = raw /\ done.tee = tee /\ done.reconcile = rec
        /\ done.marker = mark /\ done.lease = "none" /\ done.alive = FALSE
    BY <1>9, <2>1 DEF Row
  <2>4. Becomes(r, o, p, done)  BY <1>2, <1>3, <1>4, <1>5, <1>6, <1>10, <2>3 DEF Becomes
  <2> QED  BY <2>2, <2>4
<1>11. CASE r.lease # p
  <2>1. OutcomeRow(r, o, p) = new  BY <1>8, <1>9, <1>11 DEF Released
  <2>2. Becomes(r, o, p, new)
    <3>1. new.alive \in BOOLEAN /\ r.alive \in BOOLEAN  BY <1>9 DEF Row
    <3> QED  BY <1>2, <1>3, <1>4, <1>5, <1>6, <1>9, <1>11, <3>1 DEF Becomes
  <2> QED  BY <2>1, <2>2
<1> QED  BY <1>10, <1>11

-----------------------------------------------------------------------------
(* What a step leaves alone.                                               *)

Grows == \A i \in Ids : Used(i) => res'[i] = res[i]

LEMMA OfGrows ==
  ASSUME Grows, NEW a \in Accounts, NEW i, Of(i, a)
  PROVE  Of(i, a)' /\ res'[i] = res[i]
BY DEF Grows, Of, Used, NoRes, Accounts

LEMMA BoundGrows ==
  ASSUME Grows, NEW a \in Accounts, NEW r, Bound(r, a)
  PROVE  /\ r.status \in {"booked", "external"} => Of(r.raw, a)' /\ r.tee = res'[r.raw].slot
         /\ r.status = "pending" => r.tee = 0 /\ r.raw = 0
BY OfGrows DEF Bound

\* The booking a row speaks of, and its lease.
SameBooking(r, n) == n.status = r.status /\ n.raw = r.raw /\ n.tee = r.tee
SameLease(r, n) == n.lease = r.lease /\ n.alive = r.alive

LEMMA RowsMove ==
  ASSUME RowsBound, Grows,
         \A a \in Accounts : SameBooking(row[a], row'[a]) \/ Bound(row[a], a)'
  PROVE  RowsBound'
<1> SUFFICES ASSUME NEW a \in Accounts PROVE Bound(row[a], a)'  BY DEF RowsBound
<1>1. Bound(row[a], a)  BY DEF RowsBound
<1> QED  BY <1>1, OfGrows DEF Bound, SameBooking

LEMMA PlansStay ==
  ASSUME PlansBound, Grows, \A a \in Accounts : w'.plan[a] = w.plan[a] \/ w'.plan[a] = NoPlan
  PROVE  PlansBound'
<1> SUFFICES ASSUME NEW a \in Accounts
             PROVE (Bound(w.plan[a].row, a) /\ \A i \in w.plan[a].own : Of(i, a))'
  BY DEF PlansBound
<1>1. CASE w'.plan[a] = w.plan[a]
  <2>1. Bound(w.plan[a].row, a) /\ \A i \in w.plan[a].own : Of(i, a)  BY DEF PlansBound
  <2> QED  BY <1>1, <2>1, OfGrows DEF Bound
<1>2. CASE w'.plan[a] = NoPlan  BY <1>2 DEF NoPlan, NewRow, Bound
<1> QED  BY <1>1, <1>2

LEMMA RunStays ==
  ASSUME RunBound, Grows, w.cur \in Accounts,
         w'.cur = w.cur, w'.seen \subseteq w.seen, w'.new = w.new \/ w'.new = 0,
         w'.at = "extras" => w.at = "extras" /\ w'.cand \subseteq w.cand
  PROVE  RunBound'
BY OfGrows DEF RunBound

LEMMA RunRests ==
  ASSUME w'.seen = {}, w'.new = 0, w'.at # "extras"
  PROVE  RunBound'
BY DEF RunBound

LEMMA CrewStays ==
  ASSUME CrewBound, Grows, u' = u, b' = b
  PROVE  CrewBound'
BY OfGrows DEF CrewBound

LEMMA UsedStay ==
  ASSUME AllUsed, Grows, \A i \in Ids : led'[i] = led[i] \/ Used(i),
         \A i \in live' \cup cut' \cup quit' : i \in live \cup cut \cup quit \/ Used(i)'
  PROVE  AllUsed'
BY DEF AllUsed, Grows, Used

LEMMA RunHoldsOn ==
  ASSUME RunHolds, w'.at \in Holding => w.at \in Holding /\ w'.cur = w.cur /\ w'.plan[w.cur] = w.plan[w.cur],
         w.at \in Holding => SameLease(row[w.cur], row'[w.cur]) /\ SameBooking(row[w.cur], row'[w.cur])
  PROVE  RunHolds'
BY DEF RunHolds, SameLease, SameBooking, Cur, Active

LEMMA BookerHoldsOn ==
  ASSUME BookerHolds, \A a \in Accounts : b'[a].on => b[a].on,
         \A a \in Accounts : b[a].on => SameLease(row[a], row'[a]) /\ SameBooking(row[a], row'[a])
  PROVE  BookerHolds'
BY DEF BookerHolds, SameLease, SameBooking

LEMMA ReadsStay ==
  ASSUME ReadOK, w'.todo \subseteq w.todo, \A a \in w'.todo : w'.plan[a].row = w.plan[a].row,
         \A a \in w'.todo : Fresh("w", a)' => Fresh("w", a) /\ Version(row'[a]) = Version(row[a])
  PROVE  ReadOK'
BY DEF ReadOK, Version

LEMMA QuitStays ==
  ASSUME TypeOK, QuitOK, AllUsed, Grows, quit' = quit,
         \A a \in Accounts : row[a].status = "user" => row'[a].status = "user"
  PROVE  QuitOK'
BY DEF QuitOK, AllUsed, Grows, TypeOK

\* Bump marks every row whose version changes.
LEMMA BumpMarks ==
  ASSUME TypeOK, moved' = Bump(row')
  PROVE  /\ moved' \subseteq {"w", "u"} \X Accounts
         /\ \A a \in Accounts : Fresh("w", a)' => Fresh("w", a) /\ Version(row'[a]) = Version(row[a])
BY DEF Bump, Fresh, TypeOK, Version

LEMMA RunSame ==
  ASSUME PhaseOK, CurOK, w' = w
  PROVE  PhaseOK' /\ CurOK'
BY DEF PhaseOK, CurOK, Cur

\* A step of anybody but the watcher.
LEMMA BesideRun ==
  ASSUME WatchInv, TypeOK', w' = w, Grows,
         \A a \in Accounts : SameBooking(row[a], row'[a]) \/ Bound(row[a], a)',
         w.at \in Holding => SameLease(row[w.cur], row'[w.cur]) /\ SameBooking(row[w.cur], row'[w.cur]),
         \A a \in Accounts : Fresh("w", a)' => Fresh("w", a) /\ Version(row'[a]) = Version(row[a]),
         CrewBound', AllUsed', BookerHolds', QuitOK'
  PROVE  WatchInv'
<1>1. PhaseOK' /\ CurOK'  BY RunSame DEF WatchInv
<1>2. RowsBound'  BY RowsMove DEF WatchInv
<1>3. PlansBound'  BY PlansStay DEF WatchInv
<1>4. RunBound'
  <2>1. CASE w.at \in Holding \cup {"act"}
    <3>1. w.cur \in Accounts  BY <2>1 DEF WatchInv, PhaseOK, TypeOK, RunType
    <3> QED  BY <3>1, RunStays DEF WatchInv
  <2>2. CASE w.at \notin Holding \cup {"act"}
    <3>1. w'.seen = {} /\ w'.new = 0 /\ w'.at # "extras"  BY <2>2 DEF WatchInv, PhaseOK, Holding, Shedders
    <3> QED  BY <3>1, RunRests
  <2> QED  BY <2>1, <2>2
<1>5. RunHolds'  BY RunHoldsOn DEF WatchInv
<1>6. ReadOK'
  <2>1. w.todo \subseteq Accounts  BY DEF WatchInv, TypeOK, RunType
  <2> QED  BY <2>1, ReadsStay DEF WatchInv
<1> QED  BY <1>1, <1>2, <1>3, <1>4, <1>5, <1>6 DEF WatchInv

LEMMA HandBookStep ==
  ASSUME WatchInv, NEW a \in Accounts, HandBook(a)
  PROVE  WatchInv'
<1>1. PICK s \in Slots : Reserving(a, s, "hand")  BY DEF HandBook
<1>2. PICK i \in Ids : Posted(a, s, "hand", i)  BY <1>1, ReservingPosts DEF WatchInv
<1>3. UNCHANGED <<dry, frozen, u, b, row, led, snap, moved, w, cut, quit>>
  BY DEF HandBook, Outside, Crew, history
<1>4. Grows  BY <1>2 DEF Grows, Posted, Used
<1>5. TypeOK'  BY <1>2, <1>3 DEF TypeOK, Posted, WatchInv
<1>6. CrewBound'  BY <1>3, <1>4, CrewStays DEF WatchInv
<1>7. AllUsed'
  <2>1. \A j \in Ids : Used(j) => Used(j)'  BY <1>4 DEF Grows, Used
  <2>2. Used(i)'  BY <1>2 DEF Posted, Used, NoRes, Accounts
  <2>3. live' = live \cup {i}  BY <1>2 DEF Posted
  <2> QED  BY <1>3, <2>1, <2>2, <2>3 DEF AllUsed, WatchInv
<1>8. BookerHolds'  BY <1>3, BookerHoldsOn DEF WatchInv, SameLease, SameBooking
<1>9. QuitOK'  BY <1>3, <1>4, QuitStays DEF WatchInv
<1> QED  BY <1>3, <1>4, <1>5, <1>6, <1>7, <1>8, <1>9, BesideRun DEF SameLease, SameBooking, Fresh

LEMMA HandCancelStep ==
  ASSUME WatchInv, NEW i \in Ids, HandCancel(i)
  PROVE  WatchInv'
<1>1. UNCHANGED <<dry, frozen, u, b, res, row, led, snap, moved, w, cut, quit>> /\ live' \subseteq live
  BY DEF HandCancel, Outside, Crew, history
<1>2. Grows  BY <1>1 DEF Grows
<1>3. TypeOK'  BY <1>1 DEF TypeOK, WatchInv
<1>4. CrewBound'  BY <1>1, <1>2, CrewStays DEF WatchInv
<1>5. AllUsed'  BY <1>1, <1>2, UsedStay DEF WatchInv
<1>6. BookerHolds'  BY <1>1, BookerHoldsOn DEF WatchInv, SameLease, SameBooking
<1>7. QuitOK'  BY <1>1, <1>2, QuitStays DEF WatchInv
<1> QED  BY <1>1, <1>2, <1>3, <1>4, <1>5, <1>6, <1>7, BesideRun DEF SameLease, SameBooking, Fresh

LEMMA CutoffStep ==
  ASSUME WatchInv, CutoffPasses
  PROVE  WatchInv'
<1>1. UNCHANGED <<dry, u, b, res, live, row, led, snap, moved, w, cut, quit>> /\ frozen' = TRUE
  BY DEF CutoffPasses, Crew, history, course
<1>2. Grows  BY <1>1 DEF Grows
<1>3. TypeOK'  BY <1>1 DEF TypeOK, WatchInv
<1>4. CrewBound'  BY <1>1, <1>2, CrewStays DEF WatchInv
<1>5. AllUsed'  BY <1>1, <1>2, UsedStay DEF WatchInv
<1>6. BookerHolds'  BY <1>1, BookerHoldsOn DEF WatchInv, SameLease, SameBooking
<1>7. QuitOK'  BY <1>1, <1>2, QuitStays DEF WatchInv
<1> QED  BY <1>1, <1>2, <1>3, <1>4, <1>5, <1>6, <1>7, BesideRun DEF SameLease, SameBooking, Fresh

LEMMA ExpireStep ==
  ASSUME WatchInv, NEW a \in Accounts, Expire(a)
  PROVE  WatchInv'
<1>1. /\ UNCHANGED <<dry, frozen, u, b, res, live, led, snap, moved, w, cut, quit>>
      /\ row' = [row EXCEPT ![a].alive = FALSE]
  BY DEF Expire, Outside, Crew, course, history
<1>2. Dead(a) \/ row[a].lease = "u"  BY DEF Expire
<1>3. row \in [Accounts -> Row]  BY DEF WatchInv, TypeOK
<1>4. /\ row' \in [Accounts -> Row] /\ \A x \in Accounts : x # a => row'[x] = row[x]
      /\ SameBooking(row[a], row'[a]) /\ row'[a].reconcile = row[a].reconcile
  BY <1>1, <1>3 DEF Row, SameBooking
<1>5. Grows  BY <1>1 DEF Grows
<1>6. TypeOK'  BY <1>1, <1>4 DEF TypeOK, WatchInv
<1>7. CrewBound'  BY <1>1, <1>5, CrewStays DEF WatchInv
<1>8. AllUsed'  BY <1>1, <1>5, UsedStay DEF WatchInv
<1>9. \A x \in Accounts : b[x].on => x # a
  <2> SUFFICES ASSUME b[a].on PROVE FALSE  OBVIOUS
  <2>1. row[a].lease = "b"  BY DEF WatchInv, BookerHolds
  <2> QED  BY <1>2, <2>1 DEF Dead
<1>10. BookerHolds'  BY <1>1, <1>4, <1>9, BookerHoldsOn DEF WatchInv, SameLease, SameBooking
<1>11. QuitOK'  BY <1>1, <1>4, <1>5, QuitStays DEF WatchInv, SameBooking
<1>12. w.at \in Holding => w.cur \in Accounts /\ w.cur # a
  <2> SUFFICES ASSUME w.at \in Holding PROVE w.cur \in Accounts /\ w.cur # a  OBVIOUS
  <2>1. w.cur \in Accounts  BY DEF WatchInv, PhaseOK, TypeOK, RunType
  <2>2. row[w.cur].lease = "w"  BY DEF WatchInv, RunHolds
  <2>3. w.at \notin {"idle", "plan", "login", "act", "collapse", "shed"}  BY DEF Holding, Shedders
  <2> QED  BY <1>2, <2>1, <2>2, <2>3 DEF Dead
<1> QED  BY <1>1, <1>4, <1>5, <1>6, <1>7, <1>8, <1>10, <1>11, <1>12, BesideRun DEF SameLease, SameBooking, Fresh, Version

-----------------------------------------------------------------------------
(* The booker and the web.                                                 *)

LEMMA BookerClaimStep ==
  ASSUME WatchInv, NEW a \in Accounts, BookerClaim(a)
  PROVE  WatchInv'
<1>1. /\ UNCHANGED <<dry, frozen, u, res, live, led, snap, moved, w, cut, quit>>
      /\ row' = [row EXCEPT ![a] = Leased(@, "b")] /\ b' = [b EXCEPT ![a].on = TRUE]
      /\ row[a].status = "pending" /\ Free(row[a]) /\ ~b[a].on
  BY DEF BookerClaim, course, history
<1>2. row \in [Accounts -> Row] /\ b \in [Accounts -> BookerType]  BY DEF WatchInv, TypeOK
<1>3. /\ row' \in [Accounts -> Row] /\ \A x \in Accounts : x # a => row'[x] = row[x]
      /\ SameBooking(row[a], row'[a]) /\ row'[a].reconcile = row[a].reconcile
      /\ row'[a].lease = "b" /\ row'[a].alive
  BY <1>1, <1>2 DEF Row, SameBooking, Leased
<1>4. /\ b' \in [Accounts -> BookerType] /\ \A x \in Accounts : x # a => b'[x] = b[x]
      /\ b'[a].ids = b[a].ids /\ b'[a].on
  BY <1>1, <1>2 DEF BookerType
<1>5. Grows  BY <1>1 DEF Grows
<1>6. TypeOK'  BY <1>1, <1>3, <1>4 DEF TypeOK, WatchInv
<1>7. CrewBound'
  <2>1. \A x \in Accounts : /\ \A i \in b[x].ids : Of(i, x) /\ res[i].by = "booker"
                            /\ ~b[x].on => b[x].ids = {}
    BY DEF WatchInv, CrewBound
  <2>2. \A x \in Accounts : b'[x].ids = b[x].ids /\ (~b'[x].on => b'[x].ids = {})
    BY <1>4, <2>1
  <2> QED  BY <1>1, <2>1, <2>2 DEF WatchInv, CrewBound, Of
<1>8. AllUsed'  BY <1>1, <1>5, UsedStay DEF WatchInv
<1>9. BookerHolds'  BY <1>1, <1>3, <1>4 DEF WatchInv, BookerHolds, SameBooking
<1>10. QuitOK'  BY <1>1, <1>3, <1>5, QuitStays DEF WatchInv, SameBooking
<1>11. w.at \in Holding => w.cur \in Accounts /\ w.cur # a
  BY <1>1 DEF WatchInv, PhaseOK, TypeOK, RunType, RunHolds, Free, Held
<1> QED  BY <1>1, <1>3, <1>5, <1>6, <1>7, <1>8, <1>9, <1>10, <1>11, BesideRun DEF SameLease, SameBooking, Fresh, Version

LEMMA BookerPostStep ==
  ASSUME WatchInv, NEW a \in Accounts, BookerPost(a)
  PROVE  WatchInv'
<1>1. PICK s \in Slots : Reserving(a, s, "booker") /\ b' = [b EXCEPT ![a].ids = @ \cup {Min(Unused)}]
  BY DEF BookerPost
<1>2. PICK i \in Ids : Posted(a, s, "booker", i)  BY <1>1, ReservingPosts DEF WatchInv
<1>3. UNCHANGED <<dry, frozen, row, led, snap, moved, w, u, cut, quit>> /\ b[a].on
  BY DEF BookerPost, history
<1>4. b \in [Accounts -> BookerType]  BY DEF WatchInv, TypeOK
<1>5. /\ b' \in [Accounts -> BookerType] /\ \A x \in Accounts : x # a => b'[x] = b[x]
      /\ b'[a].ids = b[a].ids \cup {i} /\ b'[a].on
  BY <1>1, <1>2, <1>3, <1>4 DEF BookerType, Posted
<1>6. Grows  BY <1>2 DEF Grows, Posted, Used
<1>7. TypeOK'  BY <1>2, <1>3, <1>5 DEF TypeOK, Posted, WatchInv
<1>8. CrewBound'
  <2>1. \A x \in Accounts : /\ \A j \in b[x].ids : Of(j, x) /\ res[j].by = "booker"
                            /\ ~b[x].on => b[x].ids = {}
    BY DEF WatchInv, CrewBound
  <2>2. \A x \in Accounts : \A j \in b[x].ids : Of(j, x)' /\ res'[j].by = "booker"
    BY <1>6, <2>1, OfGrows
  <2>3. Of(i, a)' /\ res'[i].by = "booker"  BY <1>2 DEF Posted, Of
  <2>4. (u.at # "idle" => u.acct \in Accounts /\ Of(u.raw, u.acct)') /\ (u.at = "write" => u.why # "none")
    BY <1>3, <1>6, OfGrows DEF WatchInv, CrewBound
  <2> QED  BY <1>3, <1>5, <2>1, <2>2, <2>3, <2>4 DEF CrewBound
<1>9. AllUsed'
  <2>1. \A j \in Ids : Used(j) => Used(j)'  BY <1>6 DEF Grows, Used
  <2>2. Used(i)'  BY <1>2 DEF Posted, Used, NoRes, Accounts
  <2>3. live' = live \cup {i}  BY <1>2 DEF Posted
  <2> QED  BY <1>3, <2>1, <2>2, <2>3 DEF AllUsed, WatchInv
<1>10. BookerHolds'
  <2>1. \A x \in Accounts : b'[x].on => b[x].on  BY <1>3, <1>5
  <2> QED  BY <1>3, <2>1, BookerHoldsOn DEF WatchInv, SameLease, SameBooking
<1>11. QuitOK'  BY <1>3, <1>6, QuitStays DEF WatchInv
<1> QED  BY <1>3, <1>6, <1>7, <1>8, <1>9, <1>10, <1>11, BesideRun DEF SameLease, SameBooking, Fresh

LEMMA BookerDiesStep ==
  ASSUME WatchInv, NEW a \in Accounts, BookerDies(a)
  PROVE  WatchInv'
<1>1. /\ UNCHANGED <<dry, frozen, u, res, live, row, led, snap, moved, w, cut, quit>>
      /\ b' = [b EXCEPT ![a] = [BIdle EXCEPT !.done = TRUE]]
  BY DEF BookerDies, course, history
<1>2. b \in [Accounts -> BookerType]  BY DEF WatchInv, TypeOK
<1>3. /\ b' \in [Accounts -> BookerType] /\ \A x \in Accounts : x # a => b'[x] = b[x]
      /\ b'[a].ids = {} /\ ~b'[a].on
  BY <1>1, <1>2 DEF BookerType, BIdle
<1>4. Grows  BY <1>1 DEF Grows
<1>5. TypeOK'  BY <1>1, <1>3 DEF TypeOK, WatchInv
<1>6. CrewBound'  BY <1>1, <1>3 DEF WatchInv, CrewBound, Of
<1>7. AllUsed'  BY <1>1, <1>4, UsedStay DEF WatchInv
<1>8. BookerHolds'
  <2>1. \A x \in Accounts : b'[x].on => b[x].on  BY <1>3
  <2> QED  BY <1>1, <2>1, BookerHoldsOn DEF WatchInv, SameLease, SameBooking
<1>9. QuitOK'  BY <1>1, <1>4, QuitStays DEF WatchInv
<1> QED  BY <1>1, <1>4, <1>5, <1>6, <1>7, <1>8, <1>9, BesideRun DEF SameLease, SameBooking, Fresh

\* What the booker writes at its end.
LEMMA BookerOutcomeOK ==
  ASSUME WatchInv, NEW a \in Accounts, NEW lost, lost \subseteq b[a].ids,
         NEW o, o = BookerOutcome(a, lost)
  PROVE  /\ OutcomeOK(o) /\ o.to \in {"same", "booked"}
         /\ o.to = "booked" => o.raw \in b[a].ids
         /\ DOMAIN o.entries \subseteq b[a].ids
         /\ ~o.clear
<1>1. b[a].ids \subseteq Ids  BY DEF WatchInv, TypeOK, BookerType
<1>2. PICK heard : heard = b[a].ids \ lost  OBVIOUS
<1>3. CASE heard = {}
  <2>1. o = Outcome("same", 0, lost # {}, FALSE, NoEntries)  BY <1>2, <1>3 DEF BookerOutcome
  <2> QED  BY <1>1, <2>1, NoEntriesType DEF OutcomeOK, Outcome
<1>4. CASE heard # {}
  <2>1. PICK kept : kept = BestRes(a, heard)  OBVIOUS
  <2>2. kept \in heard  BY <1>1, <1>2, <1>4, <2>1, BestResIn DEF WatchInv
  <2>3. PICK e : e = Plus(Entries(heard, "held_extra"), Entries({kept}, "held"))  OBVIOUS
  <2>4. EntriesOK(e) /\ DOMAIN e = heard
    <3>1. EntriesOK(Entries(heard, "held_extra")) /\ DOMAIN Entries(heard, "held_extra") = heard
      BY <1>1, <1>2, EntriesType DEF Entry
    <3>2. EntriesOK(Entries({kept}, "held")) /\ DOMAIN Entries({kept}, "held") = {kept}
      BY <1>1, <1>2, <2>2, EntriesType DEF Entry
    <3> QED  BY <2>2, <2>3, <3>1, <3>2, PlusType
  <2>5. o = Outcome("booked", kept, lost # {}, FALSE, e)  BY <1>2, <1>4, <2>1, <2>3 DEF BookerOutcome
  <2> QED  BY <1>1, <1>2, <2>2, <2>4, <2>5 DEF OutcomeOK, Outcome
<1> QED  BY <1>3, <1>4

\* What BookerEnd does to the row it claimed.
LEMMA BookerEndIs ==
  ASSUME WatchInv, NEW a \in Accounts, BookerEnd(a)
  PROVE  \E o, n : /\ OutcomeOK(o) /\ o.to \in {"same", "booked"} /\ (o.to = "booked" => o.raw \in b[a].ids)
                   /\ DOMAIN o.entries \subseteq b[a].ids /\ ~o.clear
                   /\ row' = [row EXCEPT ![a] = n] /\ Becomes(row[a], o, "b", n) /\ led' = Ledger(o)
<1>1. PICK lost : /\ lost \subseteq b[a].ids
                  /\ row' = Recorded(a, BookerOutcome(a, lost), "b") /\ led' = Ledger(BookerOutcome(a, lost))
  BY DEF BookerEnd
<1>2. PICK o : o = BookerOutcome(a, lost)  OBVIOUS
<1>3. /\ OutcomeOK(o) /\ o.to \in {"same", "booked"} /\ (o.to = "booked" => o.raw \in b[a].ids)
      /\ DOMAIN o.entries \subseteq b[a].ids /\ ~o.clear
  BY <1>1, <1>2, BookerOutcomeOK
<1>4. row \in [Accounts -> Row] /\ row[a] \in Row  BY DEF WatchInv, TypeOK
<1>5. row[a].lease = "b" /\ row[a].alive  BY DEF BookerEnd, WatchInv, BookerHolds
<1>6. Accepted(row[a], o, "b")  BY <1>5 DEF Accepted
<1>7. PICK n : n = OutcomeRow(row[a], o, "b")  OBVIOUS
<1>8. row' = [row EXCEPT ![a] = n]  BY <1>1, <1>2, <1>4, <1>6, <1>7 DEF Recorded
<1>9. Becomes(row[a], o, "b", n)  BY <1>3, <1>4, <1>7, OutcomeRowIs DEF WatchInv
<1> QED  BY <1>1, <1>2, <1>3, <1>8, <1>9

LEMMA BookerEndStep ==
  ASSUME WatchInv, NEW a \in Accounts, BookerEnd(a)
  PROVE  WatchInv'
<1>1. PICK o, n : /\ OutcomeOK(o) /\ o.to \in {"same", "booked"} /\ (o.to = "booked" => o.raw \in b[a].ids)
                  /\ DOMAIN o.entries \subseteq b[a].ids
                  /\ row' = [row EXCEPT ![a] = n] /\ Becomes(row[a], o, "b", n) /\ led' = Ledger(o)
  BY BookerEndIs
<1>4. /\ UNCHANGED <<dry, frozen, u, res, live, snap, w, cut, quit>> /\ b[a].on
      /\ b' = [b EXCEPT ![a] = [BIdle EXCEPT !.done = TRUE]] /\ moved' = Bump(row')
  BY DEF BookerEnd, course, history
<1>5. b \in [Accounts -> BookerType] /\ row \in [Accounts -> Row]  BY DEF WatchInv, TypeOK
<1>6. /\ b' \in [Accounts -> BookerType] /\ \A x \in Accounts : x # a => b'[x] = b[x]
      /\ b'[a].ids = {} /\ ~b'[a].on
  BY <1>4, <1>5 DEF BookerType, BIdle
<1>7. row[a].lease = "b" /\ row[a].alive /\ row[a].status = "pending"  BY <1>4 DEF WatchInv, BookerHolds
<1>12. /\ row' \in [Accounts -> Row] /\ \A x \in Accounts : x # a => row'[x] = row[x]
       /\ row'[a] = n
  BY <1>1, <1>5 DEF Becomes
<1>13. Grows  BY <1>4 DEF Grows
<1>14. led' \in [Ids -> Entry] /\ \A i \in Ids : led'[i] = led[i] \/ i \in b[a].ids
  BY <1>1, LedgerType DEF WatchInv
<1>15. moved' \subseteq {"w", "u"} \X Accounts
       /\ \A x \in Accounts : Fresh("w", x)' => Fresh("w", x) /\ Version(row'[x]) = Version(row[x])
  BY <1>4, BumpMarks DEF WatchInv
<1>16. TypeOK'  BY <1>4, <1>6, <1>12, <1>14, <1>15 DEF TypeOK, WatchInv
<1>17. CrewBound'  BY <1>4, <1>6 DEF WatchInv, CrewBound, Of
<1>18. \A i \in b[a].ids : Of(i, a)  BY DEF WatchInv, CrewBound
<1>19. AllUsed'
  <2>1. \A i \in b[a].ids : Used(i)  BY <1>18 DEF Of, Used, NoRes, Accounts
  <2> QED  BY <1>4, <1>13, <1>14, <2>1, UsedStay DEF WatchInv
<1>20. BookerHolds'  BY <1>6, <1>12 DEF WatchInv, BookerHolds
<1>21. QuitOK'  BY <1>4, <1>7, <1>12, <1>13, QuitStays DEF WatchInv
<1>22. Bound(row[a], a)'
  <2>1. Bound(row[a], a)  BY DEF WatchInv, RowsBound
  <2> QED  BY <1>1, <1>4, <1>7, <1>12, <1>18, <2>1 DEF Bound, Of, Becomes
<1>23. w.at \in Holding => w.cur \in Accounts /\ w.cur # a
  BY <1>7 DEF WatchInv, PhaseOK, TypeOK, RunType, RunHolds
<1> QED  BY <1>4, <1>12, <1>13, <1>15, <1>16, <1>17, <1>19, <1>20, <1>21, <1>22, <1>23, BesideRun
         DEF SameLease, SameBooking

LEMMA ReleasedIs ==
  ASSUME NEW r \in Row, NEW p, NEW n, n = Released(r, p)
  PROVE  /\ n \in Row /\ SameBooking(r, n) /\ n.reconcile = r.reconcile /\ n.marker = r.marker
         /\ r.lease # p => n = r
BY DEF Released, Row, SameBooking

LEMMA FlaggedIs ==
  ASSUME NEW r \in Row, NEW n, n = Flagged(r)
  PROVE  n \in Row /\ SameBooking(r, n) /\ SameLease(r, n) /\ n.marker = r.marker
BY DEF Flagged, Row, SameBooking, SameLease

LEMMA WebLeaseStep ==
  ASSUME WatchInv, NEW a \in Accounts, WebLease(a)
  PROVE  WatchInv'
<1>1. /\ UNCHANGED <<dry, frozen, b, res, live, led, snap, w, cut, quit>>
      /\ row' = [row EXCEPT ![a] = Leased(@, "u")] /\ moved' = moved \ {<<"u", a>>}
      /\ row[a].status = "booked" /\ Free(row[a])
      /\ u' = [UIdle EXCEPT !.at = "leased", !.acct = a, !.raw = row[a].raw, !.owned = (led[row[a].raw] # "none")]
  BY DEF WebLease, course, history
<1>2. row \in [Accounts -> Row]  BY DEF WatchInv, TypeOK
<1>3. /\ row' \in [Accounts -> Row] /\ \A x \in Accounts : x # a => row'[x] = row[x]
      /\ SameBooking(row[a], row'[a]) /\ row'[a].reconcile = row[a].reconcile
  BY <1>1, <1>2 DEF Row, SameBooking, Leased
<1>4. Of(row[a].raw, a)  BY <1>1 DEF WatchInv, RowsBound, Bound
<1>5. u' \in WebType /\ u'.at = "leased" /\ u'.acct = a /\ u'.raw = row[a].raw
  BY <1>1, <1>4 DEF WebType, UIdle, Of
<1>6. Grows  BY <1>1 DEF Grows
<1>7. TypeOK'  BY <1>1, <1>3, <1>5 DEF TypeOK, WatchInv
<1>8. CrewBound'  BY <1>1, <1>4, <1>5 DEF WatchInv, CrewBound, Of
<1>9. AllUsed'  BY <1>1, <1>6, UsedStay DEF WatchInv
<1>10. BookerHolds'
  <2>1. ~b[a].on  BY <1>1 DEF WatchInv, BookerHolds, Free, Held
  <2> QED  BY <1>1, <1>3, <2>1 DEF WatchInv, BookerHolds
<1>11. QuitOK'  BY <1>1, <1>3, <1>6, QuitStays DEF WatchInv, SameBooking
<1>12. w.at \in Holding => w.cur \in Accounts /\ w.cur # a
  BY <1>1 DEF WatchInv, PhaseOK, TypeOK, RunType, RunHolds, Free, Held
<1>13. \A x \in Accounts : Fresh("w", x)' => Fresh("w", x)  BY <1>1 DEF Fresh
<1> QED  BY <1>1, <1>3, <1>6, <1>7, <1>8, <1>9, <1>10, <1>11, <1>12, <1>13, BesideRun
         DEF SameLease, SameBooking, Version

LEMMA WebCancelStep ==
  ASSUME WatchInv, WebCancel
  PROVE  WatchInv'
<1>1. /\ UNCHANGED <<dry, frozen, b, res, led, snap, moved, w, cut, quit>> /\ u.at = "leased" /\ live' \subseteq live
  BY DEF WebCancel, history
<1>2. \/ /\ u' = [u EXCEPT !.at = "write", !.left = At(u.acct) \ {u.raw},
                           !.why = IF u.raw \in live THEN "cancelled_user" ELSE "vanished"]
         /\ row' = row
      \/ u' = UIdle /\ row' = [row EXCEPT ![u.acct] = Released(@, "u")]
  BY DEF WebCancel
<1>3. u.acct \in Accounts /\ Of(u.raw, u.acct)  BY <1>1 DEF WatchInv, CrewBound
<1>4. row \in [Accounts -> Row] /\ u \in WebType  BY DEF WatchInv, TypeOK
<1>5. /\ row' \in [Accounts -> Row] /\ \A x \in Accounts : x # u.acct => row'[x] = row[x]
      /\ SameBooking(row[u.acct], row'[u.acct]) /\ row'[u.acct].reconcile = row[u.acct].reconcile
      /\ row[u.acct].lease # "u" => row'[u.acct] = row[u.acct]
  <2>1. CASE row' = row  BY <1>4, <2>1 DEF SameBooking
  <2>2. CASE row' = [row EXCEPT ![u.acct] = Released(@, "u")]
    <3>1. PICK n : n = Released(row[u.acct], "u")  OBVIOUS
    <3>2. n \in Row /\ SameBooking(row[u.acct], n) /\ n.reconcile = row[u.acct].reconcile
          /\ (row[u.acct].lease # "u" => n = row[u.acct])
      BY <1>3, <1>4, <3>1, ReleasedIs
    <3> QED  BY <1>3, <1>4, <2>2, <3>1, <3>2
  <2> QED  BY <1>2, <2>1, <2>2
<1>6. /\ u' \in WebType /\ (u'.at # "idle" => u'.acct = u.acct /\ u'.raw = u.raw /\ u'.why # "none")
  <2>1. At(u.acct) \ {u.raw} \subseteq Ids  BY DEF At, WatchInv, TypeOK
  <2>2. CASE u' = [u EXCEPT !.at = "write", !.left = At(u.acct) \ {u.raw},
                           !.why = IF u.raw \in live THEN "cancelled_user" ELSE "vanished"]
    <3>1. PICK why \in {"cancelled_user", "vanished"} : why = IF u.raw \in live THEN "cancelled_user" ELSE "vanished"
      OBVIOUS
    <3> QED  BY <1>4, <2>1, <2>2, <3>1 DEF WebType
  <2>3. CASE u' = UIdle  BY <2>3 DEF WebType, UIdle
  <2> QED  BY <1>2, <2>2, <2>3
<1>7. Grows  BY <1>1 DEF Grows
<1>8. TypeOK'  BY <1>1, <1>5, <1>6 DEF TypeOK, WatchInv
<1>9. CrewBound'  BY <1>1, <1>3, <1>6 DEF WatchInv, CrewBound, Of
<1>10. AllUsed'  BY <1>1, <1>7, UsedStay DEF WatchInv
<1>11. \A x \in Accounts : b[x].on \/ (w.at \in Holding /\ x = w.cur) => row'[x] = row[x]
  BY <1>5 DEF WatchInv, BookerHolds, RunHolds
<1>12. BookerHolds'  BY <1>1, <1>11, BookerHoldsOn DEF WatchInv, SameLease, SameBooking
<1>13. QuitOK'  BY <1>1, <1>5, <1>7, QuitStays DEF WatchInv, SameBooking
<1>14. w.at \in Holding => w.cur \in Accounts  BY DEF WatchInv, PhaseOK, TypeOK, RunType
<1> QED  BY <1>1, <1>5, <1>7, <1>8, <1>9, <1>10, <1>11, <1>12, <1>13, <1>14, BesideRun
         DEF SameLease, SameBooking, Version, Fresh

\* What WebWrite does to the row it leased.
LEMMA WebWriteIs ==
  ASSUME WatchInv, WebWrite
  PROVE  \E a \in Accounts, n \in Row :
           /\ a = u.acct /\ Of(u.raw, a) /\ row' = [row EXCEPT ![a] = n] /\ n.marker = row[a].marker
           /\ \/ /\ SameBooking(row[a], n) /\ quit' = quit
                 /\ n.reconcile = row[a].reconcile \/ ~(row[a].lease = "u" /\ row[a].alive)
              \/ n.status = "user" /\ row[a].lease = "u" /\ quit' = quit \cup {u.raw}
           /\ row[a].lease # "u" => SameLease(row[a], n)
           /\ led' \in [Ids -> Entry] /\ snap' \in [Accounts -> [listed : BOOLEAN, ids : SUBSET Ids]]
           /\ \A i \in Ids : led'[i] = led[i] \/ (i = u.raw /\ u.owned)
<1>1. /\ UNCHANGED <<dry, frozen, b, res, live, w, cut>> /\ u.at = "write" /\ u' = UIdle /\ moved' = Bump(row')
  BY DEF WebWrite, course
<1>2. PICK a \in Accounts : a = u.acct /\ Of(u.raw, a)  BY <1>1 DEF WatchInv, CrewBound
<1>3. PICK o : o = Outcome("user", 0, FALSE, FALSE, IF u.owned THEN Entries({u.raw}, u.why) ELSE NoEntries)  OBVIOUS
<1>4. u \in WebType /\ row \in [Accounts -> Row] /\ led \in [Ids -> Entry]
      /\ snap \in [Accounts -> [listed : BOOLEAN, ids : SUBSET Ids]] /\ quit \subseteq Ids
  BY DEF WatchInv, TypeOK
<1>5. \/ /\ row' = [Recorded(a, o, "u") EXCEPT ![a] = Released(@, "u")] /\ led' = Ledger(o)
         /\ IF Accepted(row[a], o, "u")
            THEN snap' = [snap EXCEPT ![a] = [listed |-> TRUE, ids |-> u.left]] /\ quit' = quit \cup {u.raw}
            ELSE UNCHANGED <<snap, quit>>
      \/ row' = [row EXCEPT ![a] = Released(@, "u")] /\ UNCHANGED <<led, snap, quit>>
  BY <1>2, <1>3 DEF WebWrite
<1>6. PICK r \in Row : r = row[a]  BY <1>4
<1> DEFINE Is(n) ==
      /\ n \in Row /\ row' = [row EXCEPT ![a] = n] /\ n.marker = r.marker
      /\ \/ /\ SameBooking(r, n) /\ quit' = quit
            /\ n.reconcile = r.reconcile \/ ~(r.lease = "u" /\ r.alive)
         \/ n.status = "user" /\ r.lease = "u" /\ quit' = quit \cup {u.raw}
      /\ r.lease # "u" => SameLease(r, n)
      /\ led' \in [Ids -> Entry] /\ snap' \in [Accounts -> [listed : BOOLEAN, ids : SUBSET Ids]]
      /\ \A i \in Ids : led'[i] = led[i] \/ (i = u.raw /\ u.owned)
<1>7. \E n : Is(n)
  <2>1. CASE row' = [row EXCEPT ![a] = Released(@, "u")] /\ UNCHANGED <<led, snap, quit>>
    <3>1. PICK n : n = Released(r, "u")  OBVIOUS
    <3>2. /\ n \in Row /\ SameBooking(r, n) /\ (r.lease # "u" => n = r)
          /\ n.marker = r.marker /\ n.reconcile = r.reconcile
      BY <3>1, ReleasedIs
    <3>3. r.lease # "u" => SameLease(r, n)  BY <3>2 DEF SameLease
    <3>4. row' = [row EXCEPT ![a] = n]  BY <1>4, <1>6, <2>1, <3>1
    <3>5. Is(n)  BY <1>4, <2>1, <3>2, <3>3, <3>4
    <3> QED  BY <3>5
  <2>2. CASE /\ row' = [Recorded(a, o, "u") EXCEPT ![a] = Released(@, "u")] /\ led' = Ledger(o)
             /\ IF Accepted(row[a], o, "u")
                THEN snap' = [snap EXCEPT ![a] = [listed |-> TRUE, ids |-> u.left]] /\ quit' = quit \cup {u.raw}
                ELSE UNCHANGED <<snap, quit>>
    <3>1. /\ OutcomeOK(o) /\ o.to = "user" /\ ~o.clear /\ DOMAIN o.entries \subseteq {u.raw}
          /\ ~u.owned => DOMAIN o.entries = {}
      <4>1. PICK e : e = IF u.owned THEN Entries({u.raw}, u.why) ELSE NoEntries  OBVIOUS
      <4>2. EntriesOK(e) /\ DOMAIN e \subseteq {u.raw} /\ (~u.owned => DOMAIN e = {})
        <5>1. CASE u.owned
          <6>1. u.why \in Entry \ {"none"}
            BY <1>1, <1>4 DEF WebType, Entry, WatchInv, CrewBound
          <6> QED  BY <1>2, <4>1, <5>1, <6>1, EntriesType DEF Of
        <5>2. CASE ~u.owned  BY <4>1, <5>2, NoEntriesType
        <5> QED  BY <5>1, <5>2
      <4> QED  BY <1>3, <4>1, <4>2 DEF OutcomeOK, Outcome
    <3>2. led' \in [Ids -> Entry] /\ \A i \in Ids : led'[i] = led[i] \/ (i = u.raw /\ u.owned)
      BY <2>2, <3>1, LedgerType DEF WatchInv
    <3>3. PICK m : m = IF Accepted(r, o, "u") THEN OutcomeRow(r, o, "u") ELSE Flagged(r)  OBVIOUS
    <3>4. Recorded(a, o, "u") = [row EXCEPT ![a] = m]  BY <1>4, <1>6, <3>3 DEF Recorded
    <3>5. CASE Accepted(r, o, "u")
      <4>1. Becomes(r, o, "u", m)  BY <3>1, <3>3, <3>5, OutcomeRowIs DEF WatchInv
      <4>2. r.lease = "u"  BY <3>1, <3>5 DEF Accepted
      <4>3. m \in Row /\ m.lease = "none"  BY <4>1, <4>2 DEF Becomes
      <4>4. PICK z : z = Released(m, "u")  OBVIOUS
      <4>5. row' = [row EXCEPT ![a] = m]
        <5>1. z = m  BY <4>3, <4>4 DEF Released
        <5>2. [row EXCEPT ![a] = m][a] = m  BY <1>4, <4>3
        <5>3. row' = [[row EXCEPT ![a] = m] EXCEPT ![a] = z]  BY <2>2, <3>4, <4>4, <5>2
        <5>4. row' = [row EXCEPT ![a] = z]  BY <1>4, <5>3
        <5> QED  BY <5>1, <5>4
      <4>6. m.status = "user"  BY <3>1, <4>1 DEF Becomes
      <4>7. m.marker = r.marker
        <5>1. m.marker <=> r.marker  BY <3>1, <4>1 DEF Becomes
        <5> QED  BY <4>3, <5>1 DEF Row
      <4>8. snap' \in [Accounts -> [listed : BOOLEAN, ids : SUBSET Ids]] /\ quit' = quit \cup {u.raw}
        <5>1. Accepted(row[a], o, "u")  BY <1>6, <3>5
        <5>2. snap' = [snap EXCEPT ![a] = [listed |-> TRUE, ids |-> u.left]] /\ quit' = quit \cup {u.raw}
          BY <2>2, <5>1, Zenon
        <5>3. [listed |-> TRUE, ids |-> u.left] \in [listed : BOOLEAN, ids : SUBSET Ids]  BY <1>4 DEF WebType
        <5> QED  BY <1>4, <5>2, <5>3
      <4>9. Is(m)  BY <3>2, <4>2, <4>3, <4>5, <4>6, <4>7, <4>8
      <4> QED  BY <4>9
    <3>6. CASE ~Accepted(r, o, "u")
      <4>1. m \in Row /\ SameBooking(r, m) /\ SameLease(r, m) /\ m.marker = r.marker  BY <3>3, <3>6, FlaggedIs
      <4>2. PICK z : z = Released(m, "u")  OBVIOUS
      <4>3. z \in Row /\ SameBooking(m, z) /\ (m.lease # "u" => z = m) /\ z.marker = m.marker  BY <4>1, <4>2, ReleasedIs
      <4>4. row' = [row EXCEPT ![a] = z]
        <5>1. [row EXCEPT ![a] = m][a] = m  BY <1>4, <4>1
        <5>2. row' = [[row EXCEPT ![a] = m] EXCEPT ![a] = z]  BY <2>2, <3>4, <4>2, <5>1
        <5> QED  BY <1>4, <5>2
      <4>5. SameBooking(r, z) /\ (r.lease # "u" => SameLease(r, z)) /\ z.marker = r.marker
        BY <4>1, <4>3 DEF SameBooking, SameLease
      <4>6. UNCHANGED <<snap, quit>>  BY <1>6, <2>2, <3>6
      <4>7. ~(r.lease = "u" /\ r.alive)  BY <3>1, <3>6 DEF Accepted
      <4>8. Is(z)  BY <1>4, <3>2, <4>3, <4>4, <4>5, <4>6, <4>7
      <4> QED  BY <4>8
    <3> QED  BY <3>5, <3>6
  <2> QED  BY <1>5, <2>1, <2>2
<1> QED  BY <1>2, <1>6, <1>7

LEMMA WebWriteStep ==
  ASSUME WatchInv, WebWrite
  PROVE  WatchInv'
<1>1. /\ UNCHANGED <<dry, frozen, b, res, live, w, cut>> /\ u.at = "write" /\ u' = UIdle /\ moved' = Bump(row')
  BY DEF WebWrite, course
<1>2. PICK a \in Accounts, n \in Row :
           /\ a = u.acct /\ Of(u.raw, a) /\ row' = [row EXCEPT ![a] = n]
           /\ \/ SameBooking(row[a], n) /\ quit' = quit
              \/ n.status = "user" /\ row[a].lease = "u" /\ quit' = quit \cup {u.raw}
           /\ row[a].lease # "u" => SameLease(row[a], n)
           /\ led' \in [Ids -> Entry] /\ snap' \in [Accounts -> [listed : BOOLEAN, ids : SUBSET Ids]]
           /\ \A i \in Ids : led'[i] = led[i] \/ i = u.raw
  BY WebWriteIs
<1>3. PICK r \in Row : r = row[a]  BY DEF WatchInv, TypeOK
<1>4. row \in [Accounts -> Row] /\ quit \subseteq Ids  BY DEF WatchInv, TypeOK
<1>7. row'[a] = n  BY <1>2, <1>4
<1>8. row' \in [Accounts -> Row] /\ \A x \in Accounts : x # a => row'[x] = row[x]  BY <1>2, <1>4
<1>9. Grows  BY <1>1 DEF Grows
<1>10. moved' \subseteq {"w", "u"} \X Accounts
       /\ \A x \in Accounts : Fresh("w", x)' => Fresh("w", x) /\ Version(row'[x]) = Version(row[x])
  BY <1>1, BumpMarks DEF WatchInv
<1>11. quit' \subseteq Ids  BY <1>2, <1>4 DEF Of
<1>12. TypeOK'
  <2>1. u' \in WebType  BY <1>1 DEF WebType, UIdle
  <2> QED  BY <1>1, <1>2, <1>8, <1>10, <1>11, <2>1 DEF TypeOK, WatchInv
<1>13. CrewBound'  BY <1>1 DEF WatchInv, CrewBound, Of, UIdle
<1>14. Used(u.raw)  BY <1>2 DEF Of, Used, NoRes, Accounts
<1>15. AllUsed'  BY <1>1, <1>2, <1>14 DEF WatchInv, AllUsed, Used
<1>16. \A x \in Accounts : b[x].on \/ (w.at \in Holding /\ x = w.cur)
         => SameLease(row[x], row'[x]) /\ SameBooking(row[x], row'[x])
  <2> TAKE x \in Accounts
  <2> HAVE b[x].on \/ (w.at \in Holding /\ x = w.cur)
  <2>1. row[x].lease # "u"  BY DEF WatchInv, BookerHolds, RunHolds
  <2>2. CASE x = a  BY <1>2, <1>7, <2>1, <2>2 DEF WatchInv, BookerHolds, RunHolds
  <2>3. CASE x # a  BY <1>8, <2>3 DEF SameLease, SameBooking
  <2> QED  BY <2>2, <2>3
<1>17. BookerHolds'  BY <1>1, <1>16, BookerHoldsOn DEF WatchInv
<1>18. QuitOK'
  <2> SUFFICES ASSUME NEW q \in quit' PROVE res[q].acct \in Accounts /\ row'[res[q].acct].status = "user"
    BY <1>1 DEF QuitOK
  <2>1. CASE q \in quit
    <3>1. res[q].acct \in Accounts /\ row[res[q].acct].status = "user"  BY <2>1 DEF WatchInv, QuitOK
    <3> QED  BY <1>2, <1>7, <1>8, <3>1 DEF SameBooking
  <2>2. CASE q \notin quit
    <3>1. q = u.raw /\ n.status = "user"  BY <1>2, <2>2
    <3> QED  BY <1>2, <1>7, <3>1 DEF Of
  <2> QED  BY <2>1, <2>2
<1>19. \A x \in Accounts : SameBooking(row[x], row'[x]) \/ Bound(row[x], x)'
  <2> TAKE x \in Accounts
  <2>1. CASE x = a /\ ~SameBooking(row[a], n)
    <3>1. row'[x].status = "user"  BY <1>2, <1>7, <2>1
    <3> QED  BY <3>1 DEF Bound
  <2>2. CASE x = a /\ SameBooking(row[a], n)  BY <1>7, <2>2
  <2>3. CASE x # a  BY <1>8, <2>3 DEF SameBooking
  <2> QED  BY <2>1, <2>2, <2>3
<1>20. w.at \in Holding => w.cur \in Accounts  BY DEF WatchInv, PhaseOK, TypeOK, RunType
<1> QED  BY <1>1, <1>9, <1>10, <1>12, <1>13, <1>15, <1>16, <1>17, <1>18, <1>19, <1>20, BesideRun

-----------------------------------------------------------------------------
(* The watcher between two accounts.                                       *)

\* A run that holds nothing.
Resting(x) ==
    /\ x \in RunType /\ x.at \in {"idle", "plan", "login", "collapse", "shed"}
    /\ x.seen = {} /\ x.cuts = {} /\ x.new = 0 /\ ~x.unsure
    /\ x.at = "login" => x.todo # {}

\* A run that goes on to the rest of its accounts.
MovesOn(x, y) ==
    /\ Resting(y) /\ y.todo \subseteq x.todo
    /\ \A a \in Accounts : y.plan[a] = x.plan[a] \/ y.plan[a] = NoPlan
    /\ \A a \in y.todo : y.plan[a] = x.plan[a]

LEMMA IdleMovesOn ==
  ASSUME NEW x \in RunType
  PROVE  MovesOn(x, WIdle)
<1>1. NoPlan \in PlanType  BY DEF NoPlan, NewRow, PlanType, Row, States
<1>2. WIdle \in RunType  BY <1>1 DEF WIdle, RunType, Phases
<1> QED  BY <1>2 DEF MovesOn, Resting, WIdle

LEMMA OnwardMovesOn ==
  ASSUME NEW x \in RunType
  PROVE  MovesOn(x, Onward(x)) /\ Onward(x).todo \subseteq x.todo \ {x.cur}
<1>1. NoPlan \in PlanType  BY DEF NoPlan, NewRow, PlanType, Row, States
<1>2. PICK rest \in SUBSET Accounts : rest = x.todo \ {x.cur}  BY DEF RunType
<1>3. PICK plan \in [Accounts -> PlanType] : plan = [a \in Accounts |-> IF a \in rest THEN x.plan[a] ELSE NoPlan]
  BY <1>1 DEF RunType
<1>4. PICK at \in {"login", "collapse"} : at = IF rest = {} THEN "collapse" ELSE "login"  OBVIOUS
<1>5. PICK y : y = [WIdle EXCEPT !.at = at, !.todo = rest, !.sess = x.sess, !.plan = plan]  OBVIOUS
<1>6. CASE x.halt
  <2>1. Onward(x) = WIdle  BY <1>6 DEF Onward
  <2>2. WIdle.todo = {}  BY DEF WIdle
  <2> QED  BY <2>1, <2>2, IdleMovesOn
<1>7. CASE ~x.halt
  <2>1. Onward(x) = y  BY <1>2, <1>3, <1>4, <1>5, <1>7, Zenon DEF Onward
  <2>2. /\ y \in RunType /\ y.at = at /\ y.todo = rest /\ y.plan = plan
        /\ y.seen = {} /\ y.cuts = {} /\ y.new = 0 /\ ~y.unsure
    BY <1>5 DEF WIdle, RunType, Phases
  <2>3. Resting(y)  BY <1>4, <2>2 DEF Resting
  <2>4. MovesOn(x, y)  BY <1>2, <1>3, <2>2, <2>3 DEF MovesOn
  <2> QED  BY <1>2, <2>1, <2>2, <2>4
<1> QED  BY <1>6, <1>7

LEMMA RestingRun ==
  ASSUME Resting(w')
  PROVE  PhaseOK' /\ CurOK' /\ RunBound' /\ RunHolds'
BY DEF Resting, PhaseOK, CurOK, RunBound, RunHolds, Holding, Shedders

\* A step of the watcher that leaves the crew and what was told alone.
LEMMA WatcherStep ==
  ASSUME WatchInv, TypeOK', Grows, u' = u, b' = b, quit' = quit,
         \A i \in Ids : led'[i] = led[i] \/ Used(i),
         \A i \in live' \cup cut' : i \in live \cup cut \/ Used(i)',
         \A a \in Accounts : SameBooking(row[a], row'[a]) \/ (Bound(row[a], a)' /\ Active(row[a])),
         \A a \in Accounts : b[a].on => SameLease(row[a], row'[a]) /\ SameBooking(row[a], row'[a])
  PROVE  RowsBound' /\ CrewBound' /\ AllUsed' /\ BookerHolds' /\ QuitOK'
<1>1. RowsBound'  BY RowsMove DEF WatchInv
<1>2. CrewBound'  BY CrewStays DEF WatchInv
<1>3. AllUsed'
  <2>1. \A i \in live' \cup cut' \cup quit' : i \in live \cup cut \cup quit \/ Used(i)'  OBVIOUS
  <2> QED  BY <2>1, UsedStay DEF WatchInv
<1>4. BookerHolds'  BY BookerHoldsOn DEF WatchInv
<1>5. QuitOK'  BY QuitStays DEF WatchInv, SameBooking, Active
<1> QED  BY <1>1, <1>2, <1>3, <1>4, <1>5

\* The run goes on, and no row but the one it held changes.
LEMMA MovingOn ==
  ASSUME WatchInv, TypeOK', Grows, MovesOn(w, w'), u' = u, b' = b, quit' = quit,
         \A i \in Ids : led'[i] = led[i] \/ Used(i),
         \A i \in live' \cup cut' : i \in live \cup cut \/ Used(i)',
         \A a \in Accounts : SameBooking(row[a], row'[a]) \/ (Bound(row[a], a)' /\ Active(row[a])),
         \A a \in Accounts : b[a].on => SameLease(row[a], row'[a]) /\ SameBooking(row[a], row'[a]),
         \A a \in Accounts : Fresh("w", a)' => Fresh("w", a) /\ Version(row'[a]) = Version(row[a])
  PROVE  WatchInv'
<1>1. PhaseOK' /\ CurOK' /\ RunBound' /\ RunHolds'  BY RestingRun DEF MovesOn
<1>2. RowsBound' /\ CrewBound' /\ AllUsed' /\ BookerHolds' /\ QuitOK'  BY WatcherStep
<1>3. PlansBound'  BY PlansStay DEF WatchInv, MovesOn
<1>4. ReadOK'
  <2>1. w'.todo \subseteq Accounts  BY DEF MovesOn, WatchInv, TypeOK, RunType
  <2> QED  BY <2>1, ReadsStay DEF WatchInv, MovesOn
<1> QED  BY <1>1, <1>2, <1>3, <1>4 DEF WatchInv

\* A run that ends, or goes on, with everything else as it was.
LEMMA JustMovesOn ==
  ASSUME WatchInv, MovesOn(w, w'), UNCHANGED <<Outside, course, row, led, snap, moved, history>>
  PROVE  WatchInv'
<1>1. UNCHANGED <<dry, frozen, u, b, res, live, row, led, snap, moved, cut, quit>>
  BY DEF Outside, Crew, course, history
<1>2. Grows  BY <1>1 DEF Grows
<1>3. TypeOK'  BY <1>1 DEF WatchInv, TypeOK, MovesOn, Resting
<1> QED  BY <1>1, <1>2, <1>3, MovingOn DEF SameBooking, SameLease, Fresh

LEMMA RunEndsStep ==
  ASSUME WatchInv, SearchThrottled \/ LoginThrottled \/ WatcherDies
  PROVE  WatchInv'
<1>1. w' = WIdle /\ UNCHANGED <<Outside, course, row, led, snap, moved, history>>
  BY DEF SearchThrottled, LoginThrottled, WatcherDies
<1>2. MovesOn(w, w')  BY <1>1, IdleMovesOn DEF WatchInv, TypeOK
<1> QED  BY <1>1, <1>2, JustMovesOn

LEMMA LoginFailsStep ==
  ASSUME WatchInv, LoginFails
  PROVE  WatchInv'
<1>1. w.at = "login" /\ UNCHANGED <<Outside, course, row, led, snap, moved, history>>  BY DEF LoginFails
<1>2. w \in RunType /\ w.todo # {} /\ w.todo \subseteq Nat
  BY <1>1, WatchAssumption DEF WatchInv, TypeOK, PhaseOK, RunType, Accounts
<1>3. Min(w.todo) \in Accounts  BY <1>2, MinIn DEF RunType
<1>4. PICK x : x = [w EXCEPT !.cur = Min(w.todo)]  OBVIOUS
<1>5. x \in RunType /\ x.todo = w.todo /\ x.plan = w.plan  BY <1>2, <1>3, <1>4 DEF RunType
<1>6. w' = Onward(x)  BY <1>4 DEF LoginFails
<1>7. MovesOn(w, w')  BY <1>5, <1>6, OnwardMovesOn DEF MovesOn
<1> QED  BY <1>1, <1>7, JustMovesOn

-----------------------------------------------------------------------------
(* Reading, planning, the login and the lease.                             *)

LEMMA FloorType ==
  ASSUME NEW a \in Accounts, NEW rows
  PROVE  Floor(a, rows) \subseteq Nat
<1>1. {Rank[a][s] : s \in Slots} \ {0} \subseteq Nat  BY WatchAssumption
<1> DEFINE mine == {Rank[a][s] : s \in Slots} \ {0}
<1>2. Floor(a, rows) \subseteq mine  BY DEF Floor
<1> QED  BY <1>1, <1>2

\* What a run reads at its start.
LEMMA BeginIs ==
  ASSUME WatchInv, Begin
  PROVE  /\ UNCHANGED <<dry, frozen, u, b, res, live, led, snap, cut, quit>> /\ w.at = "idle"
         /\ moved' = Bump(row') \ ({"w"} \X Accounts)
         /\ Resting(w') /\ w'.at = "plan" /\ w'.todo \subseteq Accounts /\ row' \in [Accounts -> Row]
         /\ \A a \in Accounts : /\ w'.plan[a].row = row'[a] /\ w'.plan[a].own = {}
                               /\ SameLease(row[a], row'[a]) /\ row'[a].marker = row[a].marker
                               /\ row'[a].reconcile = row[a].reconcile
                               /\ \/ SameBooking(row[a], row'[a])
                                  \/ row'[a].status = "lost" /\ row[a].status = "pending" /\ ~Held(row[a])
<1>1. /\ UNCHANGED <<dry, frozen, u, b, res, live, led, snap, cut, quit>> /\ w.at = "idle"
      /\ row' = [a \in Accounts |-> Finalized(row[a])]
      /\ moved' = Bump(row') \ ({"w"} \X Accounts)
  BY DEF Begin, Outside, Crew, course, history
<1>2. w \in RunType /\ row \in [Accounts -> Row]  BY DEF WatchInv, TypeOK
<1>3. \A a \in Accounts : /\ row'[a] \in Row /\ SameLease(row[a], row'[a]) /\ row'[a].marker = row[a].marker
                           /\ row'[a].reconcile = row[a].reconcile
                           /\ \/ SameBooking(row[a], row'[a])
                              \/ row'[a].status = "lost" /\ row[a].status = "pending" /\ ~Held(row[a])
  <2> TAKE a \in Accounts
  <2>1. row'[a] = Finalized(row[a]) /\ row[a] \in Row  BY <1>1, <1>2
  <2>2. CASE frozen /\ row[a].status = "pending" /\ ~Held(row[a])
    <3>1. row'[a] = [row[a] EXCEPT !.status = "lost"]  BY <2>1, <2>2 DEF Finalized
    <3> QED  BY <2>1, <2>2, <3>1 DEF Row, States, SameLease
  <2>3. CASE ~(frozen /\ row[a].status = "pending" /\ ~Held(row[a]))
    <3>1. row'[a] = row[a]  BY <2>1, <2>3 DEF Finalized
    <3> QED  BY <2>1, <3>1 DEF SameLease, SameBooking
  <2> QED  BY <2>2, <2>3
<1>4. PICK plan : plan = [a \in Accounts |-> [NoPlan EXCEPT !.row = row'[a], !.ranks = Floor(a, row')]]
  OBVIOUS
<1>5. PICK todo \in SUBSET Accounts : todo = {a \in Accounts : Watched(a, row'[a], row')}  OBVIOUS
<1>6. w' = [w EXCEPT !.at = "plan", !.todo = todo, !.plan = plan]  BY <1>4, <1>5 DEF Begin
<1>7. \A a \in Accounts : plan[a] \in PlanType /\ plan[a].row = row'[a] /\ plan[a].own = {}
  <2> TAKE a \in Accounts
  <2>1. plan[a] = [NoPlan EXCEPT !.row = row'[a], !.ranks = Floor(a, row')]  BY <1>4
  <2>2. row'[a] \in Row /\ Floor(a, row') \subseteq Nat  BY <1>3, FloorType
  <2> QED  BY <2>1, <2>2 DEF PlanType, NoPlan
<1>8. plan \in [Accounts -> PlanType]
  <2>1. DOMAIN plan = Accounts /\ plan = [a \in DOMAIN plan |-> plan[a]]  BY <1>4
  <2> QED  BY <1>7, <2>1
<1>9. w.seen = {} /\ w.cuts = {} /\ w.new = 0 /\ ~w.unsure  BY <1>1 DEF WatchInv, PhaseOK, Holding, Shedders
<1>10. w' \in RunType /\ w'.at = "plan" /\ w'.todo = todo /\ w'.plan = plan
       /\ w'.seen = {} /\ w'.cuts = {} /\ w'.new = 0 /\ ~w'.unsure
  BY <1>2, <1>5, <1>6, <1>8, <1>9 DEF RunType, Phases
<1>11. Resting(w')  BY <1>10 DEF Resting
<1> QED  BY <1>1, <1>3, <1>5, <1>7, <1>10, <1>11

LEMMA BeginStep ==
  ASSUME WatchInv, Begin
  PROVE  WatchInv'
<1>1. /\ UNCHANGED <<dry, frozen, u, b, res, live, led, snap, cut, quit>>
      /\ moved' = Bump(row') \ ({"w"} \X Accounts)
      /\ Resting(w') /\ w'.at = "plan" /\ w'.todo \subseteq Accounts /\ row' \in [Accounts -> Row]
  BY BeginIs
<1>2. \A a \in Accounts : /\ w'.plan[a].row = row'[a] /\ w'.plan[a].own = {} /\ SameLease(row[a], row'[a])
                           /\ \/ SameBooking(row[a], row'[a])
                              \/ row'[a].status = "lost" /\ row[a].status = "pending" /\ ~Held(row[a])
  BY BeginIs
<1>3. PhaseOK' /\ CurOK' /\ RunBound' /\ RunHolds'  BY <1>1, RestingRun
<1>4. Grows  BY <1>1 DEF Grows
<1>5. TypeOK'
  <2>1. moved' \subseteq {"w", "u"} \X Accounts  BY <1>1 DEF Bump, WatchInv, TypeOK
  <2> QED  BY <1>1, <2>1 DEF WatchInv, TypeOK, Resting
<1>6. \A a \in Accounts : b[a].on => SameLease(row[a], row'[a]) /\ SameBooking(row[a], row'[a])
  BY <1>2 DEF WatchInv, BookerHolds, Held
<1>7. \A a \in Accounts : SameBooking(row[a], row'[a]) \/ (Bound(row[a], a)' /\ Active(row[a]))
  BY <1>2 DEF Bound, Active
<1>8. RowsBound' /\ CrewBound' /\ AllUsed' /\ BookerHolds' /\ QuitOK'
  BY <1>1, <1>4, <1>5, <1>6, <1>7, WatcherStep
<1>9. PlansBound'  BY <1>2, <1>8 DEF PlansBound, RowsBound, Bound, Of
<1>10. ReadOK'  BY <1>1, <1>2 DEF ReadOK, Version
<1> QED  BY <1>3, <1>5, <1>8, <1>9, <1>10 DEF WatchInv

\* What a run plans.
LEMMA PlanIs ==
  ASSUME WatchInv, Plan
  PROVE  /\ UNCHANGED <<dry, frozen, u, b, res, live, row, led, snap, moved, cut, quit>> /\ w.at = "plan"
         /\ Resting(w') /\ w'.at \in {"collapse", "login"} /\ w'.todo \subseteq w.todo /\ w.todo \subseteq Accounts
         /\ \A a \in Accounts :
               /\ a \in w'.todo => w'.plan[a].row = w.plan[a].row
               /\ w'.plan[a] = NoPlan \/ (w'.plan[a].row = w.plan[a].row /\ w'.plan[a].own = OwnOf(a))
<1>1. UNCHANGED <<dry, frozen, u, b, res, live, row, led, snap, moved, cut, quit>> /\ w.at = "plan"
  BY DEF Plan, Outside, Crew, course, history
<1>2. w \in RunType /\ row \in [Accounts -> Row]
      /\ snap \in [Accounts -> [listed : BOOLEAN, ids : SUBSET Ids]]  BY DEF WatchInv, TypeOK
<1>3. PICK found \in Found, due \in SUBSET w.todo :
           LET p == [a \in Accounts |-> IF a \in w.todo THEN Planned(a, found[a]) ELSE NoPlan]
               todo == {a \in w.todo : ~Held(p[a].row) /\ Called(a, p[a], a \in due)}
           IN  w' = [w EXCEPT !.at = IF todo = {} THEN "collapse" ELSE "login",
                              !.todo = todo,
                              !.plan = [a \in Accounts |-> IF a \in todo THEN p[a] ELSE NoPlan]]
  BY DEF Plan
<1>4. PICK p : p = [a \in Accounts |-> IF a \in w.todo THEN Planned(a, found[a]) ELSE NoPlan]  OBVIOUS
<1>5. PICK todo \in SUBSET w.todo : todo = {a \in w.todo : ~Held(p[a].row) /\ Called(a, p[a], a \in due)}
  OBVIOUS
<1>6. PICK plan : plan = [a \in Accounts |-> IF a \in todo THEN p[a] ELSE NoPlan]  OBVIOUS
<1>7. PICK at \in {"collapse", "login"} : at = IF todo = {} THEN "collapse" ELSE "login"  OBVIOUS
<1>8. w' = [w EXCEPT !.at = at, !.todo = todo, !.plan = plan]  BY <1>3, <1>4, <1>5, <1>6, <1>7, Zenon
<1>9. \A a \in w.todo : /\ Planned(a, found[a]) \in PlanType /\ Planned(a, found[a]).row = w.plan[a].row
                         /\ Planned(a, found[a]).own = OwnOf(a)
  <2> TAKE a \in w.todo
  <2>1. a \in Accounts /\ w.plan[a] \in PlanType  BY <1>2 DEF RunType
  <2>2. PICK slots \in SUBSET Slots : slots = found[a]  BY DEF Found
  <2>3. PICK own \in SUBSET Ids : own = OwnOf(a)  BY DEF OwnOf
  <2>4. PICK ours \in BOOLEAN : ours = Ours(w.plan[a].row.raw)  BY DEF Ours
  <2>5. PICK missed \in BOOLEAN : missed = Missed(a, w.plan[a].row.raw)  BY <1>2, <2>1 DEF Missed
  <2>6. Planned(a, found[a]) = [w.plan[a] EXCEPT !.slots = slots, !.own = own, !.ours = ours, !.missed = missed]
    BY <2>2, <2>3, <2>4, <2>5, Zenon DEF Planned
  <2> QED  BY <2>1, <2>3, <2>6 DEF PlanType
<1>10. NoPlan \in PlanType  BY DEF NoPlan, NewRow, PlanType, Row, States
<1>11. \A a \in Accounts :
           /\ plan[a] \in PlanType
           /\ a \in todo => plan[a].row = w.plan[a].row
           /\ plan[a] = NoPlan \/ (plan[a].row = w.plan[a].row /\ plan[a].own = OwnOf(a))
  <2> TAKE a \in Accounts
  <2>1. CASE a \in todo
    <3>1. plan[a] = Planned(a, found[a])  BY <1>4, <1>5, <1>6, <2>1
    <3> QED  BY <1>5, <1>9, <2>1, <3>1
  <2>2. CASE a \notin todo  BY <1>6, <1>10, <2>2
  <2> QED  BY <2>1, <2>2
<1>12. plan \in [Accounts -> PlanType]
  <2>1. DOMAIN plan = Accounts /\ plan = [a \in DOMAIN plan |-> plan[a]]  BY <1>6
  <2> QED  BY <1>11, <2>1
<1>13. w.seen = {} /\ w.cuts = {} /\ w.new = 0 /\ ~w.unsure  BY <1>1 DEF WatchInv, PhaseOK, Holding, Shedders
<1>14. w' \in RunType /\ w'.at = at /\ w'.todo = todo /\ w'.plan = plan
       /\ w'.seen = {} /\ w'.cuts = {} /\ w'.new = 0 /\ ~w'.unsure
  <2>1. todo \in SUBSET Accounts  BY <1>2, <1>5 DEF RunType
  <2>2. w' \in RunType /\ w'.at = at /\ w'.todo = todo /\ w'.plan = plan
    BY <1>2, <1>7, <1>8, <1>12, <2>1 DEF RunType, Phases
  <2>3. w'.seen = w.seen /\ w'.cuts = w.cuts /\ w'.new = w.new /\ w'.unsure = w.unsure
    BY <1>2, <1>8 DEF RunType
  <2> QED  BY <1>13, <2>2, <2>3
<1>15. Resting(w')  BY <1>7, <1>14 DEF Resting
<1>16. w.todo \subseteq Accounts  BY <1>2 DEF RunType
<1> QED  BY <1>1, <1>5, <1>7, <1>11, <1>14, <1>15, <1>16

LEMMA PlanStep ==
  ASSUME WatchInv, Plan
  PROVE  WatchInv'
<1>1. /\ UNCHANGED <<dry, frozen, u, b, res, live, row, led, snap, moved, cut, quit>>
      /\ Resting(w') /\ w'.todo \subseteq w.todo /\ w.todo \subseteq Accounts
  BY PlanIs
<1>2. \A a \in Accounts :
          /\ a \in w'.todo => w'.plan[a].row = w.plan[a].row
          /\ w'.plan[a] = NoPlan \/ (w'.plan[a].row = w.plan[a].row /\ w'.plan[a].own = OwnOf(a))
  BY PlanIs
<1>3. PhaseOK' /\ CurOK' /\ RunBound' /\ RunHolds'  BY <1>1, RestingRun
<1>4. Grows  BY <1>1 DEF Grows
<1>5. TypeOK'  BY <1>1 DEF WatchInv, TypeOK, Resting
<1>6. RowsBound' /\ CrewBound' /\ AllUsed' /\ BookerHolds' /\ QuitOK'
  BY <1>1, <1>4, <1>5, WatcherStep DEF SameBooking, SameLease
<1>7. PlansBound'
  <2> SUFFICES ASSUME NEW a \in Accounts
               PROVE (Bound(w.plan[a].row, a) /\ \A i \in w.plan[a].own : Of(i, a))'
    BY DEF PlansBound
  <2>1. CASE w'.plan[a] = NoPlan  BY <2>1 DEF NoPlan, NewRow, Bound
  <2>2. CASE w'.plan[a].row = w.plan[a].row /\ w'.plan[a].own = OwnOf(a)
    <3>1. Bound(w.plan[a].row, a)  BY DEF WatchInv, PlansBound
    <3>2. \A i \in OwnOf(a) : Of(i, a)  BY DEF OwnOf, Of
    <3> QED  BY <1>1, <2>2, <3>1, <3>2 DEF Bound, Of
  <2> QED  BY <1>2, <2>1, <2>2
<1>8. ReadOK'  BY <1>1, <1>2, ReadsStay DEF WatchInv, Fresh
<1> QED  BY <1>3, <1>5, <1>6, <1>7, <1>8 DEF WatchInv

\* What a login lists.
LEMMA LoginIs ==
  ASSUME WatchInv, Login
  PROVE  /\ UNCHANGED <<dry, frozen, u, b, res, live, row, led, moved, cut, quit>> /\ w.at = "login"
         /\ snap' \in [Accounts -> [listed : BOOLEAN, ids : SUBSET Ids]]
         /\ w' \in RunType /\ w'.at = "act" /\ w'.cur \in w.todo /\ w'.cur \in Accounts
         /\ w'.seen \subseteq live /\ (\A i \in w'.seen : Of(i, w'.cur)) /\ w'.todo = w.todo
         /\ w'.plan = w.plan /\ w'.cuts = w.cuts /\ w'.new = w.new /\ w'.unsure = w.unsure
<1>1. UNCHANGED <<dry, frozen, u, b, res, live, row, led, moved, cut, quit>> /\ w.at = "login"
  BY DEF Login, Outside, Crew, course, history
<1>2. /\ w \in RunType /\ w.todo # {} /\ w.todo \subseteq Nat /\ live \subseteq Ids
      /\ snap \in [Accounts -> [listed : BOOLEAN, ids : SUBSET Ids]]
  BY <1>1, WatchAssumption DEF WatchInv, TypeOK, PhaseOK, RunType, Accounts
<1>3. PICK a \in w.todo : a = Min(w.todo)  BY <1>2, MinIn
<1>4. PICK seen \in SUBSET At(a) : /\ snap' = [snap EXCEPT ![a] = [listed |-> TRUE, ids |-> seen]]
                                   /\ w' = [w EXCEPT !.at = "act", !.cur = a, !.seen = seen, !.sess = @ \cup {a}]
  BY <1>3 DEF Login
<1>5. a \in Accounts /\ seen \subseteq Ids /\ \A i \in seen : Of(i, a)  BY <1>2 DEF At, RunType, Of
<1>6. /\ w' \in RunType /\ w'.at = "act" /\ w'.cur = a /\ w'.seen = seen /\ w'.todo = w.todo
      /\ w'.plan = w.plan /\ w'.cuts = w.cuts /\ w'.new = w.new /\ w'.unsure = w.unsure
  BY <1>2, <1>4, <1>5 DEF RunType, Phases
<1>7. snap' \in [Accounts -> [listed : BOOLEAN, ids : SUBSET Ids]]
  <2>1. [listed |-> TRUE, ids |-> seen] \in [listed : BOOLEAN, ids : SUBSET Ids]  BY <1>5
  <2> QED  BY <1>2, <1>4, <2>1
<1>8. seen \subseteq live  BY DEF At
<1> QED  BY <1>1, <1>3, <1>5, <1>6, <1>7, <1>8

LEMMA LoginStep ==
  ASSUME WatchInv, Login
  PROVE  WatchInv'
<1>1. /\ UNCHANGED <<dry, frozen, u, b, res, live, row, led, moved, cut, quit>> /\ w.at = "login"
      /\ snap' \in [Accounts -> [listed : BOOLEAN, ids : SUBSET Ids]]
      /\ w' \in RunType /\ w'.at = "act" /\ w'.cur \in w.todo
      /\ (\A i \in w'.seen : Of(i, w'.cur)) /\ w'.todo = w.todo
      /\ w'.plan = w.plan /\ w'.cuts = w.cuts /\ w'.new = w.new /\ w'.unsure = w.unsure
  BY LoginIs
<1>2. Grows  BY <1>1 DEF Grows
<1>3. TypeOK'  BY <1>1 DEF WatchInv, TypeOK
<1>4. RowsBound' /\ CrewBound' /\ AllUsed' /\ BookerHolds' /\ QuitOK'
  BY <1>1, <1>2, <1>3, WatcherStep DEF SameBooking, SameLease
<1>5. PlansBound'  BY <1>1, <1>2, PlansStay DEF WatchInv
<1>6. PhaseOK'  BY <1>1 DEF WatchInv, PhaseOK, Holding, Shedders
<1>7. CurOK' /\ RunHolds'  BY <1>1 DEF CurOK, RunHolds, Holding, Shedders
<1>8. RunBound'
  <2>1. w.new = 0  BY <1>1 DEF WatchInv, PhaseOK, Holding, Shedders
  <2> QED  BY <1>1, <2>1 DEF RunBound, Of
<1>9. ReadOK'  BY <1>1 DEF WatchInv, ReadOK, Fresh
<1> QED  BY <1>3, <1>4, <1>5, <1>6, <1>7, <1>8, <1>9 DEF WatchInv

-----------------------------------------------------------------------------
(* Under the lease.                                                        *)

\* A step from act or under the lease, to a phase under the lease, on the same account.
LEMMA HoldingOn ==
  ASSUME WatchInv, TypeOK', Grows, w.at \in Holding \cup {"act"}, u' = u, b' = b, quit' = quit,
         w'.cur = w.cur, w'.todo = w.todo, w'.plan = w.plan, led' = led, moved' = moved,
         \A i \in live' \cup cut' : i \in live \cup cut \/ Used(i)',
         \A a \in Accounts : SameBooking(row[a], row'[a]) /\ row'[a].reconcile = row[a].reconcile,
         \A a \in Accounts : a # w.cur => SameLease(row[a], row'[a]),
         ~b[w.cur].on
  PROVE  /\ PlansBound' /\ RowsBound' /\ CrewBound' /\ AllUsed' /\ BookerHolds' /\ QuitOK' /\ ReadOK'
         /\ w.at \in Holding /\ SameLease(row[w.cur], row'[w.cur]) => RunHolds'
<1>1. \A a \in Accounts : b[a].on => SameLease(row[a], row'[a]) /\ SameBooking(row[a], row'[a])  OBVIOUS
<1>2. RowsBound' /\ CrewBound' /\ AllUsed' /\ BookerHolds' /\ QuitOK'  BY <1>1, WatcherStep
<1>3. PlansBound'  BY PlansStay DEF WatchInv
<1>4. ReadOK'
  <2>1. w.todo \subseteq Accounts  BY DEF WatchInv, TypeOK, RunType
  <2> QED  BY <2>1 DEF WatchInv, ReadOK, Fresh, Version, SameBooking
<1>5. ASSUME w.at \in Holding, SameLease(row[w.cur], row'[w.cur]) PROVE RunHolds'
  <2>1. w.cur \in Accounts  BY <1>5 DEF WatchInv, PhaseOK, TypeOK, RunType
  <2> QED  BY <1>5, <2>1 DEF WatchInv, RunHolds, SameLease, SameBooking, Cur, Active
<1> QED  BY <1>2, <1>3, <1>4, <1>5

LEMMA CurHere ==
  ASSUME WatchInv, w.at \in Holding \cup {"act"}
  PROVE  /\ w.cur \in Accounts /\ w.cur \in w.todo /\ Cur \in PlanType /\ Cur = w.plan[w.cur] /\ row[w.cur] \in Row
         /\ w \in RunType /\ Bound(Cur.row, w.cur) /\ (\A i \in Cur.own : Of(i, w.cur))
         /\ w.at \in Holding => ~b[w.cur].on
<1>1. w \in RunType /\ w.cur \in w.todo  BY DEF WatchInv, TypeOK, PhaseOK
<1>2. w.cur \in Accounts  BY <1>1 DEF RunType
<1>3. row[w.cur] \in Row  BY <1>2 DEF WatchInv, TypeOK
<1>4. Cur \in PlanType /\ Cur = w.plan[w.cur]  BY <1>1, <1>2 DEF RunType, Cur
<1>5. Bound(Cur.row, w.cur) /\ \A i \in Cur.own : Of(i, w.cur)  BY <1>2 DEF WatchInv, PlansBound, Cur
<1>6. w.at \in Holding => ~b[w.cur].on  BY <1>2 DEF WatchInv, RunHolds, BookerHolds
<1> QED  BY <1>1, <1>2, <1>3, <1>4, <1>5, <1>6

\* The watcher takes the lease of the row it read, and goes to work on it.
TakesRow ==
    /\ row' \in [Accounts -> Row] /\ (\A x \in Accounts : x # w.cur => row'[x] = row[x])
    /\ Free(row[w.cur]) /\ Cur.row.status = row[w.cur].status /\ Cur.row.raw = row[w.cur].raw
    /\ SameBooking(row[w.cur], row'[w.cur]) /\ row'[w.cur].reconcile = row[w.cur].reconcile
    /\ row'[w.cur].marker = row[w.cur].marker /\ row'[w.cur].lease = "w" /\ row'[w.cur].alive
    /\ w' \in RunType /\ w'.cur = w.cur /\ w'.todo = w.todo /\ w'.plan = w.plan /\ w'.seen = w.seen
    /\ w'.cuts = w.cuts /\ w'.new = w.new /\ w'.unsure = w.unsure /\ w'.cand \subseteq Slots
    /\ w'.at \in {"release", "write", "mark", "pick"} /\ w'.pre \in {"adopt", "engine", "bot", "external"}
    /\ w'.pre \in {"bot", "external"} => Cur.row.status = "booked"
    /\ w'.pre = "engine" /\ Cur.row.status = "booked" => Cur.row.raw \in w.seen
    /\ w'.pre = "external" => ~Cur.row.marker
    /\ w'.at \in {"mark", "pick"} => w'.pre = "engine"
    /\ w'.at = "mark" => Cur.row.status = "booked" /\ UpgradeAllowed(Cur)
    /\ w'.at = "pick" => Cur.row.status = "pending"

LEMMA ActIs ==
  ASSUME WatchInv, Act
  PROVE  /\ UNCHANGED <<dry, frozen, u, b, res, live, led, snap, moved, cut, quit>> /\ w.at = "act"
         /\ (w' = Onward(w) /\ row' = row) \/ TakesRow
<1>1. UNCHANGED <<dry, frozen, u, b, res, live, led, snap, moved, cut, quit>> /\ w.at = "act"
  BY DEF Act, Outside, Crew, course, history
<1>2. /\ w.cur \in Accounts /\ w.cur \in w.todo /\ Cur \in PlanType /\ row[w.cur] \in Row /\ w \in RunType
      /\ row \in [Accounts -> Row] /\ Cur = w.plan[w.cur]
  BY <1>1, CurHere DEF WatchInv, TypeOK
<1>3. PICK ripe \in BOOLEAN :
        LET pre == PreEngine(Cur, w.seen, ripe) IN
        IF pre = "wait" \/ ~Free(row[w.cur]) \/ ~Fresh("w", w.cur)
        THEN /\ w' = Onward(w)
             /\ UNCHANGED row
        ELSE /\ row' = [row EXCEPT ![w.cur] = Leased(@, "w")]
             /\ w' = [w EXCEPT !.at = Enter(Cur, pre), !.pre = pre,
                               !.cand = Candidates(w.cur, Cur)]
  BY DEF Act
<1>4. PICK pre : pre = PreEngine(Cur, w.seen, ripe)  OBVIOUS
<1>5. CASE pre = "wait" \/ ~Free(row[w.cur]) \/ ~Fresh("w", w.cur)
  <2>1. w' = Onward(w) /\ UNCHANGED row  BY <1>3, <1>4, <1>5
  <2> QED  BY <1>1, <2>1
<1>6. CASE pre # "wait" /\ Free(row[w.cur]) /\ Fresh("w", w.cur)
  <2>1. /\ row' = [row EXCEPT ![w.cur] = Leased(@, "w")]
        /\ w' = [w EXCEPT !.at = Enter(Cur, pre), !.pre = pre, !.cand = Candidates(w.cur, Cur)]
    BY <1>3, <1>4, <1>6
  <2>2. Version(Cur.row) = Version(row[w.cur])  BY <1>2, <1>6 DEF WatchInv, ReadOK
  <2>3. Cur.row.status = row[w.cur].status /\ Cur.row.raw = row[w.cur].raw  BY <2>2 DEF Version
  <2>4. Cur.row.status \in {"pending", "booked"}  BY <1>6, <2>3 DEF Free
  <2>5. /\ pre \in {"adopt", "engine", "bot", "external"}
        /\ pre \in {"bot", "external"} => Cur.row.status = "booked"
        /\ pre = "engine" /\ Cur.row.status = "booked" => Cur.row.raw \in w.seen
        /\ pre = "external" => ~Cur.row.marker
    BY <1>4, <1>6, <2>4 DEF PreEngine, Verdict
  <2>6. PICK at : at = Enter(Cur, pre)  OBVIOUS
  <2>7. /\ at \in {"release", "write", "mark", "pick"}
        /\ at \in {"mark", "pick"} => pre = "engine"
        /\ at = "mark" => Cur.row.status = "booked" /\ UpgradeAllowed(Cur)
        /\ at = "pick" => Cur.row.status = "pending"
    BY <2>6 DEF Enter, CheckOnce, UpgradeAllowed
  <2>8. PICK cand \in SUBSET Slots : cand = Candidates(w.cur, Cur)  BY <1>2 DEF Candidates, PlanType
  <2>9. w' = [w EXCEPT !.at = at, !.pre = pre, !.cand = cand]  BY <2>1, <2>6, <2>8
  <2>10. Slots \subseteq Nat  BY DEF Slots
  <2>11. /\ w' \in RunType /\ w'.at = at /\ w'.pre = pre /\ w'.cand = cand
         /\ w'.cur = w.cur /\ w'.todo = w.todo /\ w'.plan = w.plan /\ w'.seen = w.seen
         /\ w'.cuts = w.cuts /\ w'.new = w.new /\ w'.unsure = w.unsure
    BY <1>2, <2>5, <2>7, <2>8, <2>9, <2>10 DEF RunType, Phases
  <2>12. /\ row' \in [Accounts -> Row] /\ \A x \in Accounts : x # w.cur => row'[x] = row[x]
         /\ SameBooking(row[w.cur], row'[w.cur]) /\ row'[w.cur].reconcile = row[w.cur].reconcile
         /\ row'[w.cur].marker = row[w.cur].marker
         /\ row'[w.cur].lease = "w" /\ row'[w.cur].alive
    BY <1>2, <2>1 DEF Row, SameBooking, Leased
  <2>13. TakesRow  BY <1>6, <2>3, <2>5, <2>7, <2>8, <2>11, <2>12 DEF TakesRow
  <2> QED  BY <1>1, <2>13
<1> QED  BY <1>5, <1>6

LEMMA ActStep ==
  ASSUME WatchInv, Act
  PROVE  WatchInv'
<1>1. UNCHANGED <<dry, frozen, u, b, res, live, led, snap, moved, cut, quit>> /\ w.at = "act"  BY ActIs
<1>2. w.cur \in Accounts /\ w.cur \in w.todo /\ row[w.cur] \in Row /\ w \in RunType  BY <1>1, CurHere
<1>3. CASE w' = Onward(w) /\ row' = row
  <2>1. MovesOn(w, w')  BY <1>2, <1>3, OnwardMovesOn
  <2> QED  BY <1>1, <1>3, <2>1, JustMovesOn DEF Outside, Crew, course, history
<1>4. CASE TakesRow
  <2>1. Grows  BY <1>1 DEF Grows
  <2>2. TypeOK'  BY <1>1, <1>4 DEF WatchInv, TypeOK, TakesRow
  <2>3. ~b[w.cur].on  BY <1>2, <1>4 DEF WatchInv, BookerHolds, Free, Held, TakesRow
  <2>4. PlansBound' /\ RowsBound' /\ CrewBound' /\ AllUsed' /\ BookerHolds' /\ QuitOK' /\ ReadOK'
    <3>1. \A a \in Accounts : SameBooking(row[a], row'[a]) /\ row'[a].reconcile = row[a].reconcile
      BY <1>4 DEF SameBooking, TakesRow
    <3>2. \A a \in Accounts : a # w.cur => SameLease(row[a], row'[a])  BY <1>4 DEF SameLease, TakesRow
    <3>3. w'.cur = w.cur /\ w'.todo = w.todo /\ w'.plan = w.plan  BY <1>4 DEF TakesRow
    <3> QED  BY <1>1, <2>1, <2>2, <2>3, <3>1, <3>2, <3>3, HoldingOn
  <2>5. w.cuts = {} /\ w.new = 0 /\ ~w.unsure  BY <1>1 DEF WatchInv, PhaseOK, Holding, Shedders
  <2>6. PhaseOK'  BY <1>2, <1>4, <2>5 DEF PhaseOK, Holding, Shedders, TakesRow
  <2>7. Cur' = Cur  BY <1>4 DEF Cur, TakesRow
  <2>8. CurOK'  BY <1>4, <2>5, <2>7 DEF CurOK, Holding, Shedders, TakesRow
  <2>9. RunBound'  BY <1>1, <1>4, <2>5 DEF WatchInv, RunBound, Of, TakesRow
  <2>10. RunHolds'
    <3>1. Active(row'[w.cur])  BY <1>4 DEF Active, SameBooking, TakesRow, Free
    <3> QED  BY <1>4, <2>7, <3>1 DEF RunHolds, SameBooking, TakesRow
  <2> QED  BY <2>2, <2>4, <2>6, <2>8, <2>9, <2>10 DEF WatchInv
<1> QED  BY <1>3, <1>4, ActIs

LEMMA ReleaseStep ==
  ASSUME WatchInv, Release
  PROVE  WatchInv'
<1>1. /\ UNCHANGED <<dry, frozen, u, b, res, live, led, snap, moved, cut, quit>> /\ w.at = "release"
      /\ row' = [row EXCEPT ![w.cur] = Released(@, "w")] /\ w' = Onward(w)
  BY DEF Release, Outside, Crew, course, history
<1>2. w.at \in Holding  BY <1>1 DEF Holding
<1>3. /\ w.cur \in Accounts /\ row[w.cur] \in Row /\ w \in RunType /\ ~b[w.cur].on /\ row \in [Accounts -> Row]
  BY <1>2, CurHere DEF WatchInv, TypeOK
<1>4. PICK n : n = Released(row[w.cur], "w")  OBVIOUS
<1>5. n \in Row /\ SameBooking(row[w.cur], n) /\ n.reconcile = row[w.cur].reconcile  BY <1>3, <1>4, ReleasedIs
<1>6. /\ row' \in [Accounts -> Row] /\ row'[w.cur] = n /\ \A x \in Accounts : x # w.cur => row'[x] = row[x]
  BY <1>1, <1>3, <1>4, <1>5
<1>7. MovesOn(w, w')  BY <1>1, <1>3, OnwardMovesOn
<1>8. Grows  BY <1>1 DEF Grows
<1>9. TypeOK'  BY <1>1, <1>6, <1>7 DEF WatchInv, TypeOK, MovesOn, Resting
<1> QED  BY <1>1, <1>3, <1>5, <1>6, <1>7, <1>8, <1>9, MovingOn DEF SameBooking, SameLease, Fresh, Version

\* A step under the lease that changes no row.
LEMMA UnderLease ==
  ASSUME WatchInv, TypeOK', Grows, w.at \in Holding, u' = u, b' = b, quit' = quit, row' = row,
         w'.cur = w.cur, w'.todo = w.todo, w'.plan = w.plan, led' = led, moved' = moved,
         \A i \in live' \cup cut' : i \in live \cup cut \/ Used(i)',
         PhaseOK', CurOK', RunBound'
  PROVE  WatchInv'
<1>1. ~b[w.cur].on  BY CurHere
<1> QED  BY <1>1, HoldingOn DEF WatchInv, SameBooking, SameLease

LEMMA MarkStep ==
  ASSUME WatchInv, Mark
  PROVE  WatchInv'
<1>1. /\ UNCHANGED <<dry, frozen, u, b, res, live, led, snap, moved, cut, quit>> /\ w.at = "mark" /\ w.at \in Holding
      /\ row' = [row EXCEPT ![w.cur].marker = TRUE]
  BY DEF Mark, Outside, Crew, course, history, Holding
<1>2. /\ w.cur \in Accounts /\ row[w.cur] \in Row /\ w \in RunType /\ ~b[w.cur].on /\ row \in [Accounts -> Row]
      /\ Cur \in PlanType
  BY <1>1, CurHere DEF WatchInv, TypeOK
<1>3. PICK at \in {"write", "extras"} : at = IF StopActing THEN "write" ELSE "extras"  OBVIOUS
<1>4. PICK cand : cand = Extras(w.cur, Cur, w.seen)  OBVIOUS
<1>5. cand \subseteq w.seen /\ w.seen \subseteq Ids /\ Ids \subseteq Nat
  BY <1>2, <1>4 DEF Extras, Eligible, RunType, Ids
<1>6. w' = [w EXCEPT !.at = at, !.cand = cand]  BY <1>3, <1>4 DEF Mark
<1>7. /\ w' \in RunType /\ w'.at = at /\ w'.cand = cand /\ w'.pre = w.pre
      /\ w'.cur = w.cur /\ w'.todo = w.todo /\ w'.plan = w.plan /\ w'.seen = w.seen
      /\ w'.cuts = w.cuts /\ w'.new = w.new /\ w'.unsure = w.unsure
  BY <1>2, <1>3, <1>5, <1>6 DEF RunType, Phases
<1>8. /\ row' \in [Accounts -> Row] /\ \A x \in Accounts : x # w.cur => row'[x] = row[x]
      /\ SameBooking(row[w.cur], row'[w.cur]) /\ row'[w.cur].reconcile = row[w.cur].reconcile
      /\ SameLease(row[w.cur], row'[w.cur])
  BY <1>1, <1>2 DEF Row, SameBooking, SameLease
<1>9. Grows  BY <1>1 DEF Grows
<1>10. TypeOK'  BY <1>1, <1>7, <1>8 DEF WatchInv, TypeOK
<1>11. /\ PlansBound' /\ RowsBound' /\ CrewBound' /\ AllUsed' /\ BookerHolds' /\ QuitOK' /\ ReadOK' /\ RunHolds'
  BY <1>1, <1>2, <1>7, <1>8, <1>9, <1>10, HoldingOn DEF SameBooking, SameLease
<1>12. PhaseOK'  BY <1>1, <1>3, <1>5, <1>7 DEF WatchInv, PhaseOK, Holding, Shedders
<1>13. Cur' = Cur  BY <1>7 DEF Cur
<1>14. CurOK'  BY <1>1, <1>3, <1>7, <1>13 DEF WatchInv, CurOK, Holding, Shedders
<1>15. RunBound'  BY <1>1, <1>3, <1>5, <1>7 DEF WatchInv, RunBound, Of
<1> QED  BY <1>10, <1>11, <1>12, <1>14, <1>15 DEF WatchInv

\* A cancel of a reservation.
LEMMA CancellingIs ==
  ASSUME WatchInv, NEW i, NEW answer, Cancelling(i, answer)
  PROVE  /\ res' = res /\ quit' = quit /\ Grows /\ live' \subseteq live /\ cut' \subseteq cut \cup (live \cap {i})
         /\ cut \subseteq cut' /\ live' \subseteq Ids /\ cut' \subseteq Ids
         /\ \A j \in live' \cup cut' : j \in live \cup cut \/ Used(j)'
         /\ cut' # cut => i \notin live'
         /\ answer = "ok" => i \notin live'
<1>1. live \subseteq Ids /\ cut \subseteq Ids  BY DEF WatchInv, TypeOK
<1>2. res' = res /\ quit' = quit  BY DEF Cancelling
<1>3. CASE answer \in {"ok", "cutlost"}
  <2>1. live' = live \ {i} /\ cut' = IF i \in live THEN cut \cup {i} ELSE cut  BY <1>3 DEF Cancelling
  <2> QED  BY <1>1, <1>2, <2>1 DEF Grows
<1>4. CASE answer \notin {"ok", "cutlost"}
  <2>1. live' = live /\ cut' = cut  BY <1>4 DEF Cancelling
  <2> QED  BY <1>1, <1>2, <1>4, <2>1 DEF Grows
<1> QED  BY <1>3, <1>4

LEMMA CancelExtraStep ==
  ASSUME WatchInv, CancelExtra
  PROVE  WatchInv'
<1>1. UNCHANGED <<dry, frozen, u, b, row, led, snap, moved>> /\ w.at = "extras" /\ w.at \in Holding /\ w.cand # {}
  BY DEF CancelExtra, Outside, Crew, Holding
<1>2. w.cur \in Accounts /\ w \in RunType /\ w.cand \subseteq Ids
  BY <1>1, CurHere DEF WatchInv, PhaseOK
<1>3. PICK i \in w.cand : i = BestRes(w.cur, w.cand)  BY <1>1, <1>2, BestResIn DEF WatchInv
<1>4. PICK answer \in CancelAnswers :
        /\ Cancelling(i, answer)
        /\ w' = [w EXCEPT !.cand = @ \ {i},
                          !.cuts = IF answer = "ok" THEN @ \cup {i} ELSE @,
                          !.halt = (answer = "throttle"),
                          !.at = IF answer = "throttle" THEN "write" ELSE @]
  BY <1>3 DEF CancelExtra
<1>5. /\ res' = res /\ quit' = quit /\ Grows /\ live' \subseteq Ids /\ cut' \subseteq Ids
      /\ \A j \in live' \cup cut' : j \in live \cup cut \/ Used(j)'
  BY <1>4, CancellingIs
<1>6. PICK cuts \in SUBSET Ids : cuts = (IF answer = "ok" THEN w.cuts \cup {i} ELSE w.cuts) /\ w.cuts \subseteq cuts
  <2>1. w.cuts \in SUBSET Ids /\ w.cuts \cup {i} \in SUBSET Ids  BY <1>2 DEF RunType
  <2> QED  BY <2>1
<1>7. PICK at \in {"write", "extras"} : at = IF answer = "throttle" THEN "write" ELSE w.at  BY <1>1
<1>8. PICK halt \in BOOLEAN : halt = (answer = "throttle")  OBVIOUS
<1>9. w' = [w EXCEPT !.cand = @ \ {i}, !.cuts = cuts, !.halt = halt, !.at = at]  BY <1>4, <1>6, <1>7, <1>8
<1>10. /\ w' \in RunType /\ w'.at = at /\ w'.cand = w.cand \ {i} /\ w'.pre = w.pre
       /\ w'.cur = w.cur /\ w'.todo = w.todo /\ w'.plan = w.plan /\ w'.seen = w.seen
       /\ w'.cuts = cuts /\ w'.new = w.new /\ w'.unsure = w.unsure
  BY <1>2, <1>6, <1>7, <1>8, <1>9 DEF RunType, Phases
<1>11. TypeOK'  BY <1>1, <1>5, <1>10 DEF WatchInv, TypeOK
<1>12. PhaseOK'  BY <1>1, <1>2, <1>7, <1>10 DEF WatchInv, PhaseOK, Holding, Shedders
<1>13. Cur' = Cur  BY <1>10 DEF Cur
<1>14. CurOK'  BY <1>1, <1>6, <1>7, <1>10, <1>13 DEF WatchInv, CurOK, Holding, Shedders
<1>15. RunBound'  BY <1>1, <1>5, <1>7, <1>10 DEF WatchInv, RunBound, Of
<1> QED  BY <1>1, <1>5, <1>10, <1>11, <1>12, <1>14, <1>15, UnderLease

LEMMA TargetsIn ==
  ASSUME WatchInv, w.at \in Holding
  PROVE  Targets \subseteq Slots /\ (Targets # {} => BestSlot(w.cur, Targets) \in Targets)
<1>1. w.cur \in Accounts /\ Cur \in PlanType  BY CurHere
<1>2. Targets \subseteq Slots  BY <1>1 DEF Targets, UpgradeSlots, PlanType
<1> QED  BY <1>1, <1>2, BestSlotIn

LEMMA UpgradeStep ==
  ASSUME WatchInv, Upgrade
  PROVE  WatchInv'
<1>1. UNCHANGED <<dry, frozen, u, b, row, led, snap, moved>> /\ w.at = "extras" /\ w.at \in Holding /\ w.cand = {}
  BY DEF Upgrade, Outside, Crew, Holding
<1>2. w.cur \in Accounts /\ w \in RunType /\ Bound(Cur.row, w.cur)  BY <1>1, CurHere
<1>3. Cur.row.status = "booked" /\ Cur.row.raw \in Ids
  BY <1>1, <1>2 DEF WatchInv, CurOK, Bound, Of
<1>4. CASE Targets = {}
  <2>1. w' = [w EXCEPT !.at = "write"] /\ UNCHANGED <<res, live, cut, quit>>  BY <1>4 DEF Upgrade, course, history
  <2>2. /\ w' \in RunType /\ w'.at = "write" /\ w'.pre = w.pre
        /\ w'.cur = w.cur /\ w'.todo = w.todo /\ w'.plan = w.plan /\ w'.seen = w.seen
        /\ w'.cuts = w.cuts /\ w'.new = w.new /\ w'.unsure = w.unsure
    BY <1>2, <2>1 DEF RunType, Phases
  <2>3. Grows /\ TypeOK'  BY <1>1, <2>1, <2>2 DEF WatchInv, TypeOK, Grows
  <2>4. PhaseOK'  BY <1>1, <2>2 DEF WatchInv, PhaseOK, Holding, Shedders
  <2>5. Cur' = Cur  BY <2>2 DEF Cur
  <2>6. CurOK'  BY <1>1, <2>2, <2>5 DEF WatchInv, CurOK, Holding, Shedders
  <2>7. RunBound'  BY <1>1, <2>1, <2>2 DEF WatchInv, RunBound, Of
  <2> QED  BY <1>1, <2>1, <2>2, <2>3, <2>4, <2>6, <2>7, UnderLease
<1>5. CASE Targets # {}
  <2>1. PICK answer \in CancelAnswers :
            /\ Cancelling(Cur.row.raw, answer)
            /\ w' = [w EXCEPT !.at = IF answer = "ok" THEN "rebook" ELSE "write",
                              !.cand = IF answer = "ok" THEN {BestSlot(w.cur, Targets)} ELSE {},
                              !.cuts = IF answer = "ok" THEN @ \cup {Cur.row.raw} ELSE @]
    BY <1>5 DEF Upgrade
  <2>2. /\ res' = res /\ quit' = quit /\ Grows /\ live' \subseteq Ids /\ cut' \subseteq Ids
        /\ \A j \in live' \cup cut' : j \in live \cup cut \/ Used(j)'
    BY <2>1, CancellingIs
  <2>3. PICK cand \in SUBSET Slots : cand = IF answer = "ok" THEN {BestSlot(w.cur, Targets)} ELSE {}
    BY <1>1, <1>5, TargetsIn
  <2>4. PICK cuts \in SUBSET Ids : cuts = IF answer = "ok" THEN w.cuts \cup {Cur.row.raw} ELSE w.cuts
    BY <1>2, <1>3 DEF RunType
  <2>5. PICK at \in {"rebook", "write"} : at = IF answer = "ok" THEN "rebook" ELSE "write"  OBVIOUS
  <2>6. w.cuts \subseteq cuts /\ (at = "rebook" => Cur.row.raw \in cuts)  BY <2>4, <2>5
  <2>7. w' = [w EXCEPT !.at = at, !.cand = cand, !.cuts = cuts]  BY <2>1, <2>3, <2>4, <2>5
  <2>8. Slots \subseteq Nat  BY DEF Slots
  <2>9. /\ w' \in RunType /\ w'.at = at /\ w'.cand = cand /\ w'.pre = w.pre
        /\ w'.cur = w.cur /\ w'.todo = w.todo /\ w'.plan = w.plan /\ w'.seen = w.seen
        /\ w'.cuts = cuts /\ w'.new = w.new /\ w'.unsure = w.unsure
    BY <1>2, <2>3, <2>4, <2>5, <2>7, <2>8 DEF RunType, Phases
  <2>10. TypeOK'  BY <1>1, <2>2, <2>9 DEF WatchInv, TypeOK
  <2>11. PhaseOK'  BY <1>1, <2>3, <2>5, <2>9 DEF WatchInv, PhaseOK, Holding, Shedders
  <2>12. Cur' = Cur  BY <2>9 DEF Cur
  <2>13. CurOK'  BY <1>1, <1>3, <2>5, <2>6, <2>9, <2>12 DEF WatchInv, CurOK, Holding, Shedders
  <2>14. RunBound'  BY <1>1, <2>2, <2>5, <2>9 DEF WatchInv, RunBound, Of
  <2> QED  BY <1>1, <2>2, <2>9, <2>10, <2>11, <2>13, <2>14, UnderLease
<1> QED  BY <1>4, <1>5

\* A POST of the watcher: a new reservation or none.
LEMMA PostingIs ==
  ASSUME WatchInv, w.at \in {"rebook", "pick"}, NEW s \in w.cand,
         NEW after \in {"write", "pick"}, after = "pick" => w.at = "pick",
         Posting(s, after), UNCHANGED <<Outside, row, led, snap, moved>>
  PROVE  /\ UNCHANGED <<dry, frozen, u, b, row, led, snap, moved, cut, quit>> /\ w.at \in Holding
         /\ w' \in RunType /\ w'.at \in {"write", after} /\ w'.cand \subseteq w.cand /\ w'.pre = w.pre
         /\ w'.cur = w.cur /\ w'.todo = w.todo /\ w'.plan = w.plan /\ w'.seen = w.seen /\ w'.cuts = w.cuts
         /\ \A c : c = w.cur =>
              w'.new = w.new \/ (w'.new \in Ids /\ ~Used(w'.new) /\ (\A i : i = w'.new => Of(i, c)' /\ res'[i].by = "watch"))
         /\ w'.at = "pick" => w'.new = w.new /\ w'.unsure = w.unsure
         /\ Grows /\ res' \in [Ids -> ResType] /\ live' \subseteq Ids
         /\ \A i \in live' : i \in live \/ (Used(i)' /\ ~Used(i))
<1>1. UNCHANGED <<dry, frozen, u, b, row, led, snap, moved, cut, quit>> /\ w.at \in Holding
  BY DEF Posting, Outside, Crew, Holding, history
<1>2. PICK c \in Accounts : c = w.cur /\ w \in RunType  BY <1>1, CurHere
<1>3. w.cand \subseteq Slots  BY DEF WatchInv, PhaseOK
<1>4. ASSUME UNCHANGED course
      PROVE  Grows /\ res' \in [Ids -> ResType] /\ live' \subseteq Ids /\ \A i \in live' : i \in live
  BY <1>4 DEF Grows, course, WatchInv, TypeOK
<1>5. ASSUME Reserving(c, s, "watch")
      PROVE  /\ Grows /\ res' \in [Ids -> ResType] /\ live' \subseteq Ids
             /\ \A i \in live' : i \in live \/ (Used(i)' /\ ~Used(i))
             /\ Min(Unused) \in Ids /\ ~Used(Min(Unused))
             /\ \A i : i = Min(Unused) => Of(i, c)' /\ res'[i].by = "watch"
  <2>1. PICK i \in Ids : Posted(c, s, "watch", i)  BY <1>2, <1>3, <1>5, ReservingPosts DEF WatchInv
  <2>2. Grows  BY <2>1 DEF Grows, Posted, Used
  <2>3. Used(i)' /\ Of(i, c)' /\ res'[i].by = "watch" /\ live' = live \cup {i} /\ res' \in [Ids -> ResType]
    BY <1>2, <2>1 DEF Posted, Of, Used, NoRes, Accounts
  <2>4. live \subseteq Ids /\ i = Min(Unused) /\ ~Used(i)  BY <2>1 DEF WatchInv, TypeOK, Posted, Used
  <2> QED  BY <2>2, <2>3, <2>4
<1>6. /\ w' \in RunType /\ w'.at \in {"write", after} /\ w'.cand \subseteq w.cand /\ w'.pre = w.pre
      /\ w'.cur = w.cur /\ w'.todo = w.todo /\ w'.plan = w.plan /\ w'.seen = w.seen /\ w'.cuts = w.cuts
      /\ w'.new = w.new \/ (w'.new \in Ids /\ ~Used(w'.new) /\ (\A i : i = w'.new => Of(i, c)' /\ res'[i].by = "watch"))
      /\ w'.at = "pick" => w'.new = w.new /\ w'.unsure = w.unsure
      /\ Grows /\ res' \in [Ids -> ResType] /\ live' \subseteq Ids
      /\ \A i \in live' : i \in live \/ (Used(i)' /\ ~Used(i))
  <2>1. CASE Reserving(c, s, "watch") /\ w' = [w EXCEPT !.at = "write", !.cand = {}, !.new = Min(Unused)]
    <3>1. PICK new \in Ids : new = Min(Unused)  BY <1>5, <2>1
    <3>2. w' = [w EXCEPT !.at = "write", !.cand = {}, !.new = new]  BY <2>1, <3>1
    <3>3. /\ w' \in RunType /\ w'.at = "write" /\ w'.cand = {} /\ w'.pre = w.pre /\ w'.new = new
          /\ w'.cur = w.cur /\ w'.todo = w.todo /\ w'.plan = w.plan /\ w'.seen = w.seen /\ w'.cuts = w.cuts
      BY <1>2, <3>2 DEF RunType, Phases
    <3> QED  BY <1>5, <2>1, <3>1, <3>3
  <2>2. CASE UNCHANGED course /\ w' = [w EXCEPT !.at = after, !.cand = @ \ {s}]
    <3>1. /\ w' \in RunType /\ w'.at = after /\ w'.cand \subseteq w.cand /\ w'.pre = w.pre /\ w'.new = w.new
          /\ w'.unsure = w.unsure
          /\ w'.cur = w.cur /\ w'.todo = w.todo /\ w'.plan = w.plan /\ w'.seen = w.seen /\ w'.cuts = w.cuts
      BY <1>2, <2>2 DEF RunType, Phases
    <3> QED  BY <1>4, <2>2, <3>1
  <2>3. CASE /\ Reserving(c, s, "watch") \/ UNCHANGED course
             /\ w' = [w EXCEPT !.at = "write", !.cand = {}, !.unsure = TRUE]
    <3>1. /\ w' \in RunType /\ w'.at = "write" /\ w'.cand = {} /\ w'.pre = w.pre /\ w'.new = w.new
          /\ w'.cur = w.cur /\ w'.todo = w.todo /\ w'.plan = w.plan /\ w'.seen = w.seen /\ w'.cuts = w.cuts
      BY <1>2, <2>3 DEF RunType, Phases
    <3> QED  BY <1>4, <1>5, <2>3, <3>1
  <2>4. CASE UNCHANGED course /\ w' = [w EXCEPT !.at = "write", !.cand = {}]
    <3>1. /\ w' \in RunType /\ w'.at = "write" /\ w'.cand = {} /\ w'.pre = w.pre /\ w'.new = w.new
          /\ w'.cur = w.cur /\ w'.todo = w.todo /\ w'.plan = w.plan /\ w'.seen = w.seen /\ w'.cuts = w.cuts
      BY <1>2, <2>4 DEF RunType, Phases
    <3> QED  BY <1>4, <2>4, <3>1
  <2>5. CASE /\ UNCHANGED course
             /\ w' = [w EXCEPT !.at = "write", !.cand = {}, !.unsure = TRUE, !.halt = (Cur.row.status = "pending")]
    <3>1. PICK halt \in BOOLEAN : halt = (Cur.row.status = "pending")  OBVIOUS
    <3>2. w' = [w EXCEPT !.at = "write", !.cand = {}, !.unsure = TRUE, !.halt = halt]  BY <2>5, <3>1
    <3>3. /\ w' \in RunType /\ w'.at = "write" /\ w'.cand = {} /\ w'.pre = w.pre /\ w'.new = w.new
          /\ w'.cur = w.cur /\ w'.todo = w.todo /\ w'.plan = w.plan /\ w'.seen = w.seen /\ w'.cuts = w.cuts
      BY <1>2, <3>2 DEF RunType, Phases
    <3> QED  BY <1>4, <2>5, <3>3
  <2> QED  BY <1>2, <2>1, <2>2, <2>3, <2>4, <2>5 DEF Posting
<1> QED  BY <1>1, <1>2, <1>6

LEMMA PostingStep ==
  ASSUME WatchInv, w.at \in {"rebook", "pick"}, NEW s \in w.cand,
         NEW after \in {"write", "pick"}, after = "pick" => w.at = "pick",
         Posting(s, after), UNCHANGED <<Outside, row, led, snap, moved>>
  PROVE  WatchInv'
<1>1. UNCHANGED <<dry, frozen, u, b, row, led, snap, moved, cut, quit>> /\ w.at \in Holding  BY PostingIs
<1>2. PICK c \in Accounts : c = w.cur /\ w \in RunType  BY <1>1, CurHere
<1>3. w.cand \subseteq Slots  BY DEF WatchInv, PhaseOK
<1>4. /\ w' \in RunType /\ w'.at \in {"write", after} /\ w'.cand \subseteq w.cand /\ w'.pre = w.pre
      /\ w'.cur = w.cur /\ w'.todo = w.todo /\ w'.plan = w.plan /\ w'.seen = w.seen /\ w'.cuts = w.cuts
      /\ w'.new = w.new \/ (w'.new \in Ids /\ (\A i : i = w'.new => Of(i, c)' /\ res'[i].by = "watch"))
      /\ w'.at = "pick" => w'.new = w.new /\ w'.unsure = w.unsure
      /\ Grows /\ res' \in [Ids -> ResType] /\ live' \subseteq Ids
      /\ \A i \in live' : i \in live \/ Used(i)'
  BY <1>2, PostingIs
<1>5. TypeOK'  BY <1>1, <1>4 DEF WatchInv, TypeOK
<1>6. PhaseOK'  BY <1>1, <1>3, <1>4 DEF WatchInv, PhaseOK, Holding, Shedders
<1>7. Cur' = Cur  BY <1>4 DEF Cur
<1>8. CurOK'
  <2>1. w.at = "rebook" => Cur.row.raw \in w.cuts  BY DEF WatchInv, CurOK
  <2>2. w.at = "pick" => Cur.row.status = "pending"  BY DEF WatchInv, CurOK
  <2> QED  BY <1>4, <1>7, <2>1, <2>2 DEF WatchInv, CurOK, Holding, Shedders
<1>9. RunBound'
  <2>1. \A i \in w.seen : Of(i, c)'  BY <1>2, <1>4, OfGrows DEF WatchInv, RunBound
  <2>2. \A i : i = w.new /\ i # 0 => Of(i, c)' /\ res'[i].by = "watch"  BY <1>2, <1>4, OfGrows DEF WatchInv, RunBound
  <2>3. \A i : i = w'.new /\ i # 0 => Of(i, c)' /\ res'[i].by = "watch"  BY <1>4, <2>2
  <2>4. w'.at # "extras"  BY <1>4
  <2> QED  BY <1>2, <1>4, <2>1, <2>3, <2>4 DEF RunBound, Of
<1> QED  BY <1>1, <1>4, <1>5, <1>6, <1>8, <1>9, UnderLease

LEMMA RebookStep ==
  ASSUME WatchInv, Rebook
  PROVE  WatchInv'
<1>1. PICK s \in w.cand : Posting(s, "write")  BY DEF Rebook
<1> QED  BY <1>1, PostingStep DEF Rebook

LEMMA PickStep ==
  ASSUME WatchInv, Pick
  PROVE  WatchInv'
<1>1. w.at = "pick" /\ w.at \in Holding /\ UNCHANGED <<Outside, row, led, snap, moved>>  BY DEF Pick, Holding
<1>2. w.cur \in Accounts /\ w \in RunType /\ w.cand \subseteq Slots  BY <1>1, CurHere DEF WatchInv, PhaseOK
<1>3. CASE w.cand # {}
  <2>1. PICK s \in w.cand : s = BestSlot(w.cur, w.cand)  BY <1>2, <1>3, BestSlotIn
  <2> QED  BY <1>1, <1>3, <2>1, PostingStep DEF Pick
<1>4. CASE w.cand = {}
  <2>1. w' = [w EXCEPT !.at = "write"] /\ UNCHANGED <<dry, frozen, u, b, row, led, snap, moved, res, live, cut, quit>>
    BY <1>4 DEF Pick, course, history, Outside, Crew
  <2>2. /\ w' \in RunType /\ w'.at = "write" /\ w'.pre = w.pre
        /\ w'.cur = w.cur /\ w'.todo = w.todo /\ w'.plan = w.plan /\ w'.seen = w.seen
        /\ w'.cuts = w.cuts /\ w'.new = w.new /\ w'.unsure = w.unsure
    BY <1>2, <2>1 DEF RunType, Phases
  <2>3. Grows /\ TypeOK'  BY <2>1, <2>2 DEF WatchInv, TypeOK, Grows
  <2>4. PhaseOK'  BY <1>1, <2>2 DEF WatchInv, PhaseOK, Holding, Shedders
  <2>5. Cur' = Cur  BY <2>2 DEF Cur
  <2>6. CurOK'  BY <1>1, <2>2, <2>5 DEF WatchInv, CurOK, Holding, Shedders
  <2>7. RunBound'  BY <1>1, <2>1, <2>2 DEF WatchInv, RunBound, Of
  <2> QED  BY <1>1, <2>1, <2>2, <2>3, <2>4, <2>6, <2>7, UnderLease
<1> QED  BY <1>3, <1>4

-----------------------------------------------------------------------------
(* The outcome of a row.                                                   *)

\* Entries about reservations of account a.
About(f, a) == EntriesOK(f) /\ \A i \in DOMAIN f : Of(i, a)

LEMMA AboutNone == ASSUME NEW a PROVE About(NoEntries, a)
BY NoEntriesType DEF About

LEMMA AboutEntries ==
  ASSUME NEW a, NEW S, \A i \in S : Of(i, a), NEW state \in Entry \ {"none"}
  PROVE  About(Entries(S, state), a)
<1>1. S \subseteq Ids  BY DEF Of
<1> QED  BY <1>1, EntriesType DEF About

LEMMA AboutPlus ==
  ASSUME NEW a, NEW f, NEW g, About(f, a), About(g, a)
  PROVE  About(Plus(f, g), a)
BY PlusType DEF About

LEMMA AboutLedgered ==
  ASSUME NEW a, NEW i, Of(i, a), NEW state \in Entry \ {"none"}
  PROVE  About(Ledgered(i, state), a)
BY AboutNone, AboutEntries DEF Ledgered

\* An outcome that may be written for account a whose row was r.
Writable(o, r, a) ==
    /\ OutcomeOK(o) /\ About(o.entries, a) /\ o.to # "user"
    /\ o.to = "booked" => Of(o.raw, a)
    /\ o.to = "external" => r.status = "booked"

LEMMA IsWritable ==
  ASSUME NEW a, NEW r, NEW to \in {"same", "pending", "booked", "external"}, NEW raw \in Ids \cup {0},
         NEW rec \in BOOLEAN, NEW clear \in BOOLEAN, NEW e, About(e, a),
         to = "booked" => Of(raw, a), to = "external" => r.status = "booked"
  PROVE  Writable(Outcome(to, raw, rec, clear, e), r, a)
BY DEF Writable, Outcome, OutcomeOK, About, Of

LEMMA EngineWrites ==
  ASSUME WatchInv, w.at = "write", w.pre = "engine", NEW k, k = 0 \/ k \in Survivors(Cur, w.cuts, w.seen)
  PROVE  Writable(EngineOutcome(Cur, k), Cur.row, w.cur)
<1>1. w.at \in Holding  BY DEF Holding
<1>2. PICK a \in Accounts : a = w.cur  BY <1>1, CurHere
<1>3. /\ Bound(Cur.row, a) /\ (\A i \in Cur.own : Of(i, a)) /\ w \in RunType /\ Cur \in PlanType
  BY <1>1, <1>2, CurHere
<1>4. k # 0 => Of(k, a)  BY <1>3 DEF Survivors
<1>5. w.new # 0 => Of(w.new, a)  BY <1>2 DEF WatchInv, RunBound
<1>6. w.new \in Ids \cup {0} /\ w.unsure \in BOOLEAN  BY <1>3 DEF RunType
<1>7. CASE Cur.row.status = "pending"
  <2>1. CASE w.new = 0
    <3>1. EngineOutcome(Cur, k) = Outcome("same", 0, w.unsure, FALSE, NoEntries)
      BY <1>7, <2>1 DEF EngineOutcome, PendingOutcome
    <3> QED  BY <1>2, <1>6, <3>1, AboutNone, IsWritable
  <2>2. CASE w.new # 0
    <3>1. EngineOutcome(Cur, k) = Outcome("booked", w.new, w.unsure, FALSE, Entries({w.new}, "held"))
      BY <1>7, <2>2 DEF EngineOutcome, PendingOutcome
    <3>2. About(Entries({w.new}, "held"), a)  BY <1>5, <2>2, AboutEntries DEF Entry
    <3> QED  BY <1>2, <1>5, <1>6, <2>2, <3>1, <3>2, IsWritable
  <2> QED  BY <2>1, <2>2
<1>8. CASE Cur.row.status # "pending"
  <2>1. Cur.row.status = "booked"  BY <1>1, <1>8 DEF WatchInv, RunHolds, Active
  <2>2. PICK old : old = Cur.row.raw /\ Of(old, a)  BY <1>3, <2>1 DEF Bound
  <2>3. PICK extras : extras = CutExtras(Cur, w.cuts)  OBVIOUS
  <2>4. About(extras, a)
    <3>1. \A i \in (Cur.own \cap w.cuts) \ {Cur.row.raw} : Of(i, a)  BY <1>3
    <3> QED  BY <2>3, <3>1, AboutEntries DEF CutExtras, Entry
  <2>5. PICK upgraded : upgraded = Plus(extras, Ledgered(old, "cancelled_upgrade"))  OBVIOUS
  <2>6. About(upgraded, a)  BY <2>2, <2>4, <2>5, AboutLedgered, AboutPlus DEF Entry
  <2>7. CASE old \notin w.cuts
    <3>1. PICK clear \in BOOLEAN : clear = (UpgradeAllowed(Cur) /\ ~dry)  OBVIOUS
    <3>2. EngineOutcome(Cur, k) = Outcome("same", 0, w.unsure, clear, extras)
      <4>1. Outcome("same", 0, w.unsure, UpgradeAllowed(Cur) /\ ~dry, extras) = Outcome("same", 0, w.unsure, clear, extras)
        BY <3>1, Zenon
      <4>2. EngineOutcome(Cur, k) = Outcome("same", 0, w.unsure, UpgradeAllowed(Cur) /\ ~dry, extras)
        BY <1>8, <2>2, <2>3, <2>7, Zenon DEF EngineOutcome, BookedOutcome
      <4> QED  BY <4>1, <4>2
    <3>3. Writable(Outcome("same", 0, w.unsure, clear, extras), Cur.row, a)  BY <1>6, <2>4, IsWritable
    <3> QED  BY <1>2, <3>2, <3>3, Zenon
  <2>8. CASE old \in w.cuts /\ w.new # 0
    <3>1. PICK e : e = Plus(upgraded, Entries({w.new}, "held"))  OBVIOUS
    <3>2. About(e, a)  BY <1>5, <2>6, <2>8, <3>1, AboutEntries, AboutPlus DEF Entry
    <3>3. EngineOutcome(Cur, k) = Outcome("booked", w.new, w.unsure, TRUE, e)
      BY <1>8, <2>2, <2>3, <2>5, <2>8, <3>1 DEF EngineOutcome, BookedOutcome
    <3> QED  BY <1>2, <1>5, <1>6, <2>8, <3>2, <3>3, IsWritable
  <2>9. CASE old \in w.cuts /\ w.new = 0 /\ k # 0
    <3>1. PICK e : e = Plus(Plus(extras, Ledgered(old, "cancelled_extra")), Entries({k}, "held"))  OBVIOUS
    <3>2. About(e, a)  BY <1>4, <2>2, <2>4, <2>9, <3>1, AboutEntries, AboutLedgered, AboutPlus DEF Entry
    <3>3. EngineOutcome(Cur, k) = Outcome("booked", k, FALSE, TRUE, e)
      BY <1>8, <2>2, <2>3, <2>9, <3>1 DEF EngineOutcome, BookedOutcome
    <3>4. k \in Ids  BY <1>4, <2>9 DEF Of
    <3> QED  BY <1>2, <1>4, <2>9, <3>2, <3>3, <3>4, IsWritable
  <2>10. CASE old \in w.cuts /\ w.new = 0 /\ k = 0
    <3>1. EngineOutcome(Cur, k) = Outcome("pending", 0, TRUE, TRUE, upgraded)
      BY <1>8, <2>2, <2>3, <2>5, <2>10 DEF EngineOutcome, BookedOutcome
    <3> QED  BY <1>2, <2>6, <3>1, IsWritable
  <2> QED  BY <2>7, <2>8, <2>9, <2>10
<1> QED  BY <1>7, <1>8

LEMMA SnapshotWrites ==
  ASSUME WatchInv, w.at = "write", w.pre # "engine", NEW i, w.pre = "adopt" => i \in Adoptable(Cur)
  PROVE  Writable(SnapshotOutcome(Cur, i), Cur.row, w.cur)
<1>1. w.at \in Holding /\ w.at \in Holding \ Shedders  BY DEF Holding, Shedders
<1>2. PICK a \in Accounts : a = w.cur  BY <1>1, CurHere
<1>3. w.pre \in {"adopt", "bot", "external"}
  <2>1. w.pre # "none"  BY <1>1 DEF WatchInv, PhaseOK
  <2> QED  BY <2>1 DEF WatchInv, TypeOK, RunType
<1>4. CASE w.pre = "adopt"
  <2>1. i \in w.seen  BY <1>4 DEF Adoptable
  <2>2. Of(i, a) /\ i \in Ids  BY <1>2, <2>1 DEF WatchInv, RunBound, Of
  <2>3. PICK e : e = IF i \notin Cur.own /\ Adopted(Cur, i) THEN Entries({i}, "held") ELSE NoEntries  OBVIOUS
  <2>4. About(e, a)
    <3>1. About(Entries({i}, "held"), a)  BY <2>2, AboutEntries DEF Entry
    <3> QED  BY <2>3, <3>1, AboutNone
  <2>5. SnapshotOutcome(Cur, i) = Outcome("booked", i, FALSE, TRUE, e)
    BY <1>4, <2>3 DEF SnapshotOutcome, AdoptOutcome
  <2> QED  BY <1>2, <2>2, <2>4, <2>5, IsWritable
<1>5. CASE w.pre = "bot"
  <2>1. SnapshotOutcome(Cur, i) = Outcome("pending", 0, TRUE, TRUE, NoEntries)  BY <1>5 DEF SnapshotOutcome
  <2> QED  BY <1>2, <2>1, AboutNone, IsWritable
<1>6. CASE w.pre = "external"
  <2>1. SnapshotOutcome(Cur, i) = Outcome("external", 0, FALSE, TRUE, NoEntries)  BY <1>6 DEF SnapshotOutcome
  <2>2. Cur.row.status = "booked"  BY <1>1, <1>6 DEF WatchInv, CurOK
  <2> QED  BY <1>2, <2>1, <2>2, AboutNone, IsWritable
<1> QED  BY <1>3, <1>4, <1>5, <1>6

LEMMA OutcomesWritable ==
  ASSUME WatchInv, w.at = "write", NEW o \in Outcomes
  PROVE  Writable(o, Cur.row, w.cur)
<1>1. CASE w.pre = "engine"
  <2>1. PICK surv : surv = Survivors(Cur, w.cuts, w.seen)  OBVIOUS
  <2>2. o \in {EngineOutcome(Cur, k) : k \in IF surv = {} THEN {0} ELSE surv}  BY <1>1, <2>1 DEF Outcomes
  <2>3. PICK k : (k = 0 \/ k \in surv) /\ o = EngineOutcome(Cur, k)  BY <2>2
  <2> QED  BY <1>1, <2>1, <2>3, EngineWrites
<1>2. CASE w.pre # "engine"
  <2>1. o \in {SnapshotOutcome(Cur, i) : i \in IF w.pre = "adopt" THEN Adoptable(Cur) ELSE {0}}
    BY <1>2 DEF Outcomes
  <2>2. PICK i : (w.pre = "adopt" => i \in Adoptable(Cur)) /\ o = SnapshotOutcome(Cur, i)  BY <2>1
  <2> QED  BY <1>2, <2>2, SnapshotWrites
<1> QED  BY <1>1, <1>2

\* A row as an accepted outcome leaves it, flagged or not.
Written(r, o, p, n) == \E m : Becomes(r, o, p, m) /\ (n = m \/ n = Flagged(m))

LEMMA WrittenIs ==
  ASSUME TypeOK, NEW r \in Row, NEW a \in Accounts, Bound(r, a), NEW o, Writable(o, r, a), NEW p, NEW n, Written(r, o, p, n),
         res' = res
  PROVE  /\ n \in Row /\ (SameBooking(r, n) \/ Bound(n, a)')
         /\ n.marker <=> (r.marker /\ ~o.clear)
         /\ n.lease = IF r.lease = p THEN "none" ELSE r.lease
<1>1. PICK m : Becomes(r, o, p, m) /\ (n = m \/ n = Flagged(m))  BY DEF Written
<1>2. m \in Row  BY <1>1 DEF Becomes
<1>3. n \in Row /\ SameBooking(m, n) /\ SameLease(m, n) /\ n.marker = m.marker
  <2>1. CASE n = m  BY <1>2, <2>1 DEF SameBooking, SameLease
  <2>2. CASE n = Flagged(m)  BY <1>2, <2>2, FlaggedIs
  <2> QED  BY <1>1, <2>1, <2>2
<1>4. n.marker <=> (r.marker /\ ~o.clear)  BY <1>1, <1>3 DEF Becomes
<1>5. n.lease = IF r.lease = p THEN "none" ELSE r.lease  BY <1>1, <1>3 DEF Becomes, SameLease
<1>6. o.to \in {"same", "pending", "booked", "external"}  BY DEF Writable, OutcomeOK
<1>7. CASE o.to = "same"  BY <1>1, <1>3, <1>4, <1>5, <1>7 DEF Becomes, SameBooking
<1>8. CASE o.to = "pending"
  <2>1. n.status = "pending" /\ n.raw = 0 /\ n.tee = 0  BY <1>1, <1>3, <1>8 DEF Becomes, SameBooking
  <2> QED  BY <1>3, <1>4, <1>5, <2>1 DEF Bound
<1>9. CASE o.to = "booked"
  <2>1. n.status = "booked" /\ n.raw = o.raw /\ n.tee = res[o.raw].slot  BY <1>1, <1>3, <1>9 DEF Becomes, SameBooking
  <2>2. Of(o.raw, a)  BY <1>9 DEF Writable
  <2>3. Bound(n, a)'  BY <2>1, <2>2 DEF Bound, Of
  <2> QED  BY <1>3, <1>4, <1>5, <2>3
<1>10. CASE o.to = "external"
  <2>1. n.status = "external" /\ n.raw = r.raw /\ n.tee = r.tee  BY <1>1, <1>3, <1>10 DEF Becomes, SameBooking
  <2>2. r.status = "booked"  BY <1>10 DEF Writable
  <2>3. Bound(n, a)'  BY <2>1, <2>2 DEF Bound, Of
  <2> QED  BY <1>3, <1>4, <1>5, <2>3
<1> QED  BY <1>6, <1>7, <1>8, <1>9, <1>10

\* What Write does to the row it holds.
LEMMA WriteIs ==
  ASSUME WatchInv, Write
  PROVE  \E n : /\ row' = [row EXCEPT ![w.cur] = n] /\ n \in Row
                /\ \/ /\ led' = led /\ w' = WIdle /\ "write" \in Faults
                      /\ n = Released(row[w.cur], "w")
                   \/ \E o \in Outcomes : /\ led' = Ledger(o) /\ w' = Onward(w)
                                          /\ Written(row[w.cur], o, "w", n)
                                          /\ "again" \notin Faults => Becomes(row[w.cur], o, "w", n)
<1>1. w.at = "write" /\ w.at \in Holding  BY DEF Write, Holding
<1>2. PICK a \in Accounts : a = w.cur /\ row[a] \in Row /\ row \in [Accounts -> Row]
  BY <1>1, CurHere DEF WatchInv, TypeOK
<1>3. row[a].lease = "w" /\ row[a].alive  BY <1>1, <1>2 DEF WatchInv, RunHolds
<1>4. PICK o \in Outcomes :
        \/ row' = Recorded(w.cur, o, "w") /\ led' = Ledger(o) /\ w' = Onward(w)
        \/ row' = RecordedTwice(w.cur, o, "w") /\ led' = Ledger(o) /\ w' = Onward(w) /\ "again" \in Faults
        \/ row' = [row EXCEPT ![w.cur] = Released(@, "w")] /\ w' = WIdle /\ led' = led /\ "write" \in Faults
  BY DEF Write, Mishap
<1>5. OutcomeOK(o)  BY <1>1, OutcomesWritable DEF Writable
<1>6. PICK m : m = OutcomeRow(row[a], o, "w")  OBVIOUS
<1>7. Becomes(row[a], o, "w", m)  BY <1>2, <1>5, <1>6, OutcomeRowIs DEF WatchInv
<1>8. m \in Row  BY <1>7 DEF Becomes
<1>9. CASE row' = Recorded(w.cur, o, "w") /\ led' = Ledger(o) /\ w' = Onward(w)
  <2>1. Accepted(row[a], o, "w")  BY <1>3 DEF Accepted
  <2>2. row' = [row EXCEPT ![a] = m]  BY <1>2, <1>6, <1>9, <2>1 DEF Recorded
  <2>3. Written(row[a], o, "w", m)  BY <1>7 DEF Written
  <2> QED  BY <1>2, <1>7, <1>8, <1>9, <2>2, <2>3
<1>10. CASE row' = RecordedTwice(w.cur, o, "w") /\ led' = Ledger(o) /\ w' = Onward(w) /\ "again" \in Faults
  <2>1. PICK n : n = IF o.to = "same" THEN m ELSE Flagged(m)  OBVIOUS
  <2>2. row' = [row EXCEPT ![a] = n]  BY <1>2, <1>6, <1>10, <2>1 DEF RecordedTwice
  <2>3. Written(row[a], o, "w", n)  BY <1>7, <2>1 DEF Written
  <2>4. n \in Row  BY <1>8, <2>1, FlaggedIs
  <2> QED  BY <1>2, <1>10, <2>2, <2>3, <2>4
<1>11. CASE row' = [row EXCEPT ![w.cur] = Released(@, "w")] /\ w' = WIdle /\ led' = led /\ "write" \in Faults
  <2>1. PICK n : n = Released(row[a], "w")  OBVIOUS
  <2>2. n \in Row  BY <1>2, <2>1, ReleasedIs
  <2>3. row' = [row EXCEPT ![a] = n]  BY <1>2, <1>11, <2>1
  <2> QED  BY <1>2, <1>11, <2>1, <2>2, <2>3
<1> QED  BY <1>4, <1>9, <1>10, <1>11

LEMMA WriteStep ==
  ASSUME WatchInv, Write
  PROVE  WatchInv'
<1>1. /\ UNCHANGED <<dry, frozen, u, b, res, live, snap, cut, quit>> /\ w.at = "write" /\ w.at \in Holding
      /\ moved' = Bump(row')
  BY DEF Write, Outside, Crew, course, history, Holding
<1>2. PICK a \in Accounts : /\ a = w.cur /\ row[a] \in Row /\ row \in [Accounts -> Row] /\ led \in [Ids -> Entry]
                            /\ w \in RunType /\ ~b[a].on
  BY <1>1, CurHere DEF WatchInv, TypeOK
<1>3. PICK n : /\ row' = [row EXCEPT ![a] = n] /\ n \in Row
               /\ \/ /\ led' = led /\ w' = WIdle
                     /\ n = Released(row[a], "w")
                  \/ \E o \in Outcomes : /\ led' = Ledger(o) /\ w' = Onward(w)
                                         /\ Written(row[a], o, "w", n)
  BY <1>2, WriteIs
<1>4. /\ row' \in [Accounts -> Row] /\ row'[a] = n /\ \A x \in Accounts : x # a => row'[x] = row[x]
  BY <1>2, <1>3
<1>5. Grows  BY <1>1 DEF Grows
<1>6. row[a].status = Cur.row.status /\ row[a].raw = Cur.row.raw /\ Active(row[a]) /\ Bound(row[a], a)
  BY <1>1, <1>2 DEF WatchInv, RunHolds, RowsBound
<1>7. /\ SameBooking(row[a], n) \/ Bound(n, a)'
      /\ led' \in [Ids -> Entry] /\ \A i \in Ids : led'[i] = led[i] \/ Used(i)
      /\ MovesOn(w, w')
  <2>1. CASE led' = led /\ w' = WIdle /\ n = Released(row[a], "w")
    <3>1. SameBooking(row[a], n)  BY <1>2, <2>1, ReleasedIs
    <3>2. MovesOn(w, w')  BY <1>2, <2>1, IdleMovesOn
    <3> QED  BY <1>2, <2>1, <3>1, <3>2
  <2>2. ASSUME NEW o \in Outcomes, led' = Ledger(o), w' = Onward(w), Written(row[a], o, "w", n)
        PROVE  /\ SameBooking(row[a], n) \/ Bound(n, a)'
               /\ led' \in [Ids -> Entry] /\ \A i \in Ids : led'[i] = led[i] \/ Used(i)
               /\ MovesOn(w, w')
    <3>1. Writable(o, Cur.row, a)  BY <1>1, <1>2, OutcomesWritable
    <3>2. Writable(o, row[a], a)  BY <1>6, <3>1 DEF Writable
    <3>3. SameBooking(row[a], n) \/ Bound(n, a)'  BY <1>1, <1>2, <1>6, <2>2, <3>2, WrittenIs DEF WatchInv
    <3>4. MovesOn(w, w')  BY <1>2, <2>2, OnwardMovesOn
    <3>5. led' \in [Ids -> Entry] /\ \A i \in Ids : led'[i] = led[i] \/ i \in DOMAIN o.entries
      BY <2>2, <3>1, LedgerType DEF WatchInv, Writable
    <3>6. \A i \in DOMAIN o.entries : Used(i)  BY <1>2, <3>1 DEF Writable, About, Of, Used, NoRes, Accounts
    <3> QED  BY <3>3, <3>4, <3>5, <3>6
  <2> QED  BY <1>3, <2>1, <2>2
<1>8. moved' \subseteq {"w", "u"} \X Accounts
      /\ \A x \in Accounts : Fresh("w", x)' => Fresh("w", x) /\ Version(row'[x]) = Version(row[x])
  BY <1>1, BumpMarks DEF WatchInv
<1>9. TypeOK'  BY <1>1, <1>4, <1>7, <1>8 DEF WatchInv, TypeOK, MovesOn, Resting
<1>10. \A x \in Accounts : SameBooking(row[x], row'[x]) \/ (Bound(row[x], x)' /\ Active(row[x]))
  <2> TAKE x \in Accounts
  <2>1. CASE x = a
    <3>1. Bound(n, a)' => Bound(row[x], x)'  BY <1>4, <2>1 DEF Bound, Of
    <3> QED  BY <1>4, <1>6, <1>7, <2>1, <3>1
  <2>2. CASE x # a  BY <1>4, <2>2 DEF SameBooking
  <2> QED  BY <2>1, <2>2
<1>11. \A x \in Accounts : b[x].on => SameLease(row[x], row'[x]) /\ SameBooking(row[x], row'[x])
  BY <1>2, <1>4 DEF SameLease, SameBooking
<1> QED  BY <1>1, <1>5, <1>7, <1>8, <1>9, <1>10, <1>11, MovingOn

-----------------------------------------------------------------------------
(* The collapse of the group.                                              *)

LEMMA SheddingMovesOn ==
  ASSUME NEW x \in RunType, NEW a \in Accounts, x.seen = {}, x.cuts = {}, x.new = 0, ~x.unsure
  PROVE  MovesOn(x, Shedding(x, a)) /\ Shedding(x, a).todo \subseteq x.todo \ {a}
<1>1. CASE x.todo = {a}
  <2>1. Shedding(x, a) = WIdle /\ WIdle.todo = {}  BY <1>1 DEF Shedding, WIdle
  <2> QED  BY <2>1, IdleMovesOn
<1>2. CASE x.todo # {a}
  <2>1. NoPlan \in PlanType  BY DEF NoPlan, NewRow, PlanType, Row, States
  <2>2. PICK plan : plan = [x.plan EXCEPT ![a] = NoPlan]  OBVIOUS
  <2>3. plan \in [Accounts -> PlanType] /\ \A y \in Accounts : plan[y] = IF y = a THEN NoPlan ELSE x.plan[y]
    BY <2>1, <2>2 DEF RunType
  <2>4. PICK todo \in SUBSET Accounts : todo = x.todo \ {a}  BY DEF RunType
  <2>5. PICK y : y = [x EXCEPT !.at = "shed", !.todo = todo, !.plan = plan]  OBVIOUS
  <2>6. Shedding(x, a) = y  BY <1>2, <2>2, <2>4, <2>5 DEF Shedding
  <2>7. /\ y \in RunType /\ y.at = "shed" /\ y.todo = todo /\ y.plan = plan
        /\ y.seen = {} /\ y.cuts = {} /\ y.new = 0 /\ ~y.unsure
    BY <2>3, <2>4, <2>5 DEF RunType, Phases
  <2>8. MovesOn(x, y)  BY <2>3, <2>4, <2>7 DEF MovesOn, Resting
  <2> QED  BY <2>4, <2>6, <2>7, <2>8
<1> QED  BY <1>1, <1>2

LEMMA CollapseStep ==
  ASSUME WatchInv, Collapse
  PROVE  WatchInv'
<1>1. UNCHANGED <<dry, frozen, u, b, res, live, row, led, snap, cut, quit>> /\ w.at = "collapse"
  BY DEF Collapse, Outside, Crew, course, history
<1>2. w \in RunType /\ row \in [Accounts -> Row]  BY DEF WatchInv, TypeOK
<1>3. PICK worse : worse = Worse  OBVIOUS
<1>4. CASE ~Grouped \/ worse = {}
  <2>1. w' = WIdle /\ UNCHANGED moved  BY <1>3, <1>4 DEF Collapse
  <2>2. MovesOn(w, w')  BY <1>2, <2>1, IdleMovesOn
  <2> QED  BY <1>1, <2>1, <2>2, JustMovesOn DEF Outside, Crew, course, history
<1>5. CASE ~(~Grouped \/ worse = {})
  <2>1. PICK plan : plan = [a \in Accounts |-> [NoPlan EXCEPT !.row = row[a], !.own = OwnOf(a)]]  OBVIOUS
  <2>2. PICK shut \in SUBSET Accounts :
          /\ w' = [WIdle EXCEPT !.at = "shed", !.todo = worse, !.sess = Accounts \ shut, !.plan = plan]
          /\ moved' = moved \ ({"w"} \X Accounts)
    BY <1>3, <1>5, <2>1 DEF Collapse
  <2>3. worse \subseteq Accounts  BY <1>3 DEF Worse, Bookeds
  <2>4. \A a \in Accounts : plan[a] \in PlanType /\ plan[a].row = row[a] /\ plan[a].own = OwnOf(a)
    <3> TAKE a \in Accounts
    <3>1. plan[a] = [NoPlan EXCEPT !.row = row[a], !.own = OwnOf(a)]  BY <2>1
    <3>2. row[a] \in Row /\ OwnOf(a) \subseteq Ids  BY <1>2 DEF OwnOf
    <3> QED  BY <3>1, <3>2 DEF PlanType, NoPlan
  <2>5. plan \in [Accounts -> PlanType]
    <3>1. DOMAIN plan = Accounts /\ plan = [a \in DOMAIN plan |-> plan[a]]  BY <2>1
    <3> QED  BY <2>4, <3>1
  <2>6. Accounts \ shut \in SUBSET Accounts  OBVIOUS
  <2>7. /\ w' \in RunType /\ w'.at = "shed" /\ w'.todo = worse /\ w'.plan = plan
        /\ w'.seen = {} /\ w'.cuts = {} /\ w'.new = 0 /\ ~w'.unsure
    BY <2>2, <2>3, <2>5, <2>6 DEF WIdle, RunType, Phases
  <2>8. Resting(w')  BY <2>7 DEF Resting
  <2>9. PhaseOK' /\ CurOK' /\ RunBound' /\ RunHolds'  BY <2>8, RestingRun
  <2>10. Grows  BY <1>1 DEF Grows
  <2>11. TypeOK'
    <3>1. moved' \subseteq {"w", "u"} \X Accounts  BY <2>2 DEF WatchInv, TypeOK
    <3> QED  BY <1>1, <2>7, <3>1 DEF WatchInv, TypeOK
  <2>12. RowsBound' /\ CrewBound' /\ AllUsed' /\ BookerHolds' /\ QuitOK'
    BY <1>1, <2>10, <2>11, WatcherStep DEF SameBooking, SameLease
  <2>13. PlansBound'
    <3> SUFFICES ASSUME NEW a \in Accounts
                 PROVE Bound(plan[a].row, a)' /\ \A i \in plan[a].own : Of(i, a)'
      BY <2>7 DEF PlansBound
    <3>1. Bound(row[a], a)  BY DEF WatchInv, RowsBound
    <3>2. \A i \in OwnOf(a) : Of(i, a)  BY DEF OwnOf, Of
    <3> QED  BY <1>1, <2>4, <3>1, <3>2 DEF Bound, Of
  <2>14. ReadOK'  BY <1>1, <2>3, <2>4, <2>7 DEF ReadOK
  <2> QED  BY <2>9, <2>11, <2>12, <2>13, <2>14 DEF WatchInv
<1> QED  BY <1>4, <1>5

\* A note without a lease may flag the row, nothing more.
LEMMA NoteIs ==
  ASSUME TypeOK, NEW a \in Accounts, MarkDoubleHeld(a)
  PROVE  \E n : /\ row' = [row EXCEPT ![a] = n] /\ n \in Row /\ SameBooking(row[a], n) /\ SameLease(row[a], n)
                /\ n.marker = row[a].marker
<1>1. row \in [Accounts -> Row] /\ row[a] \in Row  BY DEF TypeOK
<1>2. CASE row' = row  BY <1>1, <1>2 DEF SameBooking, SameLease
<1>3. CASE row' = Recorded(a, Outcome("same", 0, FALSE, FALSE, NoEntries), "note")
  <2>1. PICK o : o = Outcome("same", 0, FALSE, FALSE, NoEntries)  OBVIOUS
  <2>2. OutcomeOK(o) /\ o.to = "same" /\ ~o.clear  BY <2>1, NoEntriesType DEF OutcomeOK, Outcome
  <2>3. PICK n : n = IF Accepted(row[a], o, "note") THEN OutcomeRow(row[a], o, "note") ELSE Flagged(row[a])  OBVIOUS
  <2>4. row' = [row EXCEPT ![a] = n]  BY <1>1, <1>3, <2>1, <2>3 DEF Recorded
  <2>5. CASE Accepted(row[a], o, "note")
    <3>1. Becomes(row[a], o, "note", n)  BY <1>1, <2>2, <2>3, <2>5, OutcomeRowIs
    <3>2. row[a].lease # "note"  BY <1>1 DEF Row
    <3>3. n \in Row /\ n.status = row[a].status /\ n.raw = row[a].raw /\ n.tee = row[a].tee /\ n.lease = row[a].lease
      BY <2>2, <3>1, <3>2 DEF Becomes
    <3>4. (n.alive <=> row[a].alive) /\ (n.marker <=> row[a].marker)  BY <2>2, <3>1, <3>2 DEF Becomes
    <3>5. n.alive = row[a].alive /\ n.marker = row[a].marker  BY <1>1, <3>3, <3>4 DEF Row
    <3> QED  BY <2>4, <3>3, <3>5 DEF SameBooking, SameLease
  <2>6. CASE ~Accepted(row[a], o, "note")
    <3>1. n = Flagged(row[a])  BY <2>3, <2>6
    <3> QED  BY <1>1, <2>4, <3>1, FlaggedIs
  <2> QED  BY <2>5, <2>6
<1> QED  BY <1>2, <1>3 DEF MarkDoubleHeld

LEMMA ShedStep ==
  ASSUME WatchInv, Shed
  PROVE  WatchInv'
<1>1. UNCHANGED <<dry, frozen, u, b, res, live, led, snap, cut, quit>> /\ w.at = "shed" /\ moved' = Bump(row')
  BY DEF Shed, Outside, Crew, course, history
<1>2. w \in RunType /\ row \in [Accounts -> Row]  BY DEF WatchInv, TypeOK
<1>3. w.seen = {} /\ w.cuts = {} /\ w.new = 0 /\ ~w.unsure  BY <1>1 DEF WatchInv, PhaseOK, Holding, Shedders
<1>4. PICK a \in w.todo :
        LET p == w.plan[a]
            owned == p.row.raw \in p.own
            claims == owned /\ ~dry /\ a \in w.sess /\ Free(row[a]) /\ Fresh("w", a)
        IN  \/ /\ claims /\ Fine
               /\ row' = [row EXCEPT ![a] = [Leased(@, "w") EXCEPT !.marker = TRUE]]
               /\ w' = [w EXCEPT !.at = "shedcancel", !.cur = a]
            \/ /\ ~claims
               /\ IF owned \/ dry THEN Fine /\ UNCHANGED row ELSE MarkDoubleHeld(a)
               /\ w' = Shedding(w, a)
  BY DEF Shed
<1>5. a \in Accounts /\ row[a] \in Row /\ w.plan[a] \in PlanType  BY <1>2 DEF RunType
<1>6. Grows  BY <1>1 DEF Grows
<1>7. moved' \subseteq {"w", "u"} \X Accounts
      /\ \A x \in Accounts : Fresh("w", x)' => Fresh("w", x) /\ Version(row'[x]) = Version(row[x])
  BY <1>1, BumpMarks DEF WatchInv
<1>8. CASE w' = Shedding(w, a) /\ (UNCHANGED row \/ MarkDoubleHeld(a))
  <2>1. MovesOn(w, w')  BY <1>2, <1>3, <1>5, <1>8, SheddingMovesOn
  <2>2. row' \in [Accounts -> Row] /\ \A x \in Accounts : SameBooking(row[x], row'[x]) /\ SameLease(row[x], row'[x])
    <3>1. CASE UNCHANGED row  BY <1>2, <3>1 DEF SameBooking, SameLease
    <3>2. CASE MarkDoubleHeld(a)
      <4>1. PICK n : row' = [row EXCEPT ![a] = n] /\ n \in Row /\ SameBooking(row[a], n) /\ SameLease(row[a], n)
        BY <1>5, <3>2, NoteIs DEF WatchInv
      <4> QED  BY <1>2, <1>5, <4>1 DEF SameBooking, SameLease
    <3> QED  BY <1>8, <3>1, <3>2
  <2>3. TypeOK'  BY <1>1, <1>7, <2>1, <2>2 DEF WatchInv, TypeOK, MovesOn, Resting
  <2> QED  BY <1>1, <1>6, <1>7, <2>1, <2>2, <2>3, MovingOn
<1>9. CASE /\ w.plan[a].row.raw \in w.plan[a].own /\ Free(row[a]) /\ Fresh("w", a)
           /\ row' = [row EXCEPT ![a] = [Leased(@, "w") EXCEPT !.marker = TRUE]]
           /\ w' = [w EXCEPT !.at = "shedcancel", !.cur = a]
  <2>1. /\ row' \in [Accounts -> Row] /\ \A x \in Accounts : x # a => row'[x] = row[x]
        /\ SameBooking(row[a], row'[a]) /\ row'[a].reconcile = row[a].reconcile
        /\ row'[a].lease = "w" /\ row'[a].alive
    BY <1>2, <1>5, <1>9 DEF Row, SameBooking, Leased
  <2>2. /\ w' \in RunType /\ w'.at = "shedcancel" /\ w'.cur = a /\ w'.todo = w.todo /\ w'.plan = w.plan
        /\ w'.seen = {} /\ w'.cuts = {} /\ w'.new = 0 /\ ~w'.unsure /\ w'.pre = w.pre
    BY <1>2, <1>3, <1>5, <1>9 DEF RunType, Phases
  <2>3. TypeOK'  BY <1>1, <1>7, <2>1, <2>2 DEF WatchInv, TypeOK
  <2>4. Version(w.plan[a].row) = Version(row[a])  BY <1>9 DEF WatchInv, ReadOK
  <2>5. w.plan[a].row.status = row[a].status /\ w.plan[a].row.raw = row[a].raw  BY <2>4 DEF Version
  <2>6. w.plan[a].row.status = "booked"
    <3>1. Bound(w.plan[a].row, a) /\ \A i \in w.plan[a].own : Of(i, a)  BY <1>5 DEF WatchInv, PlansBound
    <3>2. w.plan[a].row.raw # 0  BY <1>9, <3>1, WatchAssumption DEF Of, Ids
    <3> QED  BY <1>9, <2>5, <3>1, <3>2 DEF Free, Bound
  <2>7. ~b[a].on  BY <1>5, <1>9 DEF WatchInv, BookerHolds, Free, Held
  <2>8. \A x \in Accounts : b[x].on => SameLease(row[x], row'[x]) /\ SameBooking(row[x], row'[x])
    BY <2>1, <2>7 DEF SameLease, SameBooking
  <2>9. \A x \in Accounts : SameBooking(row[x], row'[x])  BY <2>1 DEF SameBooking
  <2>10. RowsBound' /\ CrewBound' /\ AllUsed' /\ BookerHolds' /\ QuitOK'
    BY <1>1, <1>6, <2>3, <2>8, <2>9, WatcherStep
  <2>11. PlansBound'  BY <1>6, <2>2, PlansStay DEF WatchInv
  <2>12. PhaseOK'  BY <1>1, <2>2 DEF WatchInv, PhaseOK, Holding, Shedders
  <2>13. Cur' = w.plan[a]  BY <2>2 DEF Cur
  <2>14. CurOK'  BY <2>2, <2>6, <2>13 DEF CurOK, Holding, Shedders
  <2>15. RunBound'  BY <2>2 DEF RunBound
  <2>16. RunHolds'  BY <2>1, <2>2, <2>5, <2>6, <2>13 DEF RunHolds, Active, SameBooking
  <2>17. ReadOK'
    <3>1. w.todo \subseteq Accounts  BY <1>2 DEF RunType
    <3> QED  BY <1>7, <2>2, <3>1, ReadsStay DEF WatchInv
  <2> QED  BY <2>3, <2>10, <2>11, <2>12, <2>14, <2>15, <2>16, <2>17 DEF WatchInv
<1> QED  BY <1>4, <1>8, <1>9

LEMMA ShedCancelStep ==
  ASSUME WatchInv, ShedCancel
  PROVE  WatchInv'
<1>1. UNCHANGED <<dry, frozen, u, b, led, snap, moved>> /\ w.at = "shedcancel" /\ w.at \in Holding
  BY DEF ShedCancel, Outside, Crew, Holding, Shedders
<1>2. PICK a \in Accounts : /\ a = w.cur /\ row[a] \in Row /\ row \in [Accounts -> Row] /\ w \in RunType /\ ~b[a].on
  BY <1>1, CurHere DEF WatchInv, TypeOK
<1>3. w.seen = {} /\ w.cuts = {} /\ w.new = 0 /\ ~w.unsure  BY <1>1 DEF WatchInv, PhaseOK, Holding, Shedders
<1>4. PICK answer \in CancelAnswers :
        /\ Cancelling(w.plan[a].row.raw, answer)
        /\ IF answer = "ok"
           THEN /\ w' = [w EXCEPT !.at = "shedwrite"]
                /\ UNCHANGED row
           ELSE /\ w' = IF answer = "throttle" THEN WIdle ELSE Shedding(w, a)
                /\ row' = [row EXCEPT ![a] = Released(@, "w")]
  BY <1>2 DEF ShedCancel
<1>5. /\ res' = res /\ quit' = quit /\ Grows /\ live' \subseteq Ids /\ cut' \subseteq Ids
      /\ \A j \in live' \cup cut' : j \in live \cup cut \/ Used(j)'
  BY <1>4, CancellingIs
<1>6. CASE answer = "ok"
  <2>1. w' = [w EXCEPT !.at = "shedwrite"] /\ UNCHANGED row  BY <1>4, <1>6
  <2>2. /\ w' \in RunType /\ w'.at = "shedwrite" /\ w'.pre = w.pre
        /\ w'.cur = w.cur /\ w'.todo = w.todo /\ w'.plan = w.plan /\ w'.seen = w.seen
        /\ w'.cuts = w.cuts /\ w'.new = w.new /\ w'.unsure = w.unsure
    BY <1>2, <2>1 DEF RunType, Phases
  <2>3. TypeOK'  BY <1>1, <1>5, <2>1, <2>2 DEF WatchInv, TypeOK
  <2>4. PhaseOK'  BY <1>1, <2>2 DEF WatchInv, PhaseOK, Holding, Shedders
  <2>5. Cur' = Cur  BY <2>2 DEF Cur
  <2>6. CurOK'  BY <1>1, <1>3, <2>2, <2>5 DEF WatchInv, CurOK, Holding, Shedders
  <2>7. RunBound'  BY <1>3, <2>2 DEF RunBound
  <2> QED  BY <1>1, <1>5, <2>1, <2>2, <2>3, <2>4, <2>6, <2>7, UnderLease
<1>7. CASE answer # "ok"
  <2>1. PICK n : n = Released(row[a], "w")  OBVIOUS
  <2>2. n \in Row /\ SameBooking(row[a], n) /\ n.reconcile = row[a].reconcile  BY <1>2, <2>1, ReleasedIs
  <2>3. row' = [row EXCEPT ![a] = n]  BY <1>2, <1>4, <1>7, <2>1
  <2>4. /\ row' \in [Accounts -> Row] /\ row'[a] = n /\ \A x \in Accounts : x # a => row'[x] = row[x]
    BY <1>2, <2>2, <2>3
  <2>5. MovesOn(w, w')  BY <1>2, <1>3, <1>4, <1>7, IdleMovesOn, SheddingMovesOn
  <2>6. TypeOK'  BY <1>1, <1>5, <2>4, <2>5 DEF WatchInv, TypeOK, MovesOn, Resting
  <2>7. \A x \in Accounts : SameBooking(row[x], row'[x]) /\ row'[x].reconcile = row[x].reconcile
    BY <2>2, <2>4 DEF SameBooking
  <2>8. \A x \in Accounts : b[x].on => SameLease(row[x], row'[x])  BY <1>2, <2>4 DEF SameLease
  <2> QED  BY <1>1, <1>5, <2>5, <2>6, <2>7, <2>8, MovingOn DEF SameBooking, Fresh, Version
<1> QED  BY <1>6, <1>7

\* What ShedWrite does to the row it holds.
ShedOutcome(raw) == Outcome("pending", 0, FALSE, TRUE, Entries({raw}, "cancelled_group"))

LEMMA ShedWriteIs ==
  ASSUME WatchInv, ShedWrite
  PROVE  \E n : /\ row' = [row EXCEPT ![w.cur] = n] /\ n \in Row
                /\ \/ led' = led /\ n = Released(row[w.cur], "w") /\ "write" \in Faults
                   \/ led' = Ledger(ShedOutcome(Cur.row.raw)) /\ Written(row[w.cur], ShedOutcome(Cur.row.raw), "w", n)
                /\ Writable(ShedOutcome(Cur.row.raw), Cur.row, w.cur)
<1>1. w.at = "shedwrite" /\ w.at \in Holding  BY DEF ShedWrite, Holding, Shedders
<1>2. PICK a \in Accounts : a = w.cur /\ row[a] \in Row /\ row \in [Accounts -> Row] /\ Cur = w.plan[a] /\ Bound(Cur.row, a)
  BY <1>1, CurHere DEF WatchInv, TypeOK
<1>3. row[a].lease = "w" /\ row[a].alive  BY <1>1, <1>2 DEF WatchInv, RunHolds
<1>4. PICK o : o = ShedOutcome(Cur.row.raw)  OBVIOUS
<1>5. Writable(o, Cur.row, a) /\ o.to = "pending"
  <2>1. Of(Cur.row.raw, a)  BY <1>1, <1>2 DEF WatchInv, CurOK, Shedders, Bound
  <2>2. About(Entries({Cur.row.raw}, "cancelled_group"), a)  BY <2>1, AboutEntries DEF Entry
  <2>3. o.to = "pending"  BY <1>4 DEF ShedOutcome, Outcome
  <2> QED  BY <1>2, <1>4, <2>2, <2>3, IsWritable DEF ShedOutcome
<1>6. \/ row' = Recorded(a, o, "w") /\ led' = Ledger(o)
      \/ row' = [row EXCEPT ![a] = Released(@, "w")] /\ led' = led /\ "write" \in Faults
  BY <1>2, <1>4 DEF ShedWrite, ShedOutcome, Mishap
<1>7. PICK m : m = OutcomeRow(row[a], o, "w")  OBVIOUS
<1>8. Becomes(row[a], o, "w", m)  BY <1>2, <1>5, <1>7, OutcomeRowIs DEF WatchInv, Writable
<1>9. CASE row' = Recorded(a, o, "w") /\ led' = Ledger(o)
  <2>1. Accepted(row[a], o, "w")  BY <1>3 DEF Accepted
  <2>2. row' = [row EXCEPT ![a] = m]  BY <1>2, <1>7, <1>9, <2>1 DEF Recorded
  <2>3. Written(row[a], o, "w", m) /\ m \in Row  BY <1>8 DEF Written, Becomes
  <2> QED  BY <1>2, <1>4, <1>5, <1>9, <2>2, <2>3
<1>10. CASE row' = [row EXCEPT ![a] = Released(@, "w")] /\ led' = led /\ "write" \in Faults
  <2>1. PICK n : n = Released(row[a], "w")  OBVIOUS
  <2>2. n \in Row /\ row' = [row EXCEPT ![a] = n]  BY <1>2, <1>10, <2>1, ReleasedIs
  <2> QED  BY <1>2, <1>4, <1>5, <1>10, <2>1, <2>2
<1> QED  BY <1>6, <1>9, <1>10

LEMMA ShedWriteStep ==
  ASSUME WatchInv, ShedWrite
  PROVE  WatchInv'
<1>1. /\ UNCHANGED <<dry, frozen, u, b, res, live, snap, cut, quit>> /\ w.at = "shedwrite" /\ w.at \in Holding
      /\ moved' = Bump(row') /\ w' = Shedding(w, w.cur)
  BY DEF ShedWrite, Outside, Crew, course, history, Holding, Shedders
<1>2. PICK a \in Accounts : /\ a = w.cur /\ row[a] \in Row /\ row \in [Accounts -> Row] /\ led \in [Ids -> Entry]
                            /\ w \in RunType /\ ~b[a].on
  BY <1>1, CurHere DEF WatchInv, TypeOK
<1>3. PICK o, n : /\ row' = [row EXCEPT ![a] = n] /\ n \in Row
                  /\ \/ led' = led /\ n = Released(row[a], "w")
                     \/ led' = Ledger(o) /\ Written(row[a], o, "w", n)
                  /\ Writable(o, Cur.row, a)
  BY <1>2, ShedWriteIs
<1>4. /\ row' \in [Accounts -> Row] /\ row'[a] = n /\ \A x \in Accounts : x # a => row'[x] = row[x]
  BY <1>2, <1>3
<1>5. Grows  BY <1>1 DEF Grows
<1>6. row[a].status = Cur.row.status /\ Active(row[a]) /\ Bound(row[a], a)
  BY <1>1, <1>2 DEF WatchInv, RunHolds, RowsBound
<1>7. /\ SameBooking(row[a], n) \/ Bound(n, a)'
      /\ led' \in [Ids -> Entry] /\ \A i \in Ids : led'[i] = led[i] \/ Used(i)
  <2>1. CASE led' = led /\ n = Released(row[a], "w")
    <3>1. SameBooking(row[a], n)  BY <1>2, <2>1, ReleasedIs
    <3> QED  BY <1>2, <2>1, <3>1
  <2>2. CASE led' = Ledger(o) /\ Written(row[a], o, "w", n)
    <3>1. Writable(o, row[a], a)  BY <1>3, <1>6 DEF Writable
    <3>2. SameBooking(row[a], n) \/ Bound(n, a)'  BY <1>1, <1>2, <1>6, <2>2, <3>1, WrittenIs DEF WatchInv
    <3>3. led' \in [Ids -> Entry] /\ \A i \in Ids : led'[i] = led[i] \/ i \in DOMAIN o.entries
      BY <2>2, <3>1, LedgerType DEF WatchInv, Writable
    <3>4. \A i \in DOMAIN o.entries : Used(i)  BY <3>1 DEF Writable, About, Of, Used, NoRes, Accounts
    <3> QED  BY <3>2, <3>3, <3>4
  <2> QED  BY <1>3, <2>1, <2>2
<1>8. w.seen = {} /\ w.cuts = {} /\ w.new = 0 /\ ~w.unsure  BY <1>1 DEF WatchInv, PhaseOK, Holding, Shedders
<1>9. MovesOn(w, w')  BY <1>1, <1>2, <1>8, SheddingMovesOn
<1>10. moved' \subseteq {"w", "u"} \X Accounts
       /\ \A x \in Accounts : Fresh("w", x)' => Fresh("w", x) /\ Version(row'[x]) = Version(row[x])
  BY <1>1, BumpMarks DEF WatchInv
<1>11. TypeOK'  BY <1>1, <1>4, <1>7, <1>9, <1>10 DEF WatchInv, TypeOK, MovesOn, Resting
<1>12. \A x \in Accounts : SameBooking(row[x], row'[x]) \/ (Bound(row[x], x)' /\ Active(row[x]))
  <2> TAKE x \in Accounts
  <2>1. CASE x = a
    <3>1. Bound(n, a)' => Bound(row[x], x)'  BY <1>4, <2>1 DEF Bound, Of
    <3> QED  BY <1>4, <1>6, <1>7, <2>1, <3>1
  <2>2. CASE x # a  BY <1>4, <2>2 DEF SameBooking
  <2> QED  BY <2>1, <2>2
<1>13. \A x \in Accounts : b[x].on => SameLease(row[x], row'[x]) /\ SameBooking(row[x], row'[x])
  BY <1>2, <1>4 DEF SameLease, SameBooking
<1> QED  BY <1>1, <1>5, <1>7, <1>9, <1>10, <1>11, <1>12, <1>13, MovingOn

-----------------------------------------------------------------------------
(* The invariant, and that a cancel the user asked for is final.           *)

LEMMA InitInv == WInit => WatchInv
<1> SUFFICES ASSUME WInit PROVE WatchInv  OBVIOUS
<1>1. NewRow \in Row  BY DEF NewRow, Row, States
<1>2. WIdle \in RunType
  <2>1. NoPlan \in PlanType  BY <1>1 DEF NoPlan, PlanType
  <2> QED  BY <2>1 DEF WIdle, RunType, Phases
<1>3. UIdle \in WebType /\ BIdle \in BookerType /\ NoRes \in ResType /\ "none" \in Entry
  BY DEF UIdle, WebType, BIdle, BookerType, ResType, Entry
<1>4. dry \in BOOLEAN  BY WatchAssumption DEF WInit
<1>5. TypeOK  BY <1>1, <1>2, <1>3, <1>4 DEF WInit, TypeOK
<1>6. PhaseOK /\ CurOK /\ RunBound /\ RunHolds /\ ReadOK
  BY DEF WInit, WIdle, PhaseOK, CurOK, RunBound, RunHolds, ReadOK, Holding, Shedders
<1>7. RowsBound /\ PlansBound  BY DEF WInit, WIdle, NoPlan, NewRow, RowsBound, PlansBound, Bound
<1>8. CrewBound /\ BookerHolds  BY DEF WInit, UIdle, BIdle, CrewBound, BookerHolds
<1>9. AllUsed /\ QuitOK  BY DEF WInit, AllUsed, QuitOK
<1> QED  BY <1>5, <1>6, <1>7, <1>8, <1>9 DEF WatchInv

LEMMA Stutters == ASSUME WatchInv, UNCHANGED vars PROVE WatchInv'
<1>1. UNCHANGED <<dry, frozen, res, live, row, led, snap, moved, w, u, b, cut, quit>>  BY DEF vars
<1>2. Grows  BY <1>1 DEF Grows
<1>3. TypeOK'  BY <1>1 DEF WatchInv, TypeOK
<1>4. CrewBound'  BY <1>1, <1>2, CrewStays DEF WatchInv
<1>5. AllUsed'  BY <1>1, <1>2, UsedStay DEF WatchInv
<1>6. BookerHolds'  BY <1>1, BookerHoldsOn DEF WatchInv, SameLease, SameBooking
<1>7. QuitOK'  BY <1>1, <1>2, QuitStays DEF WatchInv
<1> QED  BY <1>1, <1>2, <1>3, <1>4, <1>5, <1>6, <1>7, BesideRun DEF SameLease, SameBooking, Fresh

LEMMA EveryStep == ASSUME WatchInv, [WNext]_vars PROVE WatchInv'
<1>1. CASE UNCHANGED vars  BY <1>1, Stutters
<1>2. CASE Watching
  BY <1>2, BeginStep, PlanStep, LoginStep, ActStep, ReleaseStep, MarkStep, CancelExtraStep, UpgradeStep,
     RebookStep, PickStep, WriteStep, CollapseStep, ShedStep, ShedCancelStep, ShedWriteStep DEF Watching
<1>3. CASE SearchThrottled \/ LoginFails \/ LoginThrottled \/ WatcherDies  BY <1>3, RunEndsStep, LoginFailsStep
<1>4. CASE WebCancel \/ WebWrite \/ CutoffPasses  BY <1>4, WebCancelStep, WebWriteStep, CutoffStep
<1>5. ASSUME NEW a \in Accounts,
             \/ WebLease(a) \/ Expire(a) \/ HandBook(a)
             \/ BookerClaim(a) \/ BookerPost(a) \/ BookerEnd(a) \/ BookerDies(a)
      PROVE  WatchInv'
  BY <1>5, WebLeaseStep, ExpireStep, HandBookStep, BookerClaimStep, BookerPostStep, BookerEndStep, BookerDiesStep
<1>6. ASSUME NEW i \in Ids, HandCancel(i) PROVE WatchInv'  BY <1>6, HandCancelStep
<1> QED  BY <1>1, <1>2, <1>3, <1>4, <1>5, <1>6 DEF WNext

\* What a run read stays true while its version stands, and under a lease nobody else
\* changes the row: the status and reservation the run, the web request and the bookers
\* act on are the stored ones; what a row or a plan names is a reservation of its own
\* account; and a cancellation the user was told of has left its row given up.
THEOREM WatchInvariant == WSpec => []WatchInv
<1>1. WInit => WatchInv  BY InitInv
<1>2. WatchInv /\ [WNext]_vars => WatchInv'  BY EveryStep
<1> QED  BY <1>1, <1>2, PTL DEF WSpec

\* Only a POST makes reservations: the user's own, the booker's or the watcher's.
LEMMA MadeBy ==
  ASSUME WatchInv, [WNext]_vars
  PROVE  \/ res' = res
         \/ \E a \in Accounts, s \in Slots, i \in Ids :
               \/ Posted(a, s, "hand", i)
               \/ Posted(a, s, "booker", i) /\ b[a].on
               \/ Posted(a, s, "watch", i) /\ a = w.cur /\ w.at \in {"rebook", "pick"}
<1> DEFINE Goal == \/ res' = res
                   \/ \E a \in Accounts, s \in Slots, i \in Ids :
                         \/ Posted(a, s, "hand", i)
                         \/ Posted(a, s, "booker", i) /\ b[a].on
                         \/ Posted(a, s, "watch", i) /\ a = w.cur /\ w.at \in {"rebook", "pick"}
<1>1. CASE UNCHANGED vars  BY <1>1 DEF vars
<1>2. CASE \/ Begin \/ Plan \/ Login \/ Act \/ Release \/ Mark \/ CancelExtra \/ Upgrade \/ Write \/ Collapse
           \/ Shed \/ ShedCancel \/ ShedWrite
  <2>1. \A i, answer : Cancelling(i, answer) => res' = res  BY DEF Cancelling
  <2>2. CASE CancelExtra \/ Upgrade \/ ShedCancel  BY <2>1, <2>2 DEF CancelExtra, Upgrade, ShedCancel, course
  <2> QED  BY <1>2, <2>2 DEF Begin, Plan, Login, Act, Release, Mark, Write, Collapse, Shed, ShedWrite, course
<1>3. CASE Rebook \/ Pick
  <2>1. w.at \in {"rebook", "pick"}  BY <1>3 DEF Rebook, Pick
  <2>2. w.cur \in Accounts /\ w.cand \subseteq Slots  BY <2>1, CurHere DEF Holding, WatchInv, PhaseOK
  <2>3. \A s, after : Posting(s, after) => Reserving(w.cur, s, "watch") \/ res' = res
    BY DEF Posting, course
  <2>4. \A s \in Slots : Reserving(w.cur, s, "watch") => Goal
    BY <2>1, <2>2, ReservingPosts DEF WatchInv
  <2>5. CASE Rebook
    <3>1. PICK s \in w.cand : Posting(s, "write")  BY <2>5 DEF Rebook
    <3> QED  BY <2>2, <2>3, <2>4, <3>1
  <2>6. CASE Pick
    <3>1. CASE w.cand = {}  BY <2>6, <3>1 DEF Pick, course
    <3>2. CASE w.cand # {}
      <4>1. BestSlot(w.cur, w.cand) \in w.cand  BY <2>2, <3>2, BestSlotIn
      <4>2. Posting(BestSlot(w.cur, w.cand), "pick")  BY <2>6, <3>2 DEF Pick
      <4> QED  BY <2>2, <2>3, <2>4, <4>1, <4>2
    <3> QED  BY <3>1, <3>2
  <2> QED  BY <1>3, <2>5, <2>6
<1>4. CASE SearchThrottled \/ LoginFails \/ LoginThrottled \/ WatcherDies \/ WebCancel \/ WebWrite \/ CutoffPasses
  BY <1>4 DEF SearchThrottled, LoginFails, LoginThrottled, WatcherDies, WebCancel, WebWrite, CutoffPasses, course
<1>5. ASSUME NEW a \in Accounts, WebLease(a) \/ Expire(a) \/ BookerClaim(a) \/ BookerEnd(a) \/ BookerDies(a)
      PROVE  Goal
  BY <1>5 DEF WebLease, Expire, BookerClaim, BookerEnd, BookerDies, course
<1>6. ASSUME NEW a \in Accounts, HandBook(a) PROVE Goal
  BY <1>6, ReservingPosts DEF HandBook, WatchInv
<1>7. ASSUME NEW a \in Accounts, BookerPost(a) PROVE Goal
  BY <1>7, ReservingPosts DEF BookerPost, WatchInv
<1>8. ASSUME NEW i \in Ids, HandCancel(i) PROVE Goal  BY <1>8 DEF HandCancel
<1> QED  BY <1>1, <1>2, <1>3, <1>4, <1>5, <1>6, <1>7, <1>8 DEF WNext, Watching

\* Once the user was told that a booking is cancelled, neither the watcher nor a booker
\* makes another reservation for that account: whoever is about to POST holds the lease
\* of an active row, and the told cancel left the row given up for good.
THEOREM UserCancelIsFinal == WSpec => CancelIsFinal
<1> DEFINE Final == \A q \in quit, i \in Ids :
        res[i] = NoRes /\ res'[i] # NoRes /\ res'[i].by # "hand" => res'[i].acct # res[q].acct
<1>1. ASSUME WatchInv, [WNext]_vars PROVE [Final]_vars
  <2> SUFFICES ASSUME NEW q \in quit, NEW i \in Ids,
                      res[i] = NoRes, res'[i] # NoRes, res'[i].by # "hand", res'[i].acct = res[q].acct
               PROVE  FALSE
    OBVIOUS
  <2>1. PICK a \in Accounts, s \in Slots, j \in Ids :
               \/ Posted(a, s, "hand", j)
               \/ Posted(a, s, "booker", j) /\ b[a].on
               \/ Posted(a, s, "watch", j) /\ a = w.cur /\ w.at \in {"rebook", "pick"}
    BY <1>1, MadeBy
  <2>2. i = j /\ res'[i].acct = a /\ (b[a].on \/ (a = w.cur /\ w.at \in {"rebook", "pick"}))
    BY <2>1 DEF Posted
  <2>3. Active(row[a])  BY <1>1, <2>2 DEF WatchInv, BookerHolds, RunHolds, Holding, Active
  <2>4. row[a].status = "user"  BY <1>1, <2>2 DEF WatchInv, QuitOK
  <2> QED  BY <2>3, <2>4 DEF Active
<1>2. WSpec => []WatchInv  BY WatchInvariant
<1> QED  BY <1>1, <1>2, PTL DEF WSpec, CancelIsFinal

-----------------------------------------------------------------------------
(* A cancel of the bot's own is not blamed on the user.                    *)

\* A row that keeps its booking, its marker and its flag.
OnlyLease(r, n) == SameBooking(r, n) /\ n.marker = r.marker /\ n.reconcile = r.reconcile

LEMMA OnlyLeases ==
  ASSUME WatchInv,
         \/ \E a \in Accounts : \/ WebLease(a) \/ Expire(a) \/ BookerClaim(a) \/ BookerPost(a)
                                \/ BookerDies(a) \/ HandBook(a)
         \/ \E i \in Ids : HandCancel(i)
         \/ WebCancel \/ CutoffPasses
  PROVE  w' = w /\ cut' = cut /\ led' = led /\ \A x \in Accounts : OnlyLease(row[x], row'[x])
<1>1. row \in [Accounts -> Row]  BY DEF WatchInv, TypeOK
<1>2. CASE UNCHANGED <<row, w, cut, led>>  BY <1>2 DEF OnlyLease, SameBooking
<1>3. ASSUME NEW a \in Accounts, WebLease(a)
      PROVE  w' = w /\ cut' = cut /\ led' = led /\ \A x \in Accounts : OnlyLease(row[x], row'[x])
  <2>1. row' = [row EXCEPT ![a] = Leased(@, "u")] /\ w' = w /\ cut' = cut /\ led' = led
    BY <1>3 DEF WebLease, history
  <2> QED  BY <1>1, <2>1 DEF OnlyLease, SameBooking, Leased, Row
<1>4. ASSUME NEW a \in Accounts, BookerClaim(a)
      PROVE  w' = w /\ cut' = cut /\ led' = led /\ \A x \in Accounts : OnlyLease(row[x], row'[x])
  <2>1. row' = [row EXCEPT ![a] = Leased(@, "b")] /\ w' = w /\ cut' = cut /\ led' = led
    BY <1>4 DEF BookerClaim, history
  <2> QED  BY <1>1, <2>1 DEF OnlyLease, SameBooking, Leased, Row
<1>5. ASSUME NEW a \in Accounts, Expire(a)
      PROVE  w' = w /\ cut' = cut /\ led' = led /\ \A x \in Accounts : OnlyLease(row[x], row'[x])
  <2>1. row' = [row EXCEPT ![a].alive = FALSE] /\ w' = w /\ cut' = cut /\ led' = led
    BY <1>5 DEF Expire, history
  <2> QED  BY <1>1, <2>1 DEF OnlyLease, SameBooking, Row
<1>6. ASSUME WebCancel
      PROVE  w' = w /\ cut' = cut /\ led' = led /\ \A x \in Accounts : OnlyLease(row[x], row'[x])
  <2>1. w' = w /\ cut' = cut /\ led' = led /\ (row' = row \/ row' = [row EXCEPT ![u.acct] = Released(@, "u")])
    BY <1>6 DEF WebCancel, history
  <2>2. CASE row' = [row EXCEPT ![u.acct] = Released(@, "u")]
    <3>1. PICK a \in Accounts : a = u.acct  BY <1>6 DEF WebCancel, WatchInv, CrewBound
    <3>2. PICK n : n = Released(row[a], "u")  OBVIOUS
    <3>3. OnlyLease(row[a], n) /\ n \in Row  BY <1>1, <3>2, ReleasedIs DEF OnlyLease
    <3>4. row' = [row EXCEPT ![a] = n]  BY <1>1, <2>2, <3>1, <3>2
    <3> QED  BY <1>1, <2>1, <3>3, <3>4 DEF OnlyLease, SameBooking
  <2> QED  BY <1>2, <2>1, <2>2
<1>7. ASSUME NEW a \in Accounts, BookerPost(a) \/ BookerDies(a) \/ HandBook(a)
      PROVE  UNCHANGED <<row, w, cut, led>>
  BY <1>7 DEF BookerPost, BookerDies, HandBook, history, Outside
<1>8. ASSUME NEW i \in Ids, HandCancel(i) PROVE UNCHANGED <<row, w, cut, led>>
  BY <1>8 DEF HandCancel, history
<1>9. ASSUME CutoffPasses PROVE UNCHANGED <<row, w, cut, led>>  BY <1>9 DEF CutoffPasses, history
<1> QED  BY <1>2, <1>3, <1>4, <1>5, <1>6, <1>7, <1>8, <1>9

\* The cancelled bookings stay the same: what rows may become.
LEMMA RowsBlame ==
  ASSUME NotBlamedOnUser, CutMarked, cut' = cut,
         \A a \in Accounts : \/ SameBooking(row[a], row'[a]) /\ (row[a].marker => row'[a].marker)
                             \/ row'[a].status \notin {"booked", "external"}
                             \/ row'[a].raw \notin cut
  PROVE  NotBlamedOnUser' /\ CutMarked'
<1>1. NotBlamedOnUser'  BY DEF NotBlamedOnUser, SameBooking
<1>2. CutMarked'  BY DEF CutMarked, SameBooking
<1> QED  BY <1>1, <1>2

\* What is live and what the booker holds: nothing cancelled.
LEMMA GoneStays ==
  ASSUME WatchInv, CutGone, cut' = cut,
         \A i \in live' : i \in live \/ ~Used(i),
         \A a \in Accounts : \A i \in b'[a].ids : i \in b[a].ids \/ ~Used(i)
  PROVE  CutGone'
<1>1. cut \subseteq Ids /\ \A i \in cut : Used(i)  BY DEF WatchInv, TypeOK, AllUsed
<1> QED  BY <1>1 DEF CutGone

LEMMA BlameBeside ==
  ASSUME WatchInv, BlameInv, w' = w, cut' = cut, CutGone',
         \A a \in Accounts : \/ SameBooking(row[a], row'[a])
                             \/ ~(w.at \in Holding /\ a = w.cur) /\ row'[a].status \notin {"booked", "external"}
                             \/ ~(w.at \in Holding /\ a = w.cur) /\ row'[a].raw \notin cut,
         \A a \in Accounts : row'[a].marker = row[a].marker
  PROVE  BlameInv'
<1>1. w.at \in Holding => w.cur \in Accounts  BY CurHere
<1>2. NotBlamedOnUser' /\ CutMarked'  BY RowsBlame DEF BlameInv
<1>3. RunCut'
  <2>1. w.at \in {"extras", "rebook"} \cup Shedders => w.at \in Holding  BY DEF Holding
  <2>2. w.at \in Holding => row'[w.cur].marker = row[w.cur].marker /\ row'[w.cur].raw = row[w.cur].raw
    BY <1>1 DEF SameBooking
  <2> QED  BY <2>1, <2>2 DEF BlameInv, RunCut
<1>4. MarkersRead'
  <2>1. w.todo \subseteq Accounts  BY DEF WatchInv, TypeOK, RunType
  <2> QED  BY <2>1 DEF BlameInv, MarkersRead
<1> QED  BY <1>2, <1>3, <1>4 DEF BlameInv

LEMMA UnusedNew ==
  ASSUME WatchInv, NEW a, NEW s, NEW by, NEW i, Posted(a, s, by, i)
  PROVE  ~Used(i) /\ i \in Ids /\ live' = live \cup {i} /\ i \notin cut
<1>1. ~Used(i) /\ i \in Ids /\ live' = live \cup {i}  BY DEF Posted, Used
<1> QED  BY <1>1 DEF WatchInv, AllUsed

LEMMA BlameCrew ==
  ASSUME WatchInv, BlameInv,
         \/ \E a \in Accounts : \/ WebLease(a) \/ Expire(a) \/ BookerClaim(a) \/ BookerPost(a)
                                \/ BookerDies(a) \/ HandBook(a)
         \/ \E i \in Ids : HandCancel(i)
         \/ WebCancel \/ CutoffPasses
  PROVE  BlameInv'
<1>1. w' = w /\ cut' = cut /\ \A x \in Accounts : OnlyLease(row[x], row'[x])  BY OnlyLeases
<1>2. b \in [Accounts -> BookerType]  BY DEF WatchInv, TypeOK
<1> DEFINE Fits == /\ \A i \in live' : i \in live \/ ~Used(i)
                   /\ \A x \in Accounts : \A i \in b'[x].ids : i \in b[x].ids \/ ~Used(i)
<1>3. Fits
  <2>1. ASSUME NEW a \in Accounts, WebLease(a) \/ Expire(a) PROVE Fits
    BY <2>1 DEF WebLease, Expire, course, Outside, Crew
  <2>2. ASSUME NEW a \in Accounts, BookerClaim(a) PROVE Fits
    <3>1. live' = live /\ b' = [b EXCEPT ![a].on = TRUE]  BY <2>2 DEF BookerClaim, course
    <3>2. \A x \in Accounts : b'[x].ids = b[x].ids  BY <1>2, <3>1 DEF BookerType
    <3> QED  BY <3>1, <3>2
  <2>3. ASSUME NEW a \in Accounts, BookerDies(a) PROVE Fits
    <3>1. live' = live /\ b' = [b EXCEPT ![a] = [BIdle EXCEPT !.done = TRUE]]  BY <2>3 DEF BookerDies, course
    <3>2. \A x \in Accounts : b'[x].ids = b[x].ids \/ b'[x].ids = {}  BY <1>2, <3>1 DEF BIdle
    <3> QED  BY <3>1, <3>2
  <2>4. ASSUME NEW a \in Accounts, HandBook(a) PROVE Fits
    <3>1. PICK s \in Slots, i \in Ids : Posted(a, s, "hand", i)  BY <2>4, ReservingPosts DEF HandBook, WatchInv
    <3>2. ~Used(i) /\ live' = live \cup {i}  BY <3>1, UnusedNew
    <3>3. b' = b  BY <2>4 DEF HandBook, Outside, Crew
    <3> QED  BY <3>2, <3>3
  <2>5. ASSUME NEW a \in Accounts, BookerPost(a) PROVE Fits
    <3>1. PICK s \in Slots : Reserving(a, s, "booker") /\ b' = [b EXCEPT ![a].ids = @ \cup {Min(Unused)}]
      BY <2>5 DEF BookerPost
    <3>2. PICK i \in Ids : Posted(a, s, "booker", i)  BY <3>1, ReservingPosts DEF WatchInv
    <3>3. ~Used(i) /\ live' = live \cup {i} /\ i = Min(Unused)  BY <3>2, UnusedNew DEF Posted
    <3>4. \A x \in Accounts : b'[x].ids \subseteq b[x].ids \cup {i}  BY <1>2, <3>1, <3>3 DEF BookerType
    <3> QED  BY <3>3, <3>4
  <2>6. ASSUME NEW i \in Ids, HandCancel(i) PROVE Fits  BY <2>6 DEF HandCancel, Outside, Crew
  <2>7. ASSUME WebCancel PROVE Fits
    <3>1. live' \subseteq live /\ b' = b  BY <2>7 DEF WebCancel
    <3> QED  BY <3>1
  <2>8. ASSUME CutoffPasses PROVE Fits  BY <2>8 DEF CutoffPasses, course, Crew
  <2> QED  BY <2>1, <2>2, <2>3, <2>4, <2>5, <2>6, <2>7, <2>8
<1>4. CutGone'  BY <1>1, <1>3, GoneStays DEF BlameInv
<1> QED  BY <1>1, <1>4, BlameBeside DEF OnlyLease

LEMMA BlameBookerEnd ==
  ASSUME WatchInv, BlameInv, NEW a \in Accounts, BookerEnd(a)
  PROVE  BlameInv'
<1>1. PICK o, n : /\ OutcomeOK(o) /\ o.to \in {"same", "booked"} /\ (o.to = "booked" => o.raw \in b[a].ids)
                  /\ ~o.clear /\ row' = [row EXCEPT ![a] = n] /\ Becomes(row[a], o, "b", n)
  BY BookerEndIs
<1>2. /\ w' = w /\ cut' = cut /\ live' = live /\ b' = [b EXCEPT ![a] = [BIdle EXCEPT !.done = TRUE]]
      /\ row[a].lease = "b" /\ row[a].alive /\ row[a].status = "pending"
  BY DEF BookerEnd, course, history, WatchInv, BookerHolds
<1>3. b \in [Accounts -> BookerType] /\ row \in [Accounts -> Row]  BY DEF WatchInv, TypeOK
<1>4. \A x \in Accounts : b'[x].ids = b[x].ids \/ b'[x].ids = {}  BY <1>2, <1>3 DEF BIdle
<1>5. CutGone'  BY <1>2, <1>4, GoneStays DEF BlameInv
<1>6. n \in Row /\ row'[a] = n /\ \A x \in Accounts : x # a => row'[x] = row[x]  BY <1>1, <1>3 DEF Becomes
<1>7. n.marker = row[a].marker
  <2>1. n.marker <=> row[a].marker  BY <1>1 DEF Becomes
  <2> QED  BY <1>3, <1>6, <2>1 DEF Row
<1>8. n.status = "pending" \/ n.raw \notin cut
  BY <1>1, <1>2 DEF Becomes, BlameInv, CutGone
<1>9. ~(w.at \in Holding /\ a = w.cur)  BY <1>2 DEF WatchInv, RunHolds
<1>10. \A x \in Accounts : /\ \/ SameBooking(row[x], row'[x])
                              \/ ~(w.at \in Holding /\ x = w.cur) /\ row'[x].status \notin {"booked", "external"}
                              \/ ~(w.at \in Holding /\ x = w.cur) /\ row'[x].raw \notin cut
                           /\ row'[x].marker = row[x].marker
  BY <1>6, <1>7, <1>8, <1>9 DEF SameBooking
<1> QED  BY <1>2, <1>5, <1>10, BlameBeside

LEMMA BlameWebWrite ==
  ASSUME WatchInv, BlameInv, WebWrite
  PROVE  BlameInv'
<1>1. PICK a \in Accounts, n \in Row :
           /\ row' = [row EXCEPT ![a] = n] /\ n.marker = row[a].marker
           /\ SameBooking(row[a], n) \/ (n.status = "user" /\ row[a].lease = "u")
  BY WebWriteIs
<1>2. w' = w /\ cut' = cut /\ live' = live /\ b' = b  BY DEF WebWrite, course
<1>3. CutGone'  BY <1>2, GoneStays DEF BlameInv
<1>4. row'[a] = n /\ \A x \in Accounts : x # a => row'[x] = row[x]  BY <1>1 DEF WatchInv, TypeOK
<1>5. row[a].lease = "u" => ~(w.at \in Holding /\ a = w.cur)  BY DEF WatchInv, RunHolds
<1>6. \A x \in Accounts : /\ \/ SameBooking(row[x], row'[x])
                             \/ ~(w.at \in Holding /\ x = w.cur) /\ row'[x].status \notin {"booked", "external"}
                             \/ ~(w.at \in Holding /\ x = w.cur) /\ row'[x].raw \notin cut
                          /\ row'[x].marker = row[x].marker
  BY <1>1, <1>4, <1>5 DEF SameBooking
<1> QED  BY <1>2, <1>3, <1>6, BlameBeside

-----------------------------------------------------------------------------
(* The steps of the watcher, when no cancel loses its answer.              *)

LEMMA BlameRests ==
  ASSUME WatchInv', Resting(w'), CutGone', NotBlamedOnUser', CutMarked', MarkersRead'
  PROVE  BlameInv'
<1>1. w'.new \notin cut'  BY WatchAssumption DEF Resting, WatchInv, TypeOK, Ids
<1>2. RunCut'  BY <1>1 DEF Resting, RunCut, Holding, Shedders
<1> QED  BY <1>2 DEF BlameInv

\* The run goes on: nothing is cancelled.
LEMMA BlameMovesOn ==
  ASSUME WatchInv, WatchInv', BlameInv, MovesOn(w, w'), cut' = cut, CutGone', NotBlamedOnUser', CutMarked',
         \A a \in Accounts : row'[a].marker = row[a].marker \/ (w.at \in Holding /\ a = w.cur),
         w'.at \in {"plan", "login"} =>
             w.at \notin {"idle", "collapse", "shed"} \cup Shedders /\ (w.at \in Holding => w.cur \notin w'.todo)
  PROVE  BlameInv'
<1>1. MarkersRead'
  <2>1. w.todo \subseteq Accounts  BY DEF WatchInv, TypeOK, RunType
  <2>2. w'.at \in {"idle", "plan", "login", "collapse", "shed"}  BY DEF MovesOn, Resting
  <2> QED  BY <2>1, <2>2 DEF BlameInv, MarkersRead, MovesOn, Shedders
<1> QED  BY <1>1, BlameRests DEF MovesOn

LEMMA BlameJust ==
  ASSUME WatchInv, WatchInv', BlameInv, MovesOn(w, w'), UNCHANGED <<live, b, row, cut>>,
         w'.at \in {"plan", "login"} => w.at \in {"plan", "login", "act"}
  PROVE  BlameInv'
<1>1. CutGone' /\ NotBlamedOnUser' /\ CutMarked'  BY DEF BlameInv, CutGone, NotBlamedOnUser, CutMarked
<1>2. w.at \in {"plan", "login", "act"} => w.at \notin {"idle", "collapse", "shed"} \cup Shedders \cup Holding
  BY DEF Shedders, Holding
<1> QED  BY <1>1, <1>2, BlameMovesOn

LEMMA BlameRunEnds ==
  ASSUME WatchInv, WatchInv', BlameInv, SearchThrottled \/ LoginThrottled \/ WatcherDies \/ LoginFails
  PROVE  BlameInv'
<1>1. UNCHANGED <<live, b, row, cut>>
  BY DEF SearchThrottled, LoginThrottled, WatcherDies, LoginFails, Outside, Crew, course, history
<1>2. w \in RunType  BY DEF WatchInv, TypeOK
<1>3. CASE LoginFails
  <2>1. w.at = "login" /\ w.todo # {} /\ w.todo \subseteq Nat
    BY <1>2, <1>3, WatchAssumption DEF LoginFails, WatchInv, PhaseOK, RunType, Accounts
  <2>2. Min(w.todo) \in Accounts  BY <1>2, <2>1, MinIn DEF RunType
  <2>3. PICK x : x = [w EXCEPT !.cur = Min(w.todo)]  OBVIOUS
  <2>4. x \in RunType /\ x.todo = w.todo /\ x.plan = w.plan  BY <1>2, <2>2, <2>3 DEF RunType
  <2>5. w' = Onward(x)  BY <1>3, <2>3 DEF LoginFails
  <2>6. MovesOn(w, w')  BY <2>4, <2>5, OnwardMovesOn DEF MovesOn
  <2> QED  BY <1>1, <2>1, <2>6, BlameJust
<1>4. CASE SearchThrottled \/ LoginThrottled \/ WatcherDies
  <2>1. w' = WIdle  BY <1>4 DEF SearchThrottled, LoginThrottled, WatcherDies
  <2>2. MovesOn(w, w') /\ w'.at = "idle"  BY <1>2, <2>1, IdleMovesOn DEF WIdle
  <2> QED  BY <1>1, <2>2, BlameJust
<1> QED  BY <1>3, <1>4

LEMMA BlameReads ==
  ASSUME WatchInv, WatchInv', BlameInv, Begin \/ Plan
  PROVE  BlameInv'
<1>1. CASE Begin
  <2>1. /\ UNCHANGED <<live, b, cut>> /\ Resting(w') /\ w'.todo \subseteq Accounts
        /\ \A a \in Accounts : /\ w'.plan[a].row = row'[a] /\ row'[a].marker = row[a].marker
                               /\ SameBooking(row[a], row'[a]) \/ row'[a].status = "lost"
    BY <1>1, BeginIs
  <2>2. CutGone'  BY <2>1, GoneStays DEF BlameInv
  <2>3. NotBlamedOnUser' /\ CutMarked'  BY <2>1, RowsBlame DEF BlameInv
  <2>4. MarkersRead'  BY <2>1 DEF MarkersRead
  <2> QED  BY <2>1, <2>2, <2>3, <2>4, BlameRests
<1>2. CASE Plan
  <2>1. /\ UNCHANGED <<live, b, row, cut>> /\ Resting(w') /\ w.at = "plan" /\ w'.todo \subseteq w.todo
        /\ \A a \in w'.todo : w'.plan[a].row = w.plan[a].row
    BY <1>2, PlanIs
  <2>2. CutGone' /\ NotBlamedOnUser' /\ CutMarked'  BY <2>1 DEF BlameInv, CutGone, NotBlamedOnUser, CutMarked
  <2>3. MarkersRead'  BY <2>1 DEF BlameInv, MarkersRead, Shedders, Holding
  <2> QED  BY <2>1, <2>2, <2>3, BlameRests
<1> QED  BY <1>1, <1>2

LEMMA BlameLogin ==
  ASSUME WatchInv, WatchInv', BlameInv, Login
  PROVE  BlameInv'
<1>1. /\ UNCHANGED <<live, b, row, cut>> /\ w.at = "login" /\ w'.at = "act" /\ w'.seen \subseteq live
      /\ w'.todo = w.todo /\ w'.plan = w.plan /\ w'.new = w.new
  BY LoginIs
<1>2. CutGone' /\ NotBlamedOnUser' /\ CutMarked'  BY <1>1 DEF BlameInv, CutGone, NotBlamedOnUser, CutMarked
<1>3. RunCut'  BY <1>1 DEF BlameInv, RunCut, CutGone, Holding, Shedders
<1>4. MarkersRead'  BY <1>1 DEF BlameInv, MarkersRead, Shedders, Holding
<1> QED  BY <1>2, <1>3, <1>4 DEF BlameInv

\* The run works on under its lease.
LEMMA BlameHolds ==
  ASSUME WatchInv, BlameInv, w.at \in (Holding \ Shedders) \cup {"act"},
         w'.at \in Holding, w'.cur = w.cur, w'.todo = w.todo, w'.plan = w.plan,
         \A a \in Accounts : a # w.cur => row'[a].marker = row[a].marker,
         CutGone', NotBlamedOnUser', CutMarked', RunCut'
  PROVE  BlameInv'
<1>1. w.todo \subseteq Accounts  BY DEF WatchInv, TypeOK, RunType
<1>2. MarkersRead'  BY <1>1 DEF BlameInv, MarkersRead, Holding, Shedders
<1> QED  BY <1>2 DEF BlameInv

LEMMA BlameAct ==
  ASSUME WatchInv, WatchInv', BlameInv, Act
  PROVE  BlameInv'
<1>1. UNCHANGED <<live, b, cut>> /\ w.at = "act"  BY ActIs
<1>2. /\ w.cur \in Accounts /\ w.cur \in w.todo /\ row[w.cur] \in Row /\ w \in RunType /\ Cur = w.plan[w.cur]
      /\ Cur \in PlanType
  BY <1>1, CurHere
<1>3. CASE w' = Onward(w) /\ row' = row
  <2>1. MovesOn(w, w')  BY <1>2, <1>3, OnwardMovesOn
  <2> QED  BY <1>1, <1>3, <2>1, BlameJust
<1>4. CASE TakesRow
  <2>1. \A a \in Accounts : SameBooking(row[a], row'[a]) /\ row'[a].marker = row[a].marker
    BY <1>4 DEF TakesRow, SameBooking
  <2>2. NotBlamedOnUser' /\ CutMarked'  BY <1>1, <2>1, RowsBlame DEF BlameInv
  <2>3. CutGone'  BY <1>1 DEF BlameInv, CutGone
  <2>4. Cur.row.marker = row[w.cur].marker  BY <1>1, <1>2 DEF BlameInv, MarkersRead, Shedders, Holding
  <2>5. w'.pre = "external" => row'[w.cur].raw \notin cut
    <3> HAVE w'.pre = "external"
    <3>1. ~row[w.cur].marker /\ row[w.cur].status = "booked"  BY <1>4, <2>4 DEF TakesRow
    <3> QED  BY <1>2, <2>1, <3>1 DEF BlameInv, CutMarked, SameBooking
  <2>6. w.seen \cap cut \subseteq w.cuts /\ w.new \notin cut  BY <1>1 DEF BlameInv, RunCut
  <2>7. /\ w'.at \in {"release", "write", "mark", "pick"} /\ w'.cur = w.cur /\ w'.todo = w.todo /\ w'.plan = w.plan
        /\ w'.seen = w.seen /\ w'.cuts = w.cuts /\ w'.new = w.new
    BY <1>4 DEF TakesRow
  <2>8. RunCut'  BY <1>1, <2>5, <2>6, <2>7 DEF RunCut, Holding, Shedders
  <2> QED  BY <1>1, <2>1, <2>2, <2>3, <2>7, <2>8, BlameHolds DEF Holding
<1> QED  BY <1>3, <1>4, ActIs

LEMMA BlameRelease ==
  ASSUME WatchInv, WatchInv', BlameInv, Release
  PROVE  BlameInv'
<1>1. /\ UNCHANGED <<live, b, cut>> /\ w.at = "release" /\ w' = Onward(w)
      /\ row' = [row EXCEPT ![w.cur] = Released(@, "w")]
  BY DEF Release, Outside, Crew, course, history
<1>2. w.at \in Holding \ Shedders  BY <1>1 DEF Holding, Shedders
<1>3. w.cur \in Accounts /\ row[w.cur] \in Row /\ w \in RunType /\ row \in [Accounts -> Row]
  BY <1>2, CurHere DEF WatchInv, TypeOK
<1>4. PICK n : n = Released(row[w.cur], "w")  OBVIOUS
<1>5. SameBooking(row[w.cur], n) /\ n.marker = row[w.cur].marker  BY <1>3, <1>4, ReleasedIs
<1>6. \A a \in Accounts : SameBooking(row[a], row'[a]) /\ row'[a].marker = row[a].marker
  BY <1>1, <1>3, <1>4, <1>5 DEF SameBooking
<1>7. NotBlamedOnUser' /\ CutMarked'  BY <1>1, <1>6, RowsBlame DEF BlameInv
<1>8. CutGone'  BY <1>1 DEF BlameInv, CutGone
<1>9. MovesOn(w, w') /\ w.cur \notin w'.todo  BY <1>1, <1>3, OnwardMovesOn
<1> QED  BY <1>1, <1>6, <1>7, <1>8, <1>9, BlameMovesOn DEF Shedders

LEMMA BlameMark ==
  ASSUME WatchInv, WatchInv', BlameInv, Mark
  PROVE  BlameInv'
<1>1. /\ UNCHANGED <<live, b, cut>> /\ w.at = "mark" /\ row' = [row EXCEPT ![w.cur].marker = TRUE]
      /\ w' = [w EXCEPT !.at = IF StopActing THEN "write" ELSE "extras", !.cand = Extras(w.cur, Cur, w.seen)]
  BY DEF Mark, Outside, Crew, course, history
<1>2. w.at \in Holding \ Shedders  BY <1>1 DEF Holding, Shedders
<1>3. w.cur \in Accounts /\ w \in RunType /\ row \in [Accounts -> Row]  BY <1>2, CurHere DEF WatchInv, TypeOK
<1>4. /\ w'.at \in {"write", "extras"} /\ w'.cur = w.cur /\ w'.todo = w.todo /\ w'.plan = w.plan
      /\ w'.seen = w.seen /\ w'.cuts = w.cuts /\ w'.new = w.new /\ w'.pre = w.pre
  BY <1>1, <1>3 DEF RunType
<1>5. /\ \A a \in Accounts : SameBooking(row[a], row'[a]) /\ (row[a].marker => row'[a].marker)
      /\ row'[w.cur].marker /\ \A a \in Accounts : a # w.cur => row'[a].marker = row[a].marker
  BY <1>1, <1>3 DEF Row, SameBooking
<1>6. NotBlamedOnUser' /\ CutMarked'  BY <1>1, <1>5, RowsBlame DEF BlameInv
<1>7. CutGone'  BY <1>1 DEF BlameInv, CutGone
<1>8. w.pre = "engine"  BY <1>1 DEF WatchInv, PhaseOK
<1>9. RunCut'  BY <1>1, <1>2, <1>4, <1>5, <1>8 DEF BlameInv, RunCut, Holding, Shedders
<1> QED  BY <1>2, <1>4, <1>5, <1>6, <1>7, <1>9, BlameHolds DEF Holding

\* A cancel under the lease of a marked row.
LEMMA CutIs ==
  ASSUME WatchInv, BlameInv, "cutlost" \notin Faults, w.at \in Holding, row[w.cur].marker, b' = b,
         NEW i, Of(i, w.cur), NEW answer \in CancelAnswers, Cancelling(i, answer),
         \A a \in Accounts : SameBooking(row[a], row'[a]) /\ row'[a].marker = row[a].marker
  PROVE  /\ CutGone' /\ NotBlamedOnUser' /\ CutMarked'
         /\ cut' \subseteq cut \cup {i} /\ (answer # "ok" => cut' = cut)
<1>1. live' \subseteq live /\ cut' \subseteq cut \cup (live \cap {i}) /\ (answer = "ok" => i \notin live')
  BY CancellingIs
<1>2. answer # "ok" => cut' = cut
  <2> SUFFICES ASSUME answer # "ok" PROVE cut' = cut  OBVIOUS
  <2>1. Mishap(answer)  BY DEF Cancelling
  <2>2. answer # "cutlost"  BY <2>1 DEF Mishap
  <2> QED  BY <2>2 DEF Cancelling
<1>3. w.cur \in Accounts /\ ~b[w.cur].on  BY CurHere
<1>4. \A a \in Accounts : i \in b[a].ids => FALSE
  <2> TAKE a \in Accounts
  <2> HAVE i \in b[a].ids
  <2>1. Of(i, a)  BY DEF WatchInv, CrewBound
  <2>2. a = w.cur  BY <2>1 DEF Of
  <2> QED  BY <1>3, <2>2 DEF WatchInv, CrewBound
<1>5. CutGone'  BY <1>1, <1>2, <1>4 DEF BlameInv, CutGone
<1>6. \A a \in Accounts : row[a].status \in {"booked", "external"} /\ row[a].raw = i => a = w.cur
  BY DEF WatchInv, RowsBound, Bound, Of
<1>7. row[w.cur].status # "external"  BY DEF WatchInv, RunHolds, Active
<1>8. NotBlamedOnUser'  BY <1>1, <1>6, <1>7 DEF BlameInv, NotBlamedOnUser, SameBooking
<1>9. CutMarked'  BY <1>1, <1>6 DEF BlameInv, CutMarked, SameBooking
<1> QED  BY <1>1, <1>2, <1>5, <1>8, <1>9

LEMMA BlameCancelExtra ==
  ASSUME WatchInv, WatchInv', BlameInv, "cutlost" \notin Faults, CancelExtra
  PROVE  BlameInv'
<1>1. UNCHANGED <<b, row>> /\ w.at = "extras" /\ w.at \in Holding \ Shedders /\ w.cand # {}
  BY DEF CancelExtra, Outside, Crew, Holding, Shedders
<1>2. w.cur \in Accounts /\ w \in RunType /\ w.cand \subseteq Ids
  BY <1>1, CurHere DEF WatchInv, PhaseOK
<1>3. PICK i \in w.cand : i = BestRes(w.cur, w.cand)  BY <1>1, <1>2, BestResIn DEF WatchInv
<1>4. PICK answer \in CancelAnswers :
        /\ Cancelling(i, answer)
        /\ w' = [w EXCEPT !.cand = @ \ {i},
                          !.cuts = IF answer = "ok" THEN @ \cup {i} ELSE @,
                          !.halt = (answer = "throttle"),
                          !.at = IF answer = "throttle" THEN "write" ELSE @]
  BY <1>3 DEF CancelExtra
<1>5. PICK halt : halt = (answer = "throttle")  OBVIOUS
<1>6. w' = [w EXCEPT !.cand = @ \ {i}, !.cuts = IF answer = "ok" THEN @ \cup {i} ELSE @,
                     !.halt = halt, !.at = IF answer = "throttle" THEN "write" ELSE @]
  BY <1>4, <1>5
<1>7. /\ w'.at \in {"write", "extras"} /\ w'.cur = w.cur /\ w'.todo = w.todo /\ w'.plan = w.plan
      /\ w'.seen = w.seen /\ w'.new = w.new /\ w'.pre = w.pre
      /\ w'.cuts = IF answer = "ok" THEN w.cuts \cup {i} ELSE w.cuts
  BY <1>1, <1>2, <1>6 DEF RunType
<1>8. row[w.cur].marker /\ w.pre = "engine" /\ w.new = 0
  BY <1>1 DEF BlameInv, RunCut, WatchInv, PhaseOK
<1>9. Of(i, w.cur)  BY <1>1, <1>3 DEF WatchInv, RunBound
<1>10. /\ CutGone' /\ NotBlamedOnUser' /\ CutMarked'
       /\ cut' \subseteq cut \cup {i} /\ (answer # "ok" => cut' = cut)
  BY <1>1, <1>4, <1>8, <1>9, CutIs DEF SameBooking
<1>11. w.new \notin cut'  BY <1>8, WatchAssumption DEF WatchInv, TypeOK, Ids
<1>12. RunCut'  BY <1>1, <1>7, <1>8, <1>10, <1>11 DEF BlameInv, RunCut, Holding, Shedders
<1> QED  BY <1>1, <1>7, <1>10, <1>12, BlameHolds DEF Holding

LEMMA BlameUpgrade ==
  ASSUME WatchInv, WatchInv', BlameInv, "cutlost" \notin Faults, Upgrade
  PROVE  BlameInv'
<1>1. UNCHANGED <<b, row>> /\ w.at = "extras" /\ w.at \in Holding \ Shedders
  BY DEF Upgrade, Outside, Crew, Holding, Shedders
<1>2. w.cur \in Accounts /\ w \in RunType /\ Bound(Cur.row, w.cur)  BY <1>1, CurHere
<1>3. row[w.cur].marker /\ w.pre = "engine" /\ w.new = 0
  BY <1>1 DEF BlameInv, RunCut, WatchInv, PhaseOK
<1>4. CASE Targets = {}
  <2>1. w' = [w EXCEPT !.at = "write"] /\ UNCHANGED <<live, cut>>  BY <1>4 DEF Upgrade, course, history
  <2>2. /\ w'.at = "write" /\ w'.cur = w.cur /\ w'.todo = w.todo /\ w'.plan = w.plan
        /\ w'.seen = w.seen /\ w'.new = w.new /\ w'.pre = w.pre /\ w'.cuts = w.cuts
    BY <1>2, <2>1 DEF RunType
  <2>3. CutGone' /\ NotBlamedOnUser' /\ CutMarked'  BY <1>1, <2>1 DEF BlameInv, CutGone, NotBlamedOnUser, CutMarked
  <2>4. RunCut'  BY <1>1, <1>3, <2>1, <2>2 DEF BlameInv, RunCut, Holding, Shedders
  <2> QED  BY <1>1, <2>2, <2>3, <2>4, BlameHolds DEF Holding
<1>5. CASE Targets # {}
  <2>1. PICK answer \in CancelAnswers :
            /\ Cancelling(Cur.row.raw, answer)
            /\ w' = [w EXCEPT !.at = IF answer = "ok" THEN "rebook" ELSE "write",
                              !.cand = IF answer = "ok" THEN {BestSlot(w.cur, Targets)} ELSE {},
                              !.cuts = IF answer = "ok" THEN @ \cup {Cur.row.raw} ELSE @]
    BY <1>5 DEF Upgrade
  <2>2. PICK i : i = Cur.row.raw  OBVIOUS
  <2>3. /\ w'.at \in {"write", "rebook"} /\ w'.cur = w.cur /\ w'.todo = w.todo /\ w'.plan = w.plan
        /\ w'.seen = w.seen /\ w'.new = w.new /\ w'.pre = w.pre
        /\ w'.cuts = IF answer = "ok" THEN w.cuts \cup {i} ELSE w.cuts
    BY <1>2, <2>1, <2>2 DEF RunType
  <2>4. Of(i, w.cur)  BY <1>1, <1>2, <2>2 DEF WatchInv, CurOK, Bound
  <2>5. /\ CutGone' /\ NotBlamedOnUser' /\ CutMarked'
        /\ cut' \subseteq cut \cup {i} /\ (answer # "ok" => cut' = cut)
    BY <1>1, <1>3, <2>1, <2>2, <2>4, CutIs DEF SameBooking
  <2>6. w.new \notin cut'  BY <1>3, WatchAssumption DEF WatchInv, TypeOK, Ids
  <2>7. RunCut'  BY <1>1, <1>3, <2>3, <2>5, <2>6 DEF BlameInv, RunCut, Holding, Shedders
  <2> QED  BY <1>1, <2>3, <2>5, <2>7, BlameHolds DEF Holding
<1> QED  BY <1>4, <1>5

LEMMA BlamePosting ==
  ASSUME WatchInv, WatchInv', BlameInv, w.at \in {"rebook", "pick"}, NEW s \in w.cand,
         NEW after \in {"write", "pick"}, after = "pick" => w.at = "pick",
         Posting(s, after), UNCHANGED <<Outside, row, led, snap, moved>>
  PROVE  BlameInv'
<1>1. /\ UNCHANGED <<b, row, cut>> /\ w'.at \in {"write", after} /\ w'.pre = w.pre
      /\ w'.cur = w.cur /\ w'.todo = w.todo /\ w'.plan = w.plan /\ w'.seen = w.seen /\ w'.cuts = w.cuts
      /\ w'.new = w.new \/ (w'.new \in Ids /\ ~Used(w'.new))
      /\ \A i \in live' : i \in live \/ ~Used(i)
  BY PostingIs
<1>2. w.at \in Holding \ Shedders /\ w'.at \in Holding \ Shedders  BY <1>1 DEF Holding, Shedders
<1>3. CutGone'  BY <1>1, GoneStays DEF BlameInv
<1>4. NotBlamedOnUser' /\ CutMarked'  BY <1>1 DEF BlameInv, NotBlamedOnUser, CutMarked
<1>5. w'.new \notin cut  BY <1>1 DEF BlameInv, RunCut, WatchInv, AllUsed
<1>6. RunCut'  BY <1>1, <1>2, <1>5 DEF BlameInv, RunCut, Shedders
<1> QED  BY <1>1, <1>2, <1>3, <1>4, <1>6, BlameHolds

LEMMA BlamePick ==
  ASSUME WatchInv, WatchInv', BlameInv, Rebook \/ Pick
  PROVE  BlameInv'
<1>1. w.at \in {"rebook", "pick"} /\ UNCHANGED <<Outside, row, led, snap, moved>>  BY DEF Rebook, Pick
<1>2. w.at \in Holding \ Shedders  BY <1>1 DEF Holding, Shedders
<1>3. w.cur \in Accounts /\ w \in RunType /\ w.cand \subseteq Slots  BY <1>1, <1>2, CurHere DEF WatchInv, PhaseOK
<1>4. CASE Rebook
  <2>1. PICK s \in w.cand : Posting(s, "write")  BY <1>4 DEF Rebook
  <2> QED  BY <1>1, <2>1, BlamePosting
<1>5. CASE Pick /\ w.cand # {}
  <2>1. PICK s \in w.cand : s = BestSlot(w.cur, w.cand)  BY <1>3, <1>5, BestSlotIn
  <2> QED  BY <1>1, <1>5, <2>1, BlamePosting DEF Pick
<1>6. CASE Pick /\ w.cand = {}
  <2>1. w.at = "pick" /\ w' = [w EXCEPT !.at = "write"] /\ UNCHANGED <<b, row, live, cut>>
    BY <1>6 DEF Pick, course, history, Outside, Crew
  <2>2. /\ w'.at = "write" /\ w'.cur = w.cur /\ w'.todo = w.todo /\ w'.plan = w.plan
        /\ w'.seen = w.seen /\ w'.new = w.new /\ w'.pre = w.pre /\ w'.cuts = w.cuts
    BY <1>3, <2>1 DEF RunType
  <2>3. CutGone' /\ NotBlamedOnUser' /\ CutMarked'  BY <2>1 DEF BlameInv, CutGone, NotBlamedOnUser, CutMarked
  <2>4. RunCut'  BY <1>2, <2>1, <2>2 DEF BlameInv, RunCut, Holding, Shedders
  <2> QED  BY <1>2, <2>1, <2>2, <2>3, <2>4, BlameHolds DEF Holding
<1> QED  BY <1>4, <1>5, <1>6

\* No outcome books a cancelled reservation, or clears the marker of one.
Blameless(o) ==
    /\ o.to = "booked" => o.raw \notin cut
    /\ o.to = "external" => w.pre = "external"
    /\ o.to = "same" /\ Cur.row.status = "booked" /\ o.clear => Cur.row.raw \notin cut

LEMMA OutcomesBlameless ==
  ASSUME WatchInv, BlameInv, w.at = "write", NEW o \in Outcomes
  PROVE  Blameless(o)
<1>1. w.at \in Holding /\ w.at \in Holding \ Shedders  BY DEF Holding, Shedders
<1>2. w.seen \cap cut \subseteq w.cuts /\ w.new \notin cut  BY <1>1 DEF BlameInv, RunCut
<1>3. CASE w.pre = "engine"
  <2>1. PICK surv : surv = Survivors(Cur, w.cuts, w.seen)  OBVIOUS
  <2>2. o \in {EngineOutcome(Cur, k) : k \in IF surv = {} THEN {0} ELSE surv}  BY <1>3, <2>1 DEF Outcomes
  <2>3. PICK k : (k = 0 \/ k \in surv) /\ o = EngineOutcome(Cur, k)  BY <2>2
  <2>4. k # 0 => k \notin cut  BY <1>2, <2>1, <2>3 DEF Survivors
  <2>5. CASE Cur.row.status = "pending"
    <3>1. o.to = "same" \/ (o.to = "booked" /\ o.raw = w.new)
      BY <2>3, <2>5 DEF EngineOutcome, PendingOutcome, Outcome
    <3> QED  BY <1>2, <2>5, <3>1 DEF Blameless
  <2>6. CASE Cur.row.status # "pending"
    <3>1. Cur.row.status = "booked"  BY <1>1, <2>6 DEF WatchInv, RunHolds, Active
    <3>2. Cur.row.raw \in w.seen  BY <1>1, <1>3, <3>1 DEF WatchInv, CurOK
    <3>3. o = BookedOutcome(Cur, k)  BY <2>3, <2>6 DEF EngineOutcome
    <3>4. \/ o.to = "same" /\ Cur.row.raw \notin w.cuts
          \/ o.to = "booked" /\ (o.raw = w.new \/ (o.raw = k /\ k # 0))
          \/ o.to = "pending"
      BY <3>3 DEF BookedOutcome, Outcome
    <3> QED  BY <1>2, <2>4, <3>2, <3>4 DEF Blameless
  <2> QED  BY <2>5, <2>6
<1>4. CASE w.pre # "engine"
  <2>1. o \in {SnapshotOutcome(Cur, i) : i \in IF w.pre = "adopt" THEN Adoptable(Cur) ELSE {0}}
    BY <1>4 DEF Outcomes
  <2>2. PICK i : (w.pre = "adopt" => i \in Adoptable(Cur)) /\ o = SnapshotOutcome(Cur, i)  BY <2>1
  <2>3. w.pre \in {"adopt", "bot", "external"}
    <3>1. w.pre # "none"  BY <1>1 DEF WatchInv, PhaseOK
    <3> QED  BY <1>4, <3>1 DEF WatchInv, TypeOK, RunType
  <2>4. CASE w.pre = "adopt"
    <3>1. o.to = "booked" /\ o.raw = i  BY <2>2, <2>4 DEF SnapshotOutcome, AdoptOutcome, Outcome
    <3>2. i \in w.seen /\ w.cuts = {}  BY <1>4, <2>2, <2>4 DEF Adoptable, WatchInv, PhaseOK
    <3> QED  BY <1>2, <3>1, <3>2 DEF Blameless
  <2>5. CASE w.pre = "bot"
    <3>1. o.to = "pending"  BY <2>2, <2>5 DEF SnapshotOutcome, Outcome
    <3> QED  BY <3>1 DEF Blameless
  <2>6. CASE w.pre = "external"
    <3>1. o.to = "external"  BY <2>2, <2>6 DEF SnapshotOutcome, Outcome
    <3> QED  BY <2>6, <3>1 DEF Blameless
  <2> QED  BY <2>3, <2>4, <2>5, <2>6
<1> QED  BY <1>3, <1>4

LEMMA BlameWrite ==
  ASSUME WatchInv, WatchInv', BlameInv, Write
  PROVE  BlameInv'
<1>1. UNCHANGED <<live, b, cut>> /\ w.at = "write" /\ w.at \in Holding /\ w.at \in Holding \ Shedders
  BY DEF Write, Outside, Crew, course, history, Holding, Shedders
<1>2. PICK a \in Accounts : a = w.cur /\ row[a] \in Row /\ row \in [Accounts -> Row] /\ w \in RunType
  BY <1>1, CurHere DEF WatchInv, TypeOK
<1>3. PICK n : /\ row' = [row EXCEPT ![a] = n] /\ n \in Row
               /\ \/ w' = WIdle /\ n = Released(row[a], "w")
                  \/ \E o \in Outcomes : w' = Onward(w) /\ Written(row[a], o, "w", n)
  BY <1>2, WriteIs
<1>4. row'[a] = n /\ \A x \in Accounts : x # a => row'[x] = row[x]  BY <1>2, <1>3
<1>5. Active(row[a]) /\ row[a].status = Cur.row.status /\ row[a].raw = Cur.row.raw
  BY <1>1, <1>2 DEF WatchInv, RunHolds
<1>6. /\ \/ SameBooking(row[a], n) /\ (row[a].marker => n.marker)
         \/ n.status \notin {"booked", "external"} \/ n.raw \notin cut
      /\ MovesOn(w, w') /\ w.cur \notin w'.todo
  <2>1. CASE w' = WIdle /\ n = Released(row[a], "w")
    <3>1. SameBooking(row[a], n) /\ n.marker = row[a].marker  BY <1>2, <2>1, ReleasedIs
    <3>2. MovesOn(w, w') /\ w'.todo = {}  BY <1>2, <2>1, IdleMovesOn DEF WIdle
    <3> QED  BY <3>1, <3>2
  <2>2. ASSUME NEW o \in Outcomes, w' = Onward(w), Written(row[a], o, "w", n)
        PROVE  /\ \/ SameBooking(row[a], n) /\ (row[a].marker => n.marker)
                  \/ n.status \notin {"booked", "external"} \/ n.raw \notin cut
               /\ MovesOn(w, w') /\ w.cur \notin w'.todo
    <3>1. MovesOn(w, w') /\ w.cur \notin w'.todo  BY <1>2, <2>2, OnwardMovesOn
    <3>2. Blameless(o)  BY <1>1, OutcomesBlameless
    <3>3. OutcomeOK(o) /\ o.to # "user"  BY <1>1, OutcomesWritable DEF Writable
    <3>4. PICK m : Becomes(row[a], o, "w", m) /\ (n = m \/ n = Flagged(m))  BY <2>2 DEF Written
    <3>5. m \in Row  BY <3>4 DEF Becomes
    <3>6. SameBooking(m, n) /\ n.marker = m.marker  BY <3>4, <3>5, FlaggedIs DEF SameBooking
    <3>7. o.to \in {"same", "pending", "booked", "external"}  BY <3>3 DEF OutcomeOK
    <3>8. CASE o.to = "same"
      <4>1. SameBooking(row[a], m) /\ (m.marker <=> (row[a].marker /\ ~o.clear))  BY <3>4, <3>8 DEF Becomes, SameBooking
      <4>2. row[a].status = "booked" /\ o.clear => row[a].raw \notin cut  BY <1>5, <3>2, <3>8 DEF Blameless
      <4>3. row[a].status \in {"pending", "booked"}  BY <1>5 DEF Active
      <4> QED  BY <3>1, <3>6, <4>1, <4>2, <4>3 DEF SameBooking
    <3>9. CASE o.to = "pending"
      <4>1. n.status = "pending"  BY <3>4, <3>6, <3>9 DEF Becomes, SameBooking
      <4> QED  BY <3>1, <4>1
    <3>10. CASE o.to = "booked"
      <4>1. n.raw = o.raw  BY <3>4, <3>6, <3>10 DEF Becomes, SameBooking
      <4> QED  BY <3>1, <3>2, <3>10, <4>1 DEF Blameless
    <3>11. CASE o.to = "external"
      <4>1. n.raw = row[a].raw  BY <3>4, <3>6, <3>11 DEF Becomes, SameBooking
      <4>2. row[a].raw \notin cut  BY <1>1, <1>2, <3>2, <3>11 DEF Blameless, BlameInv, RunCut
      <4> QED  BY <3>1, <4>1, <4>2
    <3> QED  BY <3>7, <3>8, <3>9, <3>10, <3>11
  <2> QED  BY <1>3, <2>1, <2>2
<1>7. NotBlamedOnUser' /\ CutMarked'  BY <1>1, <1>4, <1>6, RowsBlame DEF BlameInv, SameBooking
<1>8. CutGone'  BY <1>1 DEF BlameInv, CutGone
<1> QED  BY <1>1, <1>2, <1>4, <1>6, <1>7, <1>8, BlameMovesOn

\* After an account of the collapse there is the next one, or the end.
LEMMA SheddingAt ==
  ASSUME NEW x \in RunType, NEW a \in Accounts
  PROVE  Shedding(x, a).at \in {"idle", "shed"}
BY DEF Shedding, WIdle, RunType

LEMMA BlameCollapse ==
  ASSUME WatchInv, WatchInv', BlameInv, Collapse
  PROVE  BlameInv'
<1>1. UNCHANGED <<live, b, row, cut>>  BY DEF Collapse, Outside, Crew, course, history
<1>2. CutGone' /\ NotBlamedOnUser' /\ CutMarked'  BY <1>1 DEF BlameInv, CutGone, NotBlamedOnUser, CutMarked
<1>3. w'.at \in {"idle", "shed"} /\ w'.seen = {} /\ w'.new = 0
  <2>1. CASE w' = WIdle  BY <2>1 DEF WIdle
  <2>2. CASE w' # WIdle  BY <2>2 DEF Collapse, WIdle
  <2> QED  BY <2>1, <2>2
<1>4. w'.new \notin cut'  BY <1>3, WatchAssumption DEF WatchInv, TypeOK, Ids
<1>5. RunCut' /\ MarkersRead'  BY <1>3, <1>4 DEF RunCut, MarkersRead, Holding, Shedders
<1> QED  BY <1>2, <1>5 DEF BlameInv

LEMMA BlameShed ==
  ASSUME WatchInv, WatchInv', BlameInv, Shed
  PROVE  BlameInv'
<1>1. UNCHANGED <<live, b, cut>> /\ w.at = "shed"  BY DEF Shed, Outside, Crew, course, history
<1>2. w \in RunType /\ row \in [Accounts -> Row]  BY DEF WatchInv, TypeOK
<1>3. w.seen = {} /\ w.cuts = {} /\ w.new = 0 /\ ~w.unsure  BY <1>1 DEF WatchInv, PhaseOK, Holding, Shedders
<1>4. PICK a \in w.todo :
        \/ /\ row' = [row EXCEPT ![a] = [Leased(@, "w") EXCEPT !.marker = TRUE]]
           /\ w' = [w EXCEPT !.at = "shedcancel", !.cur = a]
        \/ /\ UNCHANGED row \/ MarkDoubleHeld(a)
           /\ w' = Shedding(w, a)
  BY DEF Shed
<1>5. a \in Accounts /\ row[a] \in Row  BY <1>2 DEF RunType
<1>6. CutGone'  BY <1>1 DEF BlameInv, CutGone
<1>7. CASE w' = Shedding(w, a) /\ (UNCHANGED row \/ MarkDoubleHeld(a))
  <2>1. MovesOn(w, w') /\ w'.at \in {"idle", "shed"}  BY <1>2, <1>3, <1>5, <1>7, SheddingMovesOn, SheddingAt
  <2>2. \A x \in Accounts : SameBooking(row[x], row'[x]) /\ row'[x].marker = row[x].marker
    <3>1. CASE UNCHANGED row  BY <3>1 DEF SameBooking
    <3>2. CASE MarkDoubleHeld(a)
      <4>1. PICK n : row' = [row EXCEPT ![a] = n] /\ n \in Row /\ SameBooking(row[a], n) /\ n.marker = row[a].marker
        BY <1>5, <3>2, NoteIs DEF WatchInv
      <4> QED  BY <1>2, <1>5, <4>1 DEF SameBooking
    <3> QED  BY <1>7, <3>1, <3>2
  <2>3. NotBlamedOnUser' /\ CutMarked'  BY <1>1, <2>2, RowsBlame DEF BlameInv
  <2> QED  BY <1>1, <1>6, <2>1, <2>2, <2>3, BlameMovesOn
<1>8. CASE /\ row' = [row EXCEPT ![a] = [Leased(@, "w") EXCEPT !.marker = TRUE]]
           /\ w' = [w EXCEPT !.at = "shedcancel", !.cur = a]
  <2>1. row'[a].marker /\ \A x \in Accounts : SameBooking(row[x], row'[x]) /\ (row[x].marker => row'[x].marker)
    BY <1>2, <1>5, <1>8 DEF Row, SameBooking, Leased
  <2>2. NotBlamedOnUser' /\ CutMarked'  BY <1>1, <2>1, RowsBlame DEF BlameInv
  <2>3. w'.at = "shedcancel" /\ w'.cur = a /\ w'.seen = {} /\ w'.new = w.new  BY <1>2, <1>3, <1>8 DEF RunType
  <2>4. w.new \notin cut  BY <1>3, WatchAssumption DEF WatchInv, TypeOK, Ids
  <2>5. RunCut' /\ MarkersRead'  BY <1>1, <2>1, <2>3, <2>4 DEF RunCut, MarkersRead, Holding, Shedders
  <2> QED  BY <1>6, <2>2, <2>5 DEF BlameInv
<1> QED  BY <1>4, <1>7, <1>8

LEMMA BlameShedCancel ==
  ASSUME WatchInv, WatchInv', BlameInv, "cutlost" \notin Faults, ShedCancel
  PROVE  BlameInv'
<1>1. b' = b /\ w.at = "shedcancel" /\ w.at \in Holding /\ w.at \in Shedders
  BY DEF ShedCancel, Outside, Crew, Holding, Shedders
<1>2. PICK a \in Accounts : /\ a = w.cur /\ row[a] \in Row /\ row \in [Accounts -> Row] /\ w \in RunType
                            /\ Cur = w.plan[a] /\ Bound(Cur.row, a)
  BY <1>1, CurHere DEF WatchInv, TypeOK
<1>3. w.seen = {} /\ w.cuts = {} /\ w.new = 0 /\ ~w.unsure  BY <1>1 DEF WatchInv, PhaseOK, Holding, Shedders
<1>4. PICK answer \in CancelAnswers :
        /\ Cancelling(w.plan[a].row.raw, answer)
        /\ IF answer = "ok"
           THEN /\ w' = [w EXCEPT !.at = "shedwrite"]
                /\ UNCHANGED row
           ELSE /\ w' = IF answer = "throttle" THEN WIdle ELSE Shedding(w, a)
                /\ row' = [row EXCEPT ![a] = Released(@, "w")]
  BY <1>2 DEF ShedCancel
<1>5. PICK i : i = Cur.row.raw  OBVIOUS
<1>6. Of(i, w.cur) /\ row[w.cur].marker
  BY <1>1, <1>2, <1>5 DEF WatchInv, CurOK, Bound, BlameInv, RunCut
<1>7. \A x \in Accounts : SameBooking(row[x], row'[x]) /\ row'[x].marker = row[x].marker
  <2>1. CASE UNCHANGED row  BY <2>1 DEF SameBooking
  <2>2. CASE row' = [row EXCEPT ![a] = Released(@, "w")]
    <3>1. PICK n : n = Released(row[a], "w")  OBVIOUS
    <3>2. SameBooking(row[a], n) /\ n.marker = row[a].marker  BY <1>2, <3>1, ReleasedIs
    <3> QED  BY <1>2, <2>2, <3>1, <3>2 DEF SameBooking
  <2> QED  BY <1>4, <2>1, <2>2
<1>8. CutGone' /\ NotBlamedOnUser' /\ CutMarked' /\ (answer # "ok" => cut' = cut)
  BY <1>1, <1>2, <1>4, <1>5, <1>6, <1>7, CutIs
<1>9. CASE answer = "ok"
  <2>1. w'.at = "shedwrite" /\ w'.cur = a /\ w'.seen = {} /\ w'.new = w.new /\ row' = row
    BY <1>2, <1>3, <1>4, <1>9 DEF RunType
  <2>2. w'.new \notin cut'  BY <1>3, <2>1, WatchAssumption DEF WatchInv, TypeOK, Ids
  <2>3. RunCut' /\ MarkersRead'  BY <1>2, <1>6, <2>1, <2>2 DEF RunCut, MarkersRead, Holding, Shedders
  <2> QED  BY <1>8, <2>3 DEF BlameInv
<1>10. CASE answer # "ok"
  <2>1. MovesOn(w, w') /\ w'.at \in {"idle", "shed"}
    <3>1. WIdle.at = "idle"  BY DEF WIdle
    <3> QED  BY <1>2, <1>3, <1>4, <1>10, <3>1, IdleMovesOn, SheddingMovesOn, SheddingAt
  <2> QED  BY <1>7, <1>8, <1>10, <2>1, BlameMovesOn
<1> QED  BY <1>9, <1>10

LEMMA BlameShedWrite ==
  ASSUME WatchInv, WatchInv', BlameInv, ShedWrite
  PROVE  BlameInv'
<1>1. UNCHANGED <<live, b, cut>> /\ w.at = "shedwrite" /\ w.at \in Holding /\ w' = Shedding(w, w.cur)
  BY DEF ShedWrite, Outside, Crew, course, history, Holding, Shedders
<1>2. PICK a \in Accounts : a = w.cur /\ row[a] \in Row /\ row \in [Accounts -> Row] /\ w \in RunType
  BY <1>1, CurHere DEF WatchInv, TypeOK
<1>3. PICK o, n : /\ row' = [row EXCEPT ![a] = n] /\ o.to = "pending"
                  /\ n = Released(row[a], "w") \/ Written(row[a], o, "w", n)
  BY <1>2, ShedWriteIs DEF ShedOutcome, Outcome
<1>4. (SameBooking(row[a], n) /\ n.marker = row[a].marker) \/ n.status = "pending"
  <2>1. CASE n = Released(row[a], "w")  BY <1>2, <2>1, ReleasedIs
  <2>2. CASE Written(row[a], o, "w", n)
    <3>1. PICK m : Becomes(row[a], o, "w", m) /\ (n = m \/ n = Flagged(m))  BY <2>2 DEF Written
    <3>2. m \in Row /\ m.status = "pending"  BY <1>3, <3>1 DEF Becomes
    <3> QED  BY <3>1, <3>2, FlaggedIs DEF SameBooking
  <2> QED  BY <1>3, <2>1, <2>2
<1>5. \A x \in Accounts : \/ SameBooking(row[x], row'[x]) /\ (row[x].marker => row'[x].marker)
                          \/ row'[x].status \notin {"booked", "external"}
  BY <1>2, <1>3, <1>4 DEF SameBooking
<1>6. CutGone' /\ NotBlamedOnUser' /\ CutMarked'
  <2>1. CutGone'  BY <1>1 DEF BlameInv, CutGone
  <2> QED  BY <1>1, <1>5, <2>1, RowsBlame DEF BlameInv
<1>7. w.seen = {} /\ w.cuts = {} /\ w.new = 0 /\ ~w.unsure  BY <1>1 DEF WatchInv, PhaseOK, Holding, Shedders
<1>8. MovesOn(w, w') /\ w'.at \in {"idle", "shed"}  BY <1>1, <1>2, <1>7, SheddingMovesOn, SheddingAt
<1>9. \A x \in Accounts : row'[x].marker = row[x].marker \/ (w.at \in Holding /\ x = w.cur)  BY <1>1, <1>2, <1>3
<1> QED  BY <1>1, <1>6, <1>8, <1>9, BlameMovesOn

LEMMA BlameStep ==
  ASSUME WatchInv, WatchInv', BlameInv, "cutlost" \notin Faults, [WNext]_vars
  PROVE  BlameInv'
<1>1. CASE UNCHANGED vars
  BY <1>1 DEF vars, BlameInv, CutGone, NotBlamedOnUser, CutMarked, RunCut, MarkersRead
<1>2. CASE Watching
  BY <1>2, BlameReads, BlameLogin, BlameAct, BlameRelease, BlameMark, BlameCancelExtra, BlameUpgrade, BlamePick,
     BlameWrite, BlameCollapse, BlameShed, BlameShedCancel, BlameShedWrite DEF Watching
<1>3. CASE SearchThrottled \/ LoginFails \/ LoginThrottled \/ WatcherDies  BY <1>3, BlameRunEnds
<1>4. CASE WebCancel \/ WebWrite \/ CutoffPasses  BY <1>4, BlameCrew, BlameWebWrite
<1>5. ASSUME NEW a \in Accounts,
             \/ WebLease(a) \/ Expire(a) \/ HandBook(a)
             \/ BookerClaim(a) \/ BookerPost(a) \/ BookerEnd(a) \/ BookerDies(a)
      PROVE  BlameInv'
  BY <1>5, BlameCrew, BlameBookerEnd
<1>6. ASSUME NEW i \in Ids, HandCancel(i) PROVE BlameInv'  BY <1>6, BlameCrew
<1> QED  BY <1>1, <1>2, <1>3, <1>4, <1>5, <1>6 DEF WNext

\* A booking the bot cancelled is never recorded as one the user gave up, as long as
\* no cancel loses its answer: until it is on record as gone its row carries the
\* marker, and the marker is what the verdict on a vanished booking looks at first.
THEOREM BotCancelNotBlamed ==
  ASSUME "cutlost" \notin Faults
  PROVE  WSpec => []NotBlamedOnUser
<1>1. WInit => BlameInv
  <2> SUFFICES ASSUME WInit PROVE BlameInv  OBVIOUS
  <2>1. cut = {} /\ w = WIdle  BY DEF WInit
  <2>2. WIdle.at = "idle"  BY DEF WIdle
  <2> QED  BY <2>1, <2>2 DEF BlameInv, CutGone, NotBlamedOnUser, CutMarked, RunCut, MarkersRead, Holding, Shedders
<1>2. WatchInv /\ WatchInv' /\ BlameInv /\ [WNext]_vars => BlameInv'  BY BlameStep
<1>3. BlameInv => NotBlamedOnUser  BY DEF BlameInv
<1>4. WSpec => []WatchInv  BY WatchInvariant
<1> QED  BY <1>1, <1>2, <1>3, <1>4, PTL DEF WSpec

-----------------------------------------------------------------------------
(* What the user booked by hand is never cancelled.                        *)

LEMMA PostsGrow == ASSUME WatchInv, [WNext]_vars PROVE Grows
BY MadeBy DEF Grows, Posted, Used

LEMMA AtBotsGrow ==
  ASSUME Grows
  PROVE  (\A a, s : Bots(a, s) => Bots(a, s)') /\ (\A i : AtBots(i) => i \notin Ids \/ AtBots(i)')
<1>1. ASSUME NEW a, NEW s, Bots(a, s) PROVE Bots(a, s)'
  <2>1. PICK j \in Ids : res[j].acct = a /\ res[j].slot = s /\ res[j].by \in {"watch", "booker"}  BY <1>1 DEF Bots
  <2>2. res'[j] = res[j]  BY <2>1 DEF Grows, Used, NoRes
  <2> QED  BY <2>1, <2>2 DEF Bots
<1>2. ASSUME NEW i \in Ids, AtBots(i) PROVE AtBots(i)'
  <2>1. res'[i] = res[i] /\ Bots(res[i].acct, res[i].slot)  BY <1>2 DEF Grows, AtBots
  <2>2. PICK a, s : a = res[i].acct /\ s = res[i].slot  OBVIOUS
  <2>3. Bots(a, s)'  BY <1>1, <2>1, <2>2
  <2> QED  BY <1>2, <2>1, <2>2, <2>3 DEF AtBots, Used
<1> QED  BY <1>1, <1>2

LEMMA MadeAtBots ==
  ASSUME NEW i \in Ids, NEW a \in Accounts, res[i].acct = a, res[i].by \in {"watch", "booker"}
  PROVE  AtBots(i) /\ Bots(a, res[i].slot)
BY DEF AtBots, Bots, Used, NoRes

LEMMA RowsHandStay ==
  ASSUME RowsHand, Grows,
         \A a \in Accounts : \/ SameBooking(row[a], row'[a]) /\ row'[a].reconcile = row[a].reconcile
                             \/ row'[a].status # "booked"
                             \/ FlagOK(row[a], a)'
  PROVE  RowsHand'
<1> SUFFICES ASSUME NEW a \in Accounts PROVE FlagOK(row[a], a)'  BY DEF RowsHand
<1>1. CASE SameBooking(row[a], row'[a]) /\ row'[a].reconcile = row[a].reconcile
  <2>1. FlagOK(row[a], a)  BY DEF RowsHand
  <2> QED  BY <1>1, <2>1, AtBotsGrow DEF FlagOK, SameBooking
<1>2. CASE row'[a].status # "booked"  BY <1>2 DEF FlagOK
<1> QED  BY <1>1, <1>2

LEMMA PlansHandStay ==
  ASSUME WatchInv, PlansHand, Grows, \A a \in Accounts : w'.plan[a] = w.plan[a] \/ w'.plan[a] = NoPlan
  PROVE  PlansHand'
<1> SUFFICES ASSUME NEW a \in Accounts
             PROVE (FlagOK(w.plan[a].row, a) /\ \A i \in w.plan[a].own : AtBots(i))'
  BY DEF PlansHand
<1>1. CASE w'.plan[a] = w.plan[a]
  <2>1. FlagOK(w.plan[a].row, a) /\ \A i \in w.plan[a].own : AtBots(i)  BY DEF PlansHand
  <2>2. w.plan[a].own \subseteq Ids  BY DEF WatchInv, PlansBound, Of
  <2> QED  BY <1>1, <2>1, <2>2, AtBotsGrow DEF FlagOK
<1>2. CASE w'.plan[a] = NoPlan  BY <1>2 DEF NoPlan, NewRow, FlagOK
<1> QED  BY <1>1, <1>2

LEMMA TrailStays ==
  ASSUME WatchInv, TrailHand, Grows, \A i \in Ids : led'[i] = led[i] \/ AtBots(i), \A i \in cut' : i \in cut \/ AtBots(i)
  PROVE  TrailHand'
BY AtBotsGrow DEF TrailHand

\* A step that leaves the web and the leases it holds alone.
LEMMA WebHandStays ==
  ASSUME WatchInv, WebHand, u' = u,
         \A a \in Accounts : row[a].lease = "u" => SameLease(row[a], row'[a]),
         \A i \in Ids : led[i] # "none" => led'[i] # "none"
  PROVE  WebHand'
<1>1. u.at # "idle" => u.acct \in Accounts /\ u.raw \in Ids  BY DEF WatchInv, CrewBound, Of
<1> QED  BY <1>1 DEF WebHand, SameLease

LEMMA RunHandStays ==
  ASSUME WatchInv, RunHand, Grows, w' = w
  PROVE  RunHand'
<1>1. w.at = "extras" => w.cand \subseteq Ids  BY DEF WatchInv, PhaseOK
<1>2. w.at \in {"mark", "extras"} => Cur.row.raw \in Ids
  <2> HAVE w.at \in {"mark", "extras"}
  <2>1. Bound(Cur.row, w.cur) /\ Cur.row.status = "booked"  BY CurHere DEF Holding, WatchInv, CurOK
  <2> QED  BY <2>1 DEF Bound, Of
<1>3. Cur' = Cur  BY DEF Cur
<1> QED  BY <1>1, <1>2, <1>3, AtBotsGrow DEF RunHand

LEMMA HandCrew ==
  ASSUME WatchInv, HandInv, Grows, "late" \notin Faults,
         \/ \E a \in Accounts : \/ WebLease(a) \/ Expire(a) \/ BookerClaim(a) \/ BookerPost(a)
                                \/ BookerDies(a) \/ HandBook(a)
         \/ \E i \in Ids : HandCancel(i)
         \/ WebCancel \/ CutoffPasses
  PROVE  HandInv'
<1>1. w' = w /\ cut' = cut /\ led' = led /\ \A x \in Accounts : OnlyLease(row[x], row'[x])  BY OnlyLeases
<1>2. row \in [Accounts -> Row] /\ u \in WebType  BY DEF WatchInv, TypeOK
<1>3. RowsHand'  BY <1>1, RowsHandStay DEF HandInv, OnlyLease
<1>4. PlansHand' /\ TrailHand' /\ RunHand'  BY <1>1, PlansHandStay, TrailStays, RunHandStays DEF HandInv
<1>5. WebHand'
  <2>1. ASSUME NEW a \in Accounts, WebLease(a) PROVE WebHand'
    <3>1. /\ row' = [row EXCEPT ![a] = Leased(@, "u")] /\ led' = led
          /\ u' = [UIdle EXCEPT !.at = "leased", !.acct = a, !.raw = row[a].raw, !.owned = (led[row[a].raw] # "none")]
      BY <2>1 DEF WebLease
    <3>2. PICK owned \in BOOLEAN : owned = (led[row[a].raw] # "none")  OBVIOUS
    <3>3. u' = [UIdle EXCEPT !.at = "leased", !.acct = a, !.raw = row[a].raw, !.owned = owned]  BY <3>1, <3>2
    <3>4. u'.acct = a /\ u'.raw = row[a].raw /\ u'.owned = owned  BY <3>3 DEF UIdle
    <3>5. row'[a].lease = "u" /\ row'[a].alive  BY <1>2, <3>1 DEF Leased, Row
    <3> QED  BY <3>1, <3>2, <3>4, <3>5 DEF WebHand
  <2>2. ASSUME NEW a \in Accounts, Expire(a) PROVE WebHand'
    <3>1. row' = [row EXCEPT ![a].alive = FALSE] /\ u' = u /\ Dead(a)
      BY <2>2 DEF Expire, Outside, Crew, Mishap
    <3>2. row[a].lease # "u"  BY <3>1 DEF Dead
    <3>3. \A x \in Accounts : row[x].lease = "u" => SameLease(row[x], row'[x])  BY <1>2, <3>1, <3>2 DEF SameLease
    <3> QED  BY <1>1, <3>1, <3>3, WebHandStays DEF HandInv
  <2>3. ASSUME NEW a \in Accounts, BookerClaim(a) PROVE WebHand'
    <3>1. row' = [row EXCEPT ![a] = Leased(@, "b")] /\ u' = u /\ Free(row[a])  BY <2>3 DEF BookerClaim
    <3>2. u.at # "idle" => u.acct \in Accounts /\ u.acct # a
      BY <3>1 DEF WatchInv, CrewBound, HandInv, WebHand, Free, Held
    <3> QED  BY <1>1, <1>2, <3>1, <3>2 DEF HandInv, WebHand
  <2>4. ASSUME WebCancel PROVE WebHand'
    <3>1. \/ /\ u' = [u EXCEPT !.at = "write", !.left = At(u.acct) \ {u.raw},
                               !.why = IF u.raw \in live THEN "cancelled_user" ELSE "vanished"]
             /\ row' = row
          \/ u' = UIdle
      BY <2>4 DEF WebCancel
    <3>2. CASE u' = UIdle  BY <3>2 DEF WebHand, UIdle
    <3>3. CASE u'.acct = u.acct /\ u'.raw = u.raw /\ u'.owned = u.owned /\ row' = row
      <4>1. u.at # "idle"  BY <2>4 DEF WebCancel
      <4> QED  BY <1>1, <3>3, <4>1 DEF HandInv, WebHand
    <3> QED  BY <1>2, <3>1, <3>2, <3>3 DEF WebType
  <2>5. CASE UNCHANGED <<row, u>>  BY <1>1, <2>5 DEF HandInv, WebHand
  <2>6. ASSUME NEW a \in Accounts, BookerPost(a) \/ BookerDies(a) \/ HandBook(a) PROVE UNCHANGED <<row, u>>
    BY <2>6 DEF BookerPost, BookerDies, HandBook, Outside, Crew
  <2>7. ASSUME NEW i \in Ids, HandCancel(i) PROVE UNCHANGED <<row, u>>  BY <2>7 DEF HandCancel, Outside, Crew
  <2>8. ASSUME CutoffPasses PROVE UNCHANGED <<row, u>>  BY <2>8 DEF CutoffPasses, Crew
  <2> QED  BY <2>1, <2>2, <2>3, <2>4, <2>5, <2>6, <2>7, <2>8
<1> QED  BY <1>3, <1>4, <1>5 DEF HandInv

\* The ledger never forgets.
LEMMA LedgerKeeps ==
  ASSUME TypeOK, NEW o, OutcomeOK(o), NEW i \in Ids
  PROVE  (led[i] # "none" => Ledger(o)[i] # "none") /\ (Ledger(o)[i] = led[i] \/ i \in DOMAIN o.entries)
BY DEF Ledger, OutcomeOK, EntriesOK

LEMMA HandBookerEnd ==
  ASSUME WatchInv, HandInv, Grows, NEW a \in Accounts, BookerEnd(a)
  PROVE  HandInv'
<1>1. PICK o, n : /\ OutcomeOK(o) /\ o.to \in {"same", "booked"} /\ (o.to = "booked" => o.raw \in b[a].ids)
                  /\ DOMAIN o.entries \subseteq b[a].ids
                  /\ row' = [row EXCEPT ![a] = n] /\ Becomes(row[a], o, "b", n) /\ led' = Ledger(o)
  BY BookerEndIs
<1>2. w' = w /\ cut' = cut /\ u' = u /\ res' = res /\ row[a].lease = "b" /\ row[a].status = "pending"
  BY DEF BookerEnd, course, history, WatchInv, BookerHolds
<1>3. row \in [Accounts -> Row]  BY DEF WatchInv, TypeOK
<1>4. row'[a] = n /\ \A x \in Accounts : x # a => row'[x] = row[x]  BY <1>1, <1>3
<1>5. \A i \in b[a].ids : i \in Ids /\ AtBots(i) /\ Bots(a, res[i].slot)
  BY MadeAtBots DEF WatchInv, CrewBound, Of
<1>6. FlagOK(row[a], a)'
  <2>1. CASE o.to = "same"
    <3>1. n.status = "pending"  BY <1>1, <1>2, <2>1 DEF Becomes
    <3> QED  BY <1>4, <3>1 DEF FlagOK
  <2>2. CASE o.to = "booked"
    <3>1. n.tee = res[o.raw].slot /\ o.raw \in b[a].ids  BY <1>1, <2>2 DEF Becomes
    <3>2. Bots(a, n.tee)  BY <1>5, <3>1
    <3> QED  BY <1>2, <1>4, <3>2 DEF FlagOK, Bots
  <2> QED  BY <1>1, <2>1, <2>2
<1>7. \A x \in Accounts : \/ SameBooking(row[x], row'[x]) /\ row'[x].reconcile = row[x].reconcile
                          \/ FlagOK(row[x], x)'
  BY <1>4, <1>6 DEF SameBooking
<1>8. RowsHand'  BY <1>7, RowsHandStay DEF HandInv
<1>9. \A i \in Ids : (led'[i] = led[i] \/ AtBots(i)) /\ (led[i] # "none" => led'[i] # "none")
  BY <1>1, <1>5, LedgerKeeps DEF WatchInv
<1>10. PlansHand' /\ TrailHand' /\ RunHand'
  BY <1>2, <1>9, PlansHandStay, TrailStays, RunHandStays DEF HandInv
<1>11. WebHand'
  <2>1. \A x \in Accounts : row[x].lease = "u" => SameLease(row[x], row'[x])  BY <1>2, <1>4 DEF SameLease
  <2> QED  BY <1>2, <1>9, <2>1, WebHandStays DEF HandInv
<1> QED  BY <1>8, <1>10, <1>11 DEF HandInv

LEMMA HandWebWrite ==
  ASSUME WatchInv, HandInv, Grows, WebWrite
  PROVE  HandInv'
<1>1. w' = w /\ cut' = cut /\ u' = UIdle /\ u.at = "write"  BY DEF WebWrite
<1>2. PICK a \in Accounts, n \in Row :
           /\ a = u.acct /\ Of(u.raw, a) /\ row' = [row EXCEPT ![a] = n]
           /\ \/ /\ SameBooking(row[a], n)
                 /\ n.reconcile = row[a].reconcile \/ ~(row[a].lease = "u" /\ row[a].alive)
              \/ n.status = "user"
           /\ \A i \in Ids : led'[i] = led[i] \/ (i = u.raw /\ u.owned)
  BY WebWriteIs
<1>3. row[a].lease = "u" /\ row[a].alive /\ (u.owned => led[u.raw] # "none")  BY <1>1, <1>2 DEF HandInv, WebHand
<1>4. row'[a] = n /\ \A x \in Accounts : x # a => row'[x] = row[x]  BY <1>2 DEF WatchInv, TypeOK
<1>5. \A x \in Accounts : \/ SameBooking(row[x], row'[x]) /\ row'[x].reconcile = row[x].reconcile
                          \/ row'[x].status # "booked"
  BY <1>2, <1>3, <1>4 DEF SameBooking
<1>6. RowsHand'  BY <1>5, RowsHandStay DEF HandInv
<1>7. \A i \in Ids : led'[i] = led[i] \/ AtBots(i)  BY <1>2, <1>3 DEF HandInv, TrailHand
<1>8. PlansHand' /\ TrailHand' /\ RunHand'
  BY <1>1, <1>7, PlansHandStay, TrailStays, RunHandStays DEF HandInv
<1>9. WebHand'  BY <1>1 DEF WebHand, UIdle
<1> QED  BY <1>6, <1>8, <1>9 DEF HandInv

\* A step of the watcher: what it writes, names and cancels is the bot's.
LEMMA HandWatcher ==
  ASSUME WatchInv, HandInv, Grows, u' = u, PlansHand', RunHand',
         \A i \in Ids : (led'[i] = led[i] \/ AtBots(i)) /\ (led[i] # "none" => led'[i] # "none"),
         \A i \in cut' : i \in cut \/ AtBots(i),
         \A a \in Accounts : \/ SameBooking(row[a], row'[a]) /\ row'[a].reconcile = row[a].reconcile
                             \/ row'[a].status # "booked"
                             \/ FlagOK(row[a], a)',
         \A a \in Accounts : row[a].lease = "u" => SameLease(row[a], row'[a])
  PROVE  HandInv'
<1>1. RowsHand'  BY RowsHandStay DEF HandInv
<1>2. TrailHand'  BY TrailStays DEF HandInv
<1>3. WebHand'  BY WebHandStays DEF HandInv
<1> QED  BY <1>1, <1>2, <1>3 DEF HandInv

LEMMA RunHandRests ==
  ASSUME w'.at \notin {"mark", "extras", "shed"} \cup Shedders
  PROVE  RunHand'
BY DEF RunHand

LEMMA HandMovesOn ==
  ASSUME WatchInv, HandInv, Grows, u' = u, MovesOn(w, w'), w'.at # "shed", cut' = cut,
         \A i \in Ids : (led'[i] = led[i] \/ AtBots(i)) /\ (led[i] # "none" => led'[i] # "none"),
         \A a \in Accounts : \/ SameBooking(row[a], row'[a]) /\ row'[a].reconcile = row[a].reconcile
                             \/ row'[a].status # "booked"
                             \/ FlagOK(row[a], a)',
         \A a \in Accounts : row[a].lease = "u" => SameLease(row[a], row'[a])
  PROVE  HandInv'
<1>1. PlansHand'  BY PlansHandStay DEF HandInv, MovesOn
<1>2. w'.at \notin {"mark", "extras", "shed"} \cup Shedders  BY DEF MovesOn, Resting, Shedders
<1>3. RunHand'  BY <1>2, RunHandRests
<1> QED  BY <1>1, <1>3, HandWatcher

LEMMA OnwardAt ==
  ASSUME NEW x \in RunType
  PROVE  Onward(x).at \in {"idle", "login", "collapse"}
BY DEF Onward, WIdle

LEMMA HandRunEnds ==
  ASSUME WatchInv, HandInv, ~Grouped,
         SearchThrottled \/ LoginThrottled \/ WatcherDies \/ LoginFails \/ Collapse
  PROVE  HandInv'
<1>1. UNCHANGED <<res, u, led, row, cut>>
  BY DEF SearchThrottled, LoginThrottled, WatcherDies, LoginFails, Collapse, Outside, Crew, course, history
<1>2. w \in RunType /\ Grows  BY <1>1 DEF WatchInv, TypeOK, Grows
<1>3. MovesOn(w, w') /\ w'.at # "shed"
  <2>1. CASE LoginFails
    <3>1. w.at = "login" /\ w.todo # {} /\ w.todo \subseteq Nat
      BY <1>2, <2>1, WatchAssumption DEF LoginFails, WatchInv, PhaseOK, RunType, Accounts
    <3>2. Min(w.todo) \in Accounts  BY <1>2, <3>1, MinIn DEF RunType
    <3>3. PICK x : x = [w EXCEPT !.cur = Min(w.todo)]  OBVIOUS
    <3>4. x \in RunType /\ x.todo = w.todo /\ x.plan = w.plan  BY <1>2, <3>2, <3>3 DEF RunType
    <3>5. w' = Onward(x)  BY <2>1, <3>3 DEF LoginFails
    <3> QED  BY <3>4, <3>5, OnwardMovesOn, OnwardAt DEF MovesOn
  <2>2. CASE SearchThrottled \/ LoginThrottled \/ WatcherDies \/ Collapse
    <3>1. w' = WIdle  BY <2>2 DEF SearchThrottled, LoginThrottled, WatcherDies, Collapse
    <3> QED  BY <1>2, <3>1, IdleMovesOn DEF WIdle
  <2> QED  BY <2>1, <2>2
<1> QED  BY <1>1, <1>2, <1>3, HandMovesOn DEF SameBooking, SameLease

LEMMA HandBegin ==
  ASSUME WatchInv, HandInv, Begin
  PROVE  HandInv'
<1>1. /\ UNCHANGED <<u, res, led, cut>> /\ w'.at = "plan"
      /\ \A a \in Accounts : /\ w'.plan[a].row = row'[a] /\ w'.plan[a].own = {} /\ SameLease(row[a], row'[a])
                             /\ row'[a].reconcile = row[a].reconcile
                             /\ SameBooking(row[a], row'[a]) \/ row'[a].status = "lost"
  BY BeginIs
<1>2. Grows  BY <1>1 DEF Grows
<1>3. \A a \in Accounts : \/ SameBooking(row[a], row'[a]) /\ row'[a].reconcile = row[a].reconcile
                          \/ row'[a].status # "booked"
  BY <1>1
<1>4. RowsHand'  BY <1>2, <1>3, RowsHandStay DEF HandInv
<1>5. PlansHand'  BY <1>1, <1>4 DEF PlansHand, RowsHand, FlagOK
<1>6. RunHand'  BY <1>1, RunHandRests DEF Shedders
<1> QED  BY <1>1, <1>2, <1>3, <1>5, <1>6, HandWatcher

LEMMA HandPlan ==
  ASSUME WatchInv, HandInv, Plan
  PROVE  HandInv'
<1>1. /\ UNCHANGED <<u, res, led, row, cut>> /\ w'.at \in {"collapse", "login"}
      /\ \A a \in Accounts : w'.plan[a] = NoPlan \/ (w'.plan[a].row = w.plan[a].row /\ w'.plan[a].own = OwnOf(a))
  BY PlanIs
<1>2. Grows  BY <1>1 DEF Grows
<1>3. PlansHand'
  <2> SUFFICES ASSUME NEW a \in Accounts
               PROVE (FlagOK(w.plan[a].row, a) /\ \A i \in w.plan[a].own : AtBots(i))'
    BY DEF PlansHand
  <2>1. CASE w'.plan[a] = NoPlan  BY <2>1 DEF NoPlan, NewRow, FlagOK
  <2>2. CASE w'.plan[a].row = w.plan[a].row /\ w'.plan[a].own = OwnOf(a)
    <3>1. FlagOK(w.plan[a].row, a)  BY DEF HandInv, PlansHand
    <3>2. \A i \in OwnOf(a) : i \in Ids /\ AtBots(i)  BY DEF OwnOf, AliveStates, HandInv, TrailHand
    <3> QED  BY <1>2, <2>2, <3>1, <3>2, AtBotsGrow DEF FlagOK
  <2> QED  BY <1>1, <2>1, <2>2
<1>4. RunHand'  BY <1>1, RunHandRests DEF Shedders
<1> QED  BY <1>1, <1>2, <1>3, <1>4, HandWatcher DEF SameBooking, SameLease

LEMMA HandLogin ==
  ASSUME WatchInv, HandInv, Login
  PROVE  HandInv'
<1>1. UNCHANGED <<u, res, led, row, cut>> /\ w'.at = "act" /\ w'.plan = w.plan  BY LoginIs
<1>2. Grows  BY <1>1 DEF Grows
<1>3. PlansHand'  BY <1>1, <1>2, PlansHandStay DEF HandInv
<1>4. RunHand'  BY <1>1, RunHandRests DEF Shedders
<1> QED  BY <1>1, <1>2, <1>3, <1>4, HandWatcher DEF SameBooking, SameLease

\* Ownership, ledgered or adopted, is right.
LEMMA OwnedAtBots ==
  ASSUME WatchInv, HandInv, w.at \in Holding \cup {"act"}, NEW i, Of(i, w.cur), Owned(Cur, i),
         Cur.row.status \in {"pending", "booked"}
  PROVE  AtBots(i)
<1>1. PICK a \in Accounts : a = w.cur /\ Cur = w.plan[a] /\ Bound(Cur.row, a)  BY CurHere
<1>2. FlagOK(Cur.row, a) /\ \A j \in Cur.own : AtBots(j)  BY <1>1 DEF HandInv, PlansHand
<1>3. CASE i \in Cur.own  BY <1>2, <1>3
<1>4. CASE Adopted(Cur, i)
  <2>1. Bots(a, res[i].slot)  BY <1>1, <1>2, <1>4 DEF Adopted, FlagOK, Bound
  <2>2. res[i].acct = a /\ Used(i)  BY <1>1 DEF Of, Used, NoRes, Accounts
  <2> QED  BY <2>1, <2>2 DEF AtBots
<1> QED  BY <1>3, <1>4 DEF Owned

LEMMA HandAct ==
  ASSUME WatchInv, HandInv, Act
  PROVE  HandInv'
<1>1. UNCHANGED <<u, res, led, cut>> /\ w.at = "act"  BY ActIs
<1>2. Grows  BY <1>1 DEF Grows
<1>3. /\ w.cur \in Accounts /\ w \in RunType /\ Bound(Cur.row, w.cur)  BY <1>1, CurHere
<1>4. CASE w' = Onward(w) /\ row' = row
  <2>1. MovesOn(w, w') /\ w'.at # "shed"  BY <1>3, <1>4, OnwardMovesOn, OnwardAt
  <2> QED  BY <1>1, <1>2, <1>4, <2>1, HandMovesOn DEF SameBooking, SameLease
<1>5. CASE TakesRow
  <2>1. w'.plan = w.plan /\ w'.cur = w.cur /\ w'.at \in {"release", "write", "mark", "pick"}
    BY <1>5 DEF TakesRow
  <2>2. PlansHand'  BY <1>2, <2>1, PlansHandStay DEF HandInv
  <2>3. Cur' = Cur  BY <2>1 DEF Cur
  <2>4. w'.at = "mark" => Cur.row.raw \in Ids /\ AtBots(Cur.row.raw)
    <3> HAVE w'.at = "mark"
    <3>1. Cur.row.status = "booked" /\ UpgradeAllowed(Cur)  BY <1>5 DEF TakesRow
    <3>2. PICK i : i = Cur.row.raw /\ Of(i, w.cur) /\ Owned(Cur, i)  BY <1>3, <3>1 DEF Bound, UpgradeAllowed
    <3>3. AtBots(i)  BY <1>1, <3>1, <3>2, OwnedAtBots
    <3> QED  BY <3>2, <3>3 DEF Of
  <2>5. RunHand'
    <3>1. w'.at = "mark" => AtBots(Cur.row.raw)'  BY <1>2, <2>3, <2>4, AtBotsGrow
    <3> QED  BY <2>1, <3>1 DEF RunHand, Shedders
  <2>6. \A a \in Accounts : SameBooking(row[a], row'[a]) /\ row'[a].reconcile = row[a].reconcile
    BY <1>5 DEF TakesRow, SameBooking
  <2>7. \A a \in Accounts : row[a].lease = "u" => a # w.cur \/ ~row[a].alive
    BY <1>5 DEF TakesRow, Free, Held
  <2>8. RowsHand' /\ TrailHand'
    BY <1>1, <1>2, <2>6, RowsHandStay, TrailStays DEF HandInv
  <2>9. WebHand'
    <3>1. u.at # "idle" => u.acct \in Accounts /\ u.acct # w.cur
      BY <2>7 DEF WatchInv, CrewBound, HandInv, WebHand
    <3> QED  BY <1>1, <1>5, <3>1 DEF HandInv, WebHand, TakesRow
  <2> QED  BY <2>2, <2>5, <2>8, <2>9 DEF HandInv
<1> QED  BY <1>4, <1>5, ActIs

LEMMA HandRelease ==
  ASSUME WatchInv, HandInv, Release
  PROVE  HandInv'
<1>1. UNCHANGED <<u, res, led, cut>> /\ w.at = "release" /\ w' = Onward(w)
      /\ row' = [row EXCEPT ![w.cur] = Released(@, "w")]
  BY DEF Release, Outside, Crew, course, history
<1>2. Grows /\ w.at \in Holding  BY <1>1 DEF Grows, Holding
<1>3. w.cur \in Accounts /\ row[w.cur] \in Row /\ w \in RunType /\ row \in [Accounts -> Row]
  BY <1>2, CurHere DEF WatchInv, TypeOK
<1>4. PICK n : n = Released(row[w.cur], "w")  OBVIOUS
<1>5. SameBooking(row[w.cur], n) /\ n.reconcile = row[w.cur].reconcile  BY <1>3, <1>4, ReleasedIs
<1>6. row'[w.cur] = n /\ \A x \in Accounts : x # w.cur => row'[x] = row[x]  BY <1>1, <1>3, <1>4
<1>7. row[w.cur].lease = "w"  BY <1>2 DEF WatchInv, RunHolds
<1>8. MovesOn(w, w') /\ w'.at # "shed"  BY <1>1, <1>3, OnwardMovesOn, OnwardAt
<1> QED  BY <1>1, <1>2, <1>5, <1>6, <1>7, <1>8, HandMovesOn DEF SameBooking, SameLease

\* A step under the lease that keeps the rows' bookings, flags and leases.
LEMMA HandHolds ==
  ASSUME WatchInv, HandInv, Grows, UNCHANGED <<u, led>>, w'.plan = w.plan, RunHand',
         \A i \in cut' : i \in cut \/ AtBots(i),
         \A a \in Accounts : /\ SameBooking(row[a], row'[a]) /\ row'[a].reconcile = row[a].reconcile
                             /\ SameLease(row[a], row'[a])
  PROVE  HandInv'
<1>1. PlansHand'  BY PlansHandStay DEF HandInv
<1> QED  BY <1>1, HandWatcher

LEMMA HandMark ==
  ASSUME WatchInv, HandInv, Mark
  PROVE  HandInv'
<1>1. /\ UNCHANGED <<u, res, led, cut>> /\ w.at = "mark" /\ w.at \in Holding
      /\ row' = [row EXCEPT ![w.cur].marker = TRUE]
      /\ w' = [w EXCEPT !.at = IF StopActing THEN "write" ELSE "extras", !.cand = Extras(w.cur, Cur, w.seen)]
  BY DEF Mark, Outside, Crew, course, history, Holding
<1>2. Grows  BY <1>1 DEF Grows
<1>3. w.cur \in Accounts /\ w \in RunType /\ row \in [Accounts -> Row] /\ Bound(Cur.row, w.cur)
  BY <1>1, CurHere DEF WatchInv, TypeOK
<1>4. PICK cand : cand = Extras(w.cur, Cur, w.seen)  OBVIOUS
<1>5. w'.at \in {"write", "extras"} /\ w'.cur = w.cur /\ w'.plan = w.plan /\ w'.cand = cand
  BY <1>1, <1>3, <1>4 DEF RunType
<1>6. Cur.row.status = "booked" /\ Of(Cur.row.raw, w.cur)  BY <1>1, <1>3 DEF WatchInv, CurOK, Bound
<1>7. \A i \in cand : i \in Ids /\ AtBots(i)
  <2> TAKE i \in cand
  <2>1. i \in w.seen /\ Owned(Cur, i)  BY <1>4 DEF Extras, Eligible
  <2>2. Of(i, w.cur)  BY <2>1 DEF WatchInv, RunBound
  <2> QED  BY <1>1, <1>6, <2>1, <2>2, OwnedAtBots DEF Of
<1>8. AtBots(Cur.row.raw)  BY <1>1 DEF HandInv, RunHand
<1>9. Cur' = Cur  BY <1>5 DEF Cur
<1>10. RunHand'
  <2>1. \A i \in cand : AtBots(i)'  BY <1>2, <1>7, AtBotsGrow
  <2>2. AtBots(Cur.row.raw)'  BY <1>2, <1>6, <1>8, <1>9, AtBotsGrow DEF Of
  <2> QED  BY <1>5, <2>1, <2>2 DEF RunHand, Shedders
<1>11. \A a \in Accounts : /\ SameBooking(row[a], row'[a]) /\ row'[a].reconcile = row[a].reconcile
                           /\ SameLease(row[a], row'[a])
  BY <1>1, <1>3 DEF SameBooking, SameLease
<1> QED  BY <1>1, <1>2, <1>5, <1>10, <1>11, HandHolds

LEMMA HandCancelExtra ==
  ASSUME WatchInv, HandInv, CancelExtra
  PROVE  HandInv'
<1>1. UNCHANGED <<u, row, led>> /\ w.at = "extras" /\ w.at \in Holding /\ w.cand # {}
  BY DEF CancelExtra, Outside, Crew, Holding
<1>2. w.cur \in Accounts /\ w \in RunType /\ w.cand \subseteq Ids /\ Bound(Cur.row, w.cur)
  BY <1>1, CurHere DEF WatchInv, PhaseOK
<1>3. PICK i \in w.cand : i = BestRes(w.cur, w.cand)  BY <1>1, <1>2, BestResIn DEF WatchInv
<1>4. PICK answer \in CancelAnswers :
        /\ Cancelling(i, answer)
        /\ w' = [w EXCEPT !.cand = @ \ {i},
                          !.cuts = IF answer = "ok" THEN @ \cup {i} ELSE @,
                          !.halt = (answer = "throttle"),
                          !.at = IF answer = "throttle" THEN "write" ELSE @]
  BY <1>3 DEF CancelExtra
<1>5. PICK halt : halt = (answer = "throttle")  OBVIOUS
<1>6. w' = [w EXCEPT !.cand = @ \ {i}, !.cuts = IF answer = "ok" THEN @ \cup {i} ELSE @,
                     !.halt = halt, !.at = IF answer = "throttle" THEN "write" ELSE @]
  BY <1>4, <1>5
<1>7. w'.at \in {"write", "extras"} /\ w'.cur = w.cur /\ w'.plan = w.plan /\ w'.cand = w.cand \ {i}
  BY <1>1, <1>2, <1>6 DEF RunType
<1>8. Grows /\ cut' \subseteq cut \cup {i}  BY <1>4, CancellingIs
<1>9. (\A j \in w.cand : AtBots(j)) /\ AtBots(Cur.row.raw)  BY <1>1 DEF HandInv, RunHand
<1>10. Cur' = Cur  BY <1>7 DEF Cur
<1>11. RunHand'
  <2>1. \A j \in w.cand : AtBots(j)'  BY <1>2, <1>8, <1>9, AtBotsGrow
  <2>2. Cur.row.raw \in Ids  BY <1>1, <1>2 DEF WatchInv, CurOK, Bound, Of
  <2>3. AtBots(Cur.row.raw)'  BY <1>8, <1>9, <1>10, <2>2, AtBotsGrow
  <2> QED  BY <1>7, <2>1, <2>3 DEF RunHand, Shedders
<1> QED  BY <1>1, <1>3, <1>7, <1>8, <1>9, <1>11, HandHolds DEF SameBooking, SameLease

LEMMA HandUpgrade ==
  ASSUME WatchInv, HandInv, Upgrade
  PROVE  HandInv'
<1>1. UNCHANGED <<u, row, led>> /\ w.at = "extras" /\ w.at \in Holding
  BY DEF Upgrade, Outside, Crew, Holding
<1>2. w \in RunType  BY <1>1, CurHere
<1>3. PICK raw : raw = Cur.row.raw /\ AtBots(raw)  BY <1>1 DEF HandInv, RunHand
<1>4. Grows /\ cut' \subseteq cut \cup {raw} /\ w'.plan = w.plan /\ w'.at \in {"write", "rebook"}
  <2>1. CASE Targets = {}
    <3>1. w' = [w EXCEPT !.at = "write"] /\ UNCHANGED <<res, cut>>  BY <2>1 DEF Upgrade, course, history
    <3> QED  BY <1>2, <3>1 DEF RunType, Grows
  <2>2. CASE Targets # {}
    <3>1. PICK answer \in CancelAnswers :
              /\ Cancelling(Cur.row.raw, answer)
              /\ w' = [w EXCEPT !.at = IF answer = "ok" THEN "rebook" ELSE "write",
                                !.cand = IF answer = "ok" THEN {BestSlot(w.cur, Targets)} ELSE {},
                                !.cuts = IF answer = "ok" THEN @ \cup {Cur.row.raw} ELSE @]
      BY <2>2 DEF Upgrade
    <3>2. Grows /\ cut' \subseteq cut \cup {raw}  BY <1>3, <3>1, CancellingIs
    <3> QED  BY <1>2, <3>1, <3>2 DEF RunType
  <2> QED  BY <2>1, <2>2
<1>5. RunHand'  BY <1>4, RunHandRests DEF Shedders
<1> QED  BY <1>1, <1>3, <1>4, <1>5, HandHolds DEF SameBooking, SameLease

LEMMA HandPosting ==
  ASSUME WatchInv, HandInv, w.at \in {"rebook", "pick"}, NEW s \in w.cand,
         NEW after \in {"write", "pick"}, after = "pick" => w.at = "pick",
         Posting(s, after), UNCHANGED <<Outside, row, led, snap, moved>>
  PROVE  HandInv'
<1>1. UNCHANGED <<u, row, led, cut>> /\ w'.at \in {"write", after} /\ w'.plan = w.plan /\ Grows
  BY PostingIs
<1>2. RunHand'  BY <1>1, RunHandRests DEF Shedders
<1> QED  BY <1>1, <1>2, HandHolds DEF SameBooking, SameLease

LEMMA HandPick ==
  ASSUME WatchInv, HandInv, Rebook \/ Pick
  PROVE  HandInv'
<1>1. w.at \in {"rebook", "pick"} /\ UNCHANGED <<Outside, row, led, snap, moved>>  BY DEF Rebook, Pick
<1>2. w.at \in Holding  BY <1>1 DEF Holding
<1>3. w.cur \in Accounts /\ w \in RunType /\ w.cand \subseteq Slots  BY <1>1, <1>2, CurHere DEF WatchInv, PhaseOK
<1>4. CASE Rebook
  <2>1. PICK s \in w.cand : Posting(s, "write")  BY <1>4 DEF Rebook
  <2> QED  BY <1>1, <2>1, HandPosting
<1>5. CASE Pick /\ w.cand # {}
  <2>1. PICK s \in w.cand : s = BestSlot(w.cur, w.cand)  BY <1>3, <1>5, BestSlotIn
  <2> QED  BY <1>1, <1>5, <2>1, HandPosting DEF Pick
<1>6. CASE Pick /\ w.cand = {}
  <2>1. w' = [w EXCEPT !.at = "write"] /\ UNCHANGED <<u, row, res, led, cut>>
    BY <1>6 DEF Pick, course, history, Outside, Crew
  <2>2. w'.at = "write" /\ w'.plan = w.plan /\ Grows  BY <1>3, <2>1 DEF RunType, Grows
  <2>3. RunHand'  BY <2>2, RunHandRests DEF Shedders
  <2> QED  BY <2>1, <2>2, <2>3, HandHolds DEF SameBooking, SameLease
<1> QED  BY <1>4, <1>5, <1>6

\* An outcome names the bot's, and flags a booking only where it is the bot's.
BotsOnly(f) == \A i \in DOMAIN f : AtBots(i)
Handed(o) ==
    /\ BotsOnly(o.entries)
    /\ o.to = "booked" /\ o.reconcile => Bots(w.cur, res[o.raw].slot)
    /\ o.to = "same" /\ o.reconcile => Cur.row.status = "pending"

LEMMA BotsNone == BotsOnly(NoEntries)
BY DEF BotsOnly, NoEntries

LEMMA BotsEntries ==
  ASSUME NEW S, \A i \in S : AtBots(i), NEW state
  PROVE  BotsOnly(Entries(S, state))
BY DEF BotsOnly, Entries

LEMMA BotsPlus ==
  ASSUME NEW f, NEW g, BotsOnly(f), BotsOnly(g)
  PROVE  BotsOnly(Plus(f, g))
BY DEF BotsOnly, Plus

LEMMA BotsLedgered ==
  ASSUME TrailHand, NEW i \in Ids, NEW state
  PROVE  BotsOnly(Ledgered(i, state))
BY BotsNone, BotsEntries DEF Ledgered, TrailHand

LEMMA IsHanded ==
  ASSUME NEW to, NEW raw, NEW rec \in BOOLEAN, NEW clear, NEW e, BotsOnly(e),
         to = "booked" /\ rec => Bots(w.cur, res[raw].slot), to = "same" /\ rec => Cur.row.status = "pending"
  PROVE  Handed(Outcome(to, raw, rec, clear, e))
BY DEF Handed, Outcome

LEMMA EngineHanded ==
  ASSUME WatchInv, HandInv, w.at = "write", w.pre = "engine", NEW k, k = 0 \/ k \in Survivors(Cur, w.cuts, w.seen)
  PROVE  Handed(EngineOutcome(Cur, k))
<1>1. w.at \in Holding /\ w.at \in Holding \ Shedders  BY DEF Holding, Shedders
<1>2. PICK a \in Accounts : a = w.cur /\ Bound(Cur.row, a) /\ w \in RunType /\ Cur = w.plan[a]  BY <1>1, CurHere
<1>3. TrailHand /\ \A i \in Cur.own : AtBots(i)  BY <1>2 DEF HandInv, PlansHand
<1>4. k # 0 => AtBots(k)  BY <1>3 DEF Survivors
<1>5. w.unsure \in BOOLEAN  BY <1>2 DEF RunType
<1>6. w.new # 0 => AtBots(w.new) /\ Bots(w.cur, res[w.new].slot)
  <2>1. w.new # 0 => w.new \in Ids /\ res[w.new].acct = a /\ res[w.new].by = "watch"
    BY <1>2 DEF WatchInv, RunBound, Of
  <2> QED  BY <1>2, <2>1, MadeAtBots
<1>7. CASE Cur.row.status = "pending"
  <2>1. CASE w.new = 0
    <3>1. EngineOutcome(Cur, k) = Outcome("same", 0, w.unsure, FALSE, NoEntries)
      BY <1>7, <2>1 DEF EngineOutcome, PendingOutcome
    <3> QED  BY <1>5, <1>7, <3>1, BotsNone, IsHanded
  <2>2. CASE w.new # 0
    <3>1. EngineOutcome(Cur, k) = Outcome("booked", w.new, w.unsure, FALSE, Entries({w.new}, "held"))
      BY <1>7, <2>2 DEF EngineOutcome, PendingOutcome
    <3>2. BotsOnly(Entries({w.new}, "held"))  BY <1>6, <2>2, BotsEntries
    <3> QED  BY <1>5, <1>6, <2>2, <3>1, <3>2, IsHanded
  <2> QED  BY <2>1, <2>2
<1>8. CASE Cur.row.status # "pending"
  <2>1. Cur.row.status = "booked"  BY <1>1, <1>8 DEF WatchInv, RunHolds, Active
  <2>2. PICK old \in Ids : old = Cur.row.raw  BY <1>2, <2>1 DEF Bound, Of
  <2>3. PICK extras : extras = CutExtras(Cur, w.cuts)  OBVIOUS
  <2>4. BotsOnly(extras)
    <3>1. \A i \in (Cur.own \cap w.cuts) \ {Cur.row.raw} : AtBots(i)  BY <1>3
    <3> QED  BY <2>3, <3>1, BotsEntries DEF CutExtras
  <2>5. PICK upgraded : upgraded = Plus(extras, Ledgered(old, "cancelled_upgrade"))  OBVIOUS
  <2>6. BotsOnly(upgraded)  BY <1>3, <2>2, <2>4, <2>5, BotsLedgered, BotsPlus
  <2>7. CASE old \notin w.cuts
    <3>1. PICK clear : clear = (UpgradeAllowed(Cur) /\ ~dry)  OBVIOUS
    <3>2. EngineOutcome(Cur, k) = Outcome("same", 0, w.unsure, clear, extras)
      <4>1. Outcome("same", 0, w.unsure, UpgradeAllowed(Cur) /\ ~dry, extras) = Outcome("same", 0, w.unsure, clear, extras)
        BY <3>1, Zenon
      <4>2. EngineOutcome(Cur, k) = Outcome("same", 0, w.unsure, UpgradeAllowed(Cur) /\ ~dry, extras)
        BY <1>8, <2>2, <2>3, <2>7, Zenon DEF EngineOutcome, BookedOutcome
      <4> QED  BY <4>1, <4>2
    <3>3. ~w.unsure  BY <1>1, <2>1, <2>2, <2>7 DEF WatchInv, CurOK
    <3>4. Handed(Outcome("same", 0, w.unsure, clear, extras))  BY <1>5, <2>4, <3>3, IsHanded
    <3> QED  BY <3>2, <3>4, Zenon
  <2>8. CASE old \in w.cuts /\ w.new # 0
    <3>1. PICK e : e = Plus(upgraded, Entries({w.new}, "held"))  OBVIOUS
    <3>2. BotsOnly(e)  BY <1>6, <2>6, <2>8, <3>1, BotsEntries, BotsPlus
    <3>3. EngineOutcome(Cur, k) = Outcome("booked", w.new, w.unsure, TRUE, e)
      BY <1>8, <2>2, <2>3, <2>5, <2>8, <3>1 DEF EngineOutcome, BookedOutcome
    <3> QED  BY <1>5, <1>6, <2>8, <3>2, <3>3, IsHanded
  <2>9. CASE old \in w.cuts /\ w.new = 0 /\ k # 0
    <3>1. PICK e : e = Plus(Plus(extras, Ledgered(old, "cancelled_extra")), Entries({k}, "held"))  OBVIOUS
    <3>2. BotsOnly(e)
      <4>1. BotsOnly(Ledgered(old, "cancelled_extra"))  BY <1>3, BotsLedgered
      <4>2. BotsOnly(Entries({k}, "held"))  BY <1>4, <2>9, BotsEntries
      <4> QED  BY <2>4, <3>1, <4>1, <4>2, BotsPlus
    <3>3. EngineOutcome(Cur, k) = Outcome("booked", k, FALSE, TRUE, e)
      BY <1>8, <2>2, <2>3, <2>9, <3>1 DEF EngineOutcome, BookedOutcome
    <3> QED  BY <3>2, <3>3, IsHanded
  <2>10. CASE old \in w.cuts /\ w.new = 0 /\ k = 0
    <3>1. EngineOutcome(Cur, k) = Outcome("pending", 0, TRUE, TRUE, upgraded)
      BY <1>8, <2>2, <2>3, <2>5, <2>10 DEF EngineOutcome, BookedOutcome
    <3> QED  BY <2>6, <3>1, IsHanded
  <2> QED  BY <2>7, <2>8, <2>9, <2>10
<1> QED  BY <1>7, <1>8

LEMMA SnapshotHanded ==
  ASSUME WatchInv, HandInv, w.at = "write", w.pre # "engine", NEW i, w.pre = "adopt" => i \in Adoptable(Cur)
  PROVE  Handed(SnapshotOutcome(Cur, i))
<1>1. w.at \in Holding /\ w.at \in Holding \ Shedders  BY DEF Holding, Shedders
<1>2. w.pre \in {"adopt", "bot", "external"}
  <2>1. w.pre # "none"  BY <1>1 DEF WatchInv, PhaseOK
  <2> QED  BY <2>1 DEF WatchInv, TypeOK, RunType
<1>3. CASE w.pre = "adopt"
  <2>1. i \in w.seen  BY <1>3 DEF Adoptable
  <2>2. Of(i, w.cur)  BY <2>1 DEF WatchInv, RunBound
  <2>3. Cur.row.status \in {"pending", "booked"}  BY <1>1 DEF WatchInv, RunHolds, Active
  <2>4. Adopted(Cur, i) => AtBots(i)  BY <1>1, <2>2, <2>3, OwnedAtBots DEF Owned
  <2>5. PICK e : e = IF i \notin Cur.own /\ Adopted(Cur, i) THEN Entries({i}, "held") ELSE NoEntries  OBVIOUS
  <2>6. BotsOnly(e)
    <3>1. Adopted(Cur, i) => BotsOnly(Entries({i}, "held"))  BY <2>4, BotsEntries
    <3> QED  BY <2>5, <3>1, BotsNone
  <2>7. SnapshotOutcome(Cur, i) = Outcome("booked", i, FALSE, TRUE, e)
    BY <1>3, <2>5 DEF SnapshotOutcome, AdoptOutcome
  <2> QED  BY <2>6, <2>7, IsHanded
<1>4. CASE w.pre = "bot"
  <2>1. SnapshotOutcome(Cur, i) = Outcome("pending", 0, TRUE, TRUE, NoEntries)  BY <1>4 DEF SnapshotOutcome
  <2> QED  BY <2>1, BotsNone, IsHanded
<1>5. CASE w.pre = "external"
  <2>1. SnapshotOutcome(Cur, i) = Outcome("external", 0, FALSE, TRUE, NoEntries)  BY <1>5 DEF SnapshotOutcome
  <2> QED  BY <2>1, BotsNone, IsHanded
<1> QED  BY <1>2, <1>3, <1>4, <1>5

LEMMA OutcomesHanded ==
  ASSUME WatchInv, HandInv, w.at = "write", NEW o \in Outcomes
  PROVE  Handed(o)
<1>1. CASE w.pre = "engine"
  <2>1. PICK surv : surv = Survivors(Cur, w.cuts, w.seen)  OBVIOUS
  <2>2. o \in {EngineOutcome(Cur, k) : k \in IF surv = {} THEN {0} ELSE surv}  BY <1>1, <2>1 DEF Outcomes
  <2>3. PICK k : (k = 0 \/ k \in surv) /\ o = EngineOutcome(Cur, k)  BY <2>2
  <2> QED  BY <1>1, <2>1, <2>3, EngineHanded
<1>2. CASE w.pre # "engine"
  <2>1. o \in {SnapshotOutcome(Cur, i) : i \in IF w.pre = "adopt" THEN Adoptable(Cur) ELSE {0}}
    BY <1>2 DEF Outcomes
  <2>2. PICK i : (w.pre = "adopt" => i \in Adoptable(Cur)) /\ o = SnapshotOutcome(Cur, i)  BY <2>1
  <2> QED  BY <1>2, <2>2, SnapshotHanded
<1> QED  BY <1>1, <1>2

LEMMA HandWrite ==
  ASSUME WatchInv, HandInv, "again" \notin Faults, Write
  PROVE  HandInv'
<1>1. UNCHANGED <<u, res, cut>> /\ w.at = "write" /\ w.at \in Holding
  BY DEF Write, Outside, Crew, course, history, Holding
<1>2. PICK a \in Accounts : a = w.cur /\ row[a] \in Row /\ row \in [Accounts -> Row] /\ w \in RunType
  BY <1>1, CurHere DEF WatchInv, TypeOK
<1>3. PICK n : /\ row' = [row EXCEPT ![a] = n] /\ n \in Row
               /\ \/ led' = led /\ w' = WIdle /\ n = Released(row[a], "w")
                  \/ \E o \in Outcomes : led' = Ledger(o) /\ w' = Onward(w) /\ Becomes(row[a], o, "w", n)
  BY <1>2, WriteIs
<1>4. row'[a] = n /\ \A x \in Accounts : x # a => row'[x] = row[x]  BY <1>2, <1>3
<1>5. /\ Active(row[a]) /\ row[a].status = Cur.row.status /\ row[a].lease = "w" /\ FlagOK(row[a], a)
      /\ Grows
  BY <1>1, <1>2 DEF WatchInv, RunHolds, HandInv, RowsHand, Grows
<1>6. /\ (SameBooking(row[a], n) /\ n.reconcile = row[a].reconcile) \/ n.status # "booked" \/ FlagOK(row[a], a)'
      /\ \A i \in Ids : (led'[i] = led[i] \/ AtBots(i)) /\ (led[i] # "none" => led'[i] # "none")
      /\ MovesOn(w, w') /\ w'.at # "shed"
  <2>1. CASE led' = led /\ w' = WIdle /\ n = Released(row[a], "w")
    <3>1. SameBooking(row[a], n) /\ n.reconcile = row[a].reconcile  BY <1>2, <2>1, ReleasedIs
    <3>2. MovesOn(w, w') /\ w'.at # "shed"  BY <1>2, <2>1, IdleMovesOn DEF WIdle
    <3> QED  BY <2>1, <3>1, <3>2
  <2>2. ASSUME NEW o \in Outcomes, led' = Ledger(o), w' = Onward(w), Becomes(row[a], o, "w", n)
        PROVE  /\ n.status # "booked" \/ FlagOK(row[a], a)'
               /\ \A i \in Ids : (led'[i] = led[i] \/ AtBots(i)) /\ (led[i] # "none" => led'[i] # "none")
               /\ MovesOn(w, w') /\ w'.at # "shed"
    <3>1. MovesOn(w, w') /\ w'.at # "shed"  BY <1>2, <2>2, OnwardMovesOn, OnwardAt
    <3>2. Handed(o)  BY <1>1, OutcomesHanded
    <3>3. OutcomeOK(o) /\ o.to # "user"  BY <1>1, OutcomesWritable DEF Writable
    <3>4. \A i \in Ids : (led'[i] = led[i] \/ AtBots(i)) /\ (led[i] # "none" => led'[i] # "none")
      BY <2>2, <3>2, <3>3, LedgerKeeps DEF Handed, BotsOnly, WatchInv
    <3>5. n.status # "booked" \/ FlagOK(row[a], a)'
      <4> SUFFICES ASSUME n.status = "booked", n.reconcile, n.tee # 0 PROVE Bots(a, n.tee)'
        BY <1>4 DEF FlagOK
      <4>1. o.to \in {"same", "booked"}  BY <2>2, <3>3 DEF Becomes, OutcomeOK
      <4>2. CASE o.to = "same"
        <5>1. row[a].status = "booked" /\ n.tee = row[a].tee /\ (row[a].reconcile \/ o.reconcile)
          BY <2>2, <4>2 DEF Becomes
        <5>2. row[a].reconcile  BY <1>5, <3>2, <4>2, <5>1 DEF Handed
        <5>3. Bots(a, n.tee)  BY <1>5, <5>1, <5>2 DEF FlagOK
        <5> QED  BY <1>5, <5>3, AtBotsGrow
      <4>3. CASE o.to = "booked"
        <5>1. n.tee = res[o.raw].slot /\ o.reconcile  BY <2>2, <4>3 DEF Becomes
        <5>2. Bots(a, n.tee)  BY <1>2, <3>2, <4>3, <5>1 DEF Handed
        <5> QED  BY <1>5, <5>2, AtBotsGrow
      <4> QED  BY <4>1, <4>2, <4>3
    <3> QED  BY <3>1, <3>4, <3>5
  <2> QED  BY <1>3, <2>1, <2>2
<1>7. \A x \in Accounts : \/ SameBooking(row[x], row'[x]) /\ row'[x].reconcile = row[x].reconcile
                          \/ row'[x].status # "booked"
                          \/ FlagOK(row[x], x)'
  BY <1>4, <1>6 DEF SameBooking
<1>8. \A x \in Accounts : row[x].lease = "u" => SameLease(row[x], row'[x])  BY <1>4, <1>5 DEF SameLease
<1> QED  BY <1>1, <1>5, <1>6, <1>7, <1>8, HandMovesOn

LEMMA HandStep ==
  ASSUME WatchInv, HandInv, ~Grouped, "again" \notin Faults, "late" \notin Faults, [WNext]_vars
  PROVE  HandInv'
<1>1. Grows  BY PostsGrow
<1>2. CASE UNCHANGED vars
  <2>1. UNCHANGED <<res, row, led, w, u, cut>>  BY <1>2 DEF vars
  <2>2. PlansHand' /\ RunHand'  BY <1>1, <2>1, PlansHandStay, RunHandStays DEF HandInv
  <2> QED  BY <1>1, <2>1, <2>2, HandWatcher DEF SameBooking, SameLease
<1>3. CASE Watching
  <2>1. w.at \notin Shedders \cup {"shed"}  BY DEF HandInv, RunHand
  <2>2. ~(Shed \/ ShedCancel \/ ShedWrite)  BY <2>1 DEF Shed, ShedCancel, ShedWrite, Shedders
  <2> QED
    BY <1>3, <2>2, HandBegin, HandPlan, HandLogin, HandAct, HandRelease, HandMark, HandCancelExtra, HandUpgrade,
       HandPick, HandWrite, HandRunEnds DEF Watching
<1>4. CASE SearchThrottled \/ LoginFails \/ LoginThrottled \/ WatcherDies  BY <1>4, HandRunEnds
<1>5. CASE WebCancel \/ WebWrite \/ CutoffPasses  BY <1>1, <1>5, HandCrew, HandWebWrite
<1>6. ASSUME NEW a \in Accounts,
             \/ WebLease(a) \/ Expire(a) \/ HandBook(a)
             \/ BookerClaim(a) \/ BookerPost(a) \/ BookerEnd(a) \/ BookerDies(a)
      PROVE  HandInv'
  BY <1>1, <1>6, HandCrew, HandBookerEnd
<1>7. ASSUME NEW i \in Ids, HandCancel(i) PROVE HandInv'  BY <1>1, <1>7, HandCrew
<1> QED  BY <1>2, <1>3, <1>4, <1>5, <1>6, <1>7 DEF WNext

\* Outside a group the bot cancels nothing the user booked by hand, save at the very
\* tee time of a booking of its own, as long as no write lands with its answer lost
\* and no web request outlives its lease.
THEOREM HandBookingsKept ==
  ASSUME ~Grouped, "again" \notin Faults, "late" \notin Faults
  PROVE  WSpec => []HandKept
<1>1. WInit => HandInv
  <2> SUFFICES ASSUME WInit PROVE HandInv  OBVIOUS
  <2>1. /\ cut = {} /\ w = WIdle /\ u = UIdle /\ led = [i \in Ids |-> "none"]
        /\ row = [a \in Accounts |-> NewRow]
    BY DEF WInit
  <2>2. RowsHand  BY <2>1 DEF RowsHand, FlagOK, NewRow
  <2>3. PlansHand
    <3>1. \A a \in Accounts : WIdle.plan[a] = NoPlan  BY DEF WIdle
    <3> QED  BY <2>1, <3>1 DEF PlansHand, FlagOK, NoPlan, NewRow
  <2>4. TrailHand  BY <2>1 DEF TrailHand
  <2>5. RunHand  BY <2>1 DEF RunHand, WIdle, Shedders
  <2>6. WebHand  BY <2>1 DEF WebHand, UIdle
  <2> QED  BY <2>2, <2>3, <2>4, <2>5, <2>6 DEF HandInv
<1>2. WatchInv /\ HandInv /\ [WNext]_vars => HandInv'  BY HandStep
<1>3. WatchInv /\ HandInv => HandKept
  <2> SUFFICES ASSUME WatchInv, HandInv, NEW i \in cut, res[i].by = "hand"
               PROVE  \E j \in Ids : j # i /\ res[j] = [res[i] EXCEPT !.by = res[j].by] /\ res[j].by # "hand"
    BY DEF HandKept
  <2>1. i \in Ids /\ AtBots(i)  BY DEF WatchInv, TypeOK, HandInv, TrailHand
  <2>2. PICK j \in Ids : res[j].acct = res[i].acct /\ res[j].slot = res[i].slot /\ res[j].by \in {"watch", "booker"}
    BY <2>1 DEF AtBots, Bots
  <2>3. res[i] \in ResType /\ res[j] \in ResType  BY <2>1, <2>2 DEF WatchInv, TypeOK
  <2>4. res[j] = [res[i] EXCEPT !.by = res[j].by]  BY <2>2, <2>3 DEF ResType, NoRes
  <2> QED  BY <2>2, <2>4
<1>4. WSpec => []WatchInv  BY WatchInvariant
<1> QED  BY <1>1, <1>2, <1>3, <1>4, PTL DEF WSpec

-----------------------------------------------------------------------------
(* The collapse never takes the last reservation, when only the watcher    *)
(* cancels and no cancel of its goes unrecorded.                           *)

\* A step that does not cancel.
LEMMA CutsOnly ==
  ASSUME WatchInv, OnlyCuts, [WNext]_vars, live \subseteq live' \cup cut', cut \subseteq cut'
  PROVE  OnlyCuts'
<1>1. CASE res' = res  BY <1>1 DEF OnlyCuts, Used
<1>2. ASSUME NEW a, NEW s, NEW by, NEW i, Posted(a, s, by, i) PROVE OnlyCuts'
  BY <1>2 DEF OnlyCuts, Used, Posted
<1> QED  BY <1>1, <1>2, MadeBy

\* Between two rows, and while the collapse looks at rows, no row names a cancelled booking.
LEMMA NoneCut ==
  ASSUME KeepInv, w.at \notin (Holding \ Shedders) \cup {"shedwrite"}
  PROVE  \A a \in Accounts : row[a].status = "booked" => row[a].raw \notin cut
BY DEF KeepInv, CutHeld

\* The others may only lease rows, or book a pending one.
LEMMA KeepBeside ==
  ASSUME WatchInv, KeepInv, [WNext]_vars, w' = w, cut' = cut, live \subseteq live', u'.at = "idle",
         \A x \in Accounts : \/ SameBooking(row[x], row'[x])
                             \/ row[x].status = "pending" /\ row'[x].raw \notin cut
  PROVE  KeepInv'
<1>1. OnlyCuts'  BY CutsOnly DEF KeepInv
<1>2. CutHeld'  BY DEF KeepInv, CutHeld, SameBooking
<1>3. BestKept'  BY DEF KeepInv, BestKept, SameBooking
<1> QED  BY <1>1, <1>2, <1>3 DEF KeepInv

LEMMA KeepCrew ==
  ASSUME WatchInv, BlameInv, KeepInv, OnlyWatcherCancels, [WNext]_vars,
         \/ \E a \in Accounts : \/ WebLease(a) \/ Expire(a) \/ BookerClaim(a) \/ BookerPost(a)
                                \/ BookerEnd(a) \/ BookerDies(a) \/ HandBook(a)
         \/ \E i \in Ids : HandCancel(i)
         \/ WebCancel \/ WebWrite \/ CutoffPasses
  PROVE  KeepInv'
<1> USE DEF OnlyWatcherCancels
<1>1. CASE WebCancel \/ WebWrite \/ (\E a \in Accounts : WebLease(a) \/ HandBook(a)) \/ \E i \in Ids : HandCancel(i)
  BY <1>1 DEF WebCancel, WebWrite, WebLease, HandBook, HandCancel, KeepInv
<1>2. ASSUME NEW a \in Accounts, BookerEnd(a) PROVE KeepInv'
  <2>1. PICK o, n : /\ OutcomeOK(o) /\ o.to \in {"same", "booked"} /\ (o.to = "booked" => o.raw \in b[a].ids)
                    /\ row' = [row EXCEPT ![a] = n] /\ Becomes(row[a], o, "b", n)
    BY <1>2, BookerEndIs
  <2>2. w' = w /\ cut' = cut /\ live' = live /\ u' = u /\ row[a].status = "pending"
    BY <1>2 DEF BookerEnd, course, history, WatchInv, BookerHolds
  <2>3. SameBooking(row[a], n) \/ n.raw \notin cut
    BY <2>1 DEF Becomes, SameBooking, BlameInv, CutGone
  <2>4. row'[a] = n /\ \A x \in Accounts : x # a => row'[x] = row[x]  BY <2>1 DEF WatchInv, TypeOK
  <2> QED  BY <2>2, <2>3, <2>4, KeepBeside DEF SameBooking, KeepInv
<1>3. ASSUME NEW a \in Accounts, Expire(a) \/ BookerClaim(a) \/ BookerPost(a) \/ BookerDies(a) PROVE KeepInv'
  <2>1. w' = w /\ cut' = cut /\ \A x \in Accounts : SameBooking(row[x], row'[x])
    BY <1>3, OnlyLeases DEF OnlyLease
  <2>2. u' = u /\ live \subseteq live'
    BY <1>3 DEF Expire, BookerClaim, BookerPost, BookerDies, Outside, Crew, course, Reserving
  <2> QED  BY <2>1, <2>2, KeepBeside DEF KeepInv
<1>4. CASE CutoffPasses
  <2>1. w' = w /\ cut' = cut /\ \A x \in Accounts : SameBooking(row[x], row'[x])
    BY <1>4, OnlyLeases DEF OnlyLease
  <2>2. u' = u /\ live \subseteq live'  BY <1>4 DEF CutoffPasses, Crew, course
  <2> QED  BY <2>1, <2>2, KeepBeside DEF KeepInv
<1> QED  BY <1>1, <1>2, <1>3, <1>4

\* The watcher lets go of a row that names no cancelled booking any more.
LEMMA KeepGoesOn ==
  ASSUME WatchInv, KeepInv, [WNext]_vars, u' = u, cut' = cut, live' = live, Resting(w'),
         \A a \in Accounts : row'[a].status = "booked" => row'[a].raw \notin cut,
         w'.at = "shed" => \E x \in Accounts \ w'.todo : row'[x].status = "booked"
  PROVE  KeepInv'
<1>1. OnlyCuts'  BY CutsOnly DEF KeepInv
<1>2. CutHeld'  BY DEF CutHeld
<1>3. BestKept' /\ w'.at # "release"  BY DEF BestKept, Resting, Shedders
<1> QED  BY <1>1, <1>2, <1>3 DEF KeepInv

\* The run works on at the row it holds, and may cancel bookings of its account.
LEMMA KeepHolds ==
  ASSUME WatchInv, KeepInv, [WNext]_vars, u' = u, w.at \in Holding \ Shedders,
         w'.at \in (Holding \ Shedders) \ {"release"}, w'.cur = w.cur, w.cuts \subseteq w'.cuts,
         live \subseteq live' \cup cut', cut \subseteq cut',
         \A i \in cut' : i \in cut \/ (i \in w'.cuts /\ Of(i, w.cur)),
         \A a \in Accounts : SameBooking(row[a], row'[a])
  PROVE  KeepInv'
<1>1. OnlyCuts'  BY CutsOnly DEF KeepInv
<1>2. CutHeld'
  <2> SUFFICES ASSUME NEW a \in Accounts, row'[a].status = "booked", row'[a].raw \in cut'
               PROVE  a = w.cur /\ row'[a].raw \in w'.cuts
    BY DEF CutHeld
  <2>1. row[a].status = "booked" /\ row'[a].raw = row[a].raw  BY DEF SameBooking
  <2>2. Of(row[a].raw, a)  BY <2>1 DEF WatchInv, RowsBound, Bound
  <2>3. CASE row[a].raw \in cut  BY <2>1, <2>3 DEF KeepInv, CutHeld, Shedders
  <2>4. CASE row[a].raw \notin cut  BY <2>1, <2>2, <2>4 DEF Of
  <2> QED  BY <2>3, <2>4
<1>3. BestKept'  BY DEF BestKept, Holding, Shedders
<1> QED  BY <1>1, <1>2, <1>3 DEF KeepInv

LEMMA KeepRunEnds ==
  ASSUME WatchInv, KeepInv, OnlyWatcherCancels, [WNext]_vars,
         SearchThrottled \/ LoginThrottled \/ WatcherDies \/ LoginFails
  PROVE  KeepInv'
<1>1. UNCHANGED <<live, u, row, cut>>
  BY DEF SearchThrottled, LoginThrottled, WatcherDies, LoginFails, Outside, Crew, course, history
<1>2. w \in RunType  BY DEF WatchInv, TypeOK
<1>3. w.at \in {"plan", "login"}
  BY DEF SearchThrottled, LoginThrottled, WatcherDies, LoginFails, OnlyWatcherCancels, Mishap
<1>4. \A a \in Accounts : row'[a].status = "booked" => row'[a].raw \notin cut
  BY <1>1, <1>3, NoneCut DEF Holding
<1>5. CASE LoginFails
  <2>1. w.at = "login" /\ w.todo # {} /\ w.todo \subseteq Nat
    BY <1>2, <1>5, WatchAssumption DEF LoginFails, WatchInv, PhaseOK, RunType, Accounts
  <2>2. Min(w.todo) \in Accounts  BY <1>2, <2>1, MinIn DEF RunType
  <2>3. PICK x : x = [w EXCEPT !.cur = Min(w.todo)]  OBVIOUS
  <2>4. x \in RunType  BY <1>2, <2>2, <2>3 DEF RunType
  <2>5. w' = Onward(x)  BY <1>5, <2>3 DEF LoginFails
  <2>6. Resting(w') /\ w'.at # "shed"  BY <2>4, <2>5, OnwardMovesOn, OnwardAt DEF MovesOn
  <2> QED  BY <1>1, <1>4, <2>6, KeepGoesOn
<1>6. CASE SearchThrottled \/ LoginThrottled \/ WatcherDies
  <2>1. w' = WIdle  BY <1>6 DEF SearchThrottled, LoginThrottled, WatcherDies
  <2>2. Resting(w') /\ w'.at = "idle"  BY <1>2, <2>1, IdleMovesOn DEF WIdle, MovesOn
  <2> QED  BY <1>1, <1>4, <2>2, KeepGoesOn
<1> QED  BY <1>5, <1>6

LEMMA KeepReads ==
  ASSUME WatchInv, KeepInv, [WNext]_vars, Begin \/ Plan \/ Login
  PROVE  KeepInv'
<1>1. CASE Begin
  <2>1. /\ UNCHANGED <<u, live, cut>> /\ w.at = "idle" /\ Resting(w') /\ w'.at = "plan"
        /\ \A a \in Accounts : SameBooking(row[a], row'[a]) \/ row'[a].status = "lost"
    BY <1>1, BeginIs
  <2>2. \A a \in Accounts : row'[a].status = "booked" => row'[a].raw \notin cut
    BY <2>1, NoneCut DEF Holding, SameBooking
  <2> QED  BY <2>1, <2>2, KeepGoesOn
<1>2. CASE Plan
  <2>1. UNCHANGED <<u, live, row, cut>> /\ w.at = "plan" /\ Resting(w') /\ w'.at \in {"collapse", "login"}
    BY <1>2, PlanIs
  <2>2. \A a \in Accounts : row'[a].status = "booked" => row'[a].raw \notin cut  BY <2>1, NoneCut DEF Holding
  <2> QED  BY <2>1, <2>2, KeepGoesOn
<1>3. CASE Login
  <2>1. UNCHANGED <<u, live, row, cut>> /\ w.at = "login" /\ w'.at = "act"  BY <1>3, LoginIs
  <2>2. \A a \in Accounts : row[a].status = "booked" => row[a].raw \notin cut  BY <2>1, NoneCut DEF Holding
  <2>3. OnlyCuts'  BY <2>1, CutsOnly DEF KeepInv
  <2>4. CutHeld' /\ BestKept'  BY <2>1, <2>2 DEF CutHeld, BestKept, Shedders
  <2> QED  BY <2>1, <2>3, <2>4 DEF KeepInv
<1> QED  BY <1>1, <1>2, <1>3

LEMMA KeepAct ==
  ASSUME WatchInv, KeepInv, [WNext]_vars, Act
  PROVE  KeepInv'
<1>1. UNCHANGED <<u, live, cut>> /\ w.at = "act"  BY ActIs
<1>2. w \in RunType  BY DEF WatchInv, TypeOK
<1>3. \A a \in Accounts : row[a].status = "booked" => row[a].raw \notin cut  BY <1>1, NoneCut DEF Holding
<1>4. CASE w' = Onward(w) /\ row' = row
  BY <1>1, <1>2, <1>3, <1>4, OnwardMovesOn, OnwardAt, KeepGoesOn DEF MovesOn
<1>5. CASE TakesRow
  <2>1. \A a \in Accounts : SameBooking(row[a], row'[a])  BY <1>5 DEF TakesRow, SameBooking
  <2>2. w'.at \in {"release", "write", "mark", "pick"} /\ w'.cuts = w.cuts  BY <1>5 DEF TakesRow
  <2>3. w.cuts = {}  BY <1>1 DEF WatchInv, PhaseOK, Holding
  <2>4. OnlyCuts'  BY <1>1, CutsOnly DEF KeepInv
  <2>5. CutHeld' /\ BestKept'  BY <1>1, <1>3, <2>1, <2>2 DEF CutHeld, BestKept, Shedders, SameBooking
  <2> QED  BY <1>1, <2>2, <2>3, <2>4, <2>5 DEF KeepInv
<1> QED  BY <1>4, <1>5, ActIs

LEMMA KeepRelease ==
  ASSUME WatchInv, KeepInv, [WNext]_vars, Release
  PROVE  KeepInv'
<1>1. /\ UNCHANGED <<u, live, cut>> /\ w.at = "release" /\ w' = Onward(w)
      /\ row' = [row EXCEPT ![w.cur] = Released(@, "w")]
  BY DEF Release, Outside, Crew, course, history
<1>2. w.at \in Holding  BY <1>1 DEF Holding
<1>3. w.cur \in Accounts /\ row[w.cur] \in Row /\ w \in RunType /\ row \in [Accounts -> Row]
  BY <1>2, CurHere DEF WatchInv, TypeOK
<1>4. PICK n : n = Released(row[w.cur], "w")  OBVIOUS
<1>5. SameBooking(row[w.cur], n)  BY <1>3, <1>4, ReleasedIs
<1>6. \A a \in Accounts : SameBooking(row[a], row'[a])  BY <1>1, <1>3, <1>4, <1>5 DEF SameBooking
<1>7. \A a \in Accounts : row[a].status = "booked" => row[a].raw \notin cut  BY <1>1 DEF KeepInv, CutHeld
<1>8. \A a \in Accounts : row'[a].status = "booked" => row'[a].raw \notin cut  BY <1>6, <1>7 DEF SameBooking
<1> QED  BY <1>1, <1>3, <1>8, OnwardMovesOn, OnwardAt, KeepGoesOn DEF MovesOn

LEMMA KeepMark ==
  ASSUME WatchInv, KeepInv, [WNext]_vars, Mark
  PROVE  KeepInv'
<1>1. /\ UNCHANGED <<u, live, cut>> /\ w.at = "mark" /\ row' = [row EXCEPT ![w.cur].marker = TRUE]
      /\ w' = [w EXCEPT !.at = IF StopActing THEN "write" ELSE "extras", !.cand = Extras(w.cur, Cur, w.seen)]
  BY DEF Mark, Outside, Crew, course, history
<1>2. w.at \in Holding \ Shedders  BY <1>1 DEF Holding, Shedders
<1>3. w.cur \in Accounts /\ w \in RunType /\ row \in [Accounts -> Row]  BY <1>2, CurHere DEF WatchInv, TypeOK
<1>4. w'.at \in {"write", "extras"} /\ w'.cur = w.cur /\ w'.cuts = w.cuts  BY <1>1, <1>3 DEF RunType
<1>5. w'.at \in (Holding \ Shedders) \ {"release"}  BY <1>4 DEF Holding, Shedders
<1>6. \A a \in Accounts : SameBooking(row[a], row'[a])  BY <1>1, <1>3 DEF Row, SameBooking
<1> QED  BY <1>1, <1>2, <1>4, <1>5, <1>6, KeepHolds

\* What a cancel takes away is on record as cancelled.
LEMMA CancelIs ==
  ASSUME WatchInv, OnlyWatcherCancels, NEW i, NEW answer \in CancelAnswers, Cancelling(i, answer)
  PROVE  /\ live \subseteq live' \cup cut' /\ live \subseteq live' \cup {i}
         /\ cut \subseteq cut' /\ cut' \subseteq cut \cup {i}
         /\ answer # "ok" => cut' = cut /\ live' = live
<1>1. CASE answer = "ok"
  <2>1. live' = live \ {i} /\ cut' = IF i \in live THEN cut \cup {i} ELSE cut  BY <1>1 DEF Cancelling
  <2> QED  BY <1>1, <2>1
<1>2. CASE answer # "ok"
  <2>1. Mishap(answer)  BY <1>2 DEF Cancelling
  <2>2. answer # "cutlost"  BY <2>1 DEF Mishap, OnlyWatcherCancels
  <2>3. live' = live /\ cut' = cut  BY <1>2, <2>2 DEF Cancelling
  <2> QED  BY <1>2, <2>3
<1> QED  BY <1>1, <1>2

LEMMA KeepCancelExtra ==
  ASSUME WatchInv, KeepInv, OnlyWatcherCancels, [WNext]_vars, CancelExtra
  PROVE  KeepInv'
<1>1. UNCHANGED <<u, row>> /\ w.at = "extras" /\ w.at \in Holding \ Shedders /\ w.cand # {}
  BY DEF CancelExtra, Outside, Crew, Holding, Shedders
<1>2. w.cur \in Accounts /\ w \in RunType /\ w.cand \subseteq Ids
  BY <1>1, CurHere DEF WatchInv, PhaseOK
<1>3. PICK i \in w.cand : i = BestRes(w.cur, w.cand)  BY <1>1, <1>2, BestResIn DEF WatchInv
<1>4. PICK answer \in CancelAnswers :
        /\ Cancelling(i, answer)
        /\ w' = [w EXCEPT !.cand = @ \ {i},
                          !.cuts = IF answer = "ok" THEN @ \cup {i} ELSE @,
                          !.halt = (answer = "throttle"),
                          !.at = IF answer = "throttle" THEN "write" ELSE @]
  BY <1>3 DEF CancelExtra
<1>5. PICK halt : halt = (answer = "throttle")  OBVIOUS
<1>6. w' = [w EXCEPT !.cand = @ \ {i}, !.cuts = IF answer = "ok" THEN @ \cup {i} ELSE @,
                     !.halt = halt, !.at = IF answer = "throttle" THEN "write" ELSE @]
  BY <1>4, <1>5
<1>7. /\ w'.at \in {"write", "extras"} /\ w'.cur = w.cur
      /\ w'.cuts = IF answer = "ok" THEN w.cuts \cup {i} ELSE w.cuts
  BY <1>1, <1>2, <1>6 DEF RunType
<1>8. Of(i, w.cur)  BY <1>1, <1>3 DEF WatchInv, RunBound
<1>9. /\ live \subseteq live' \cup cut' /\ cut \subseteq cut' /\ cut' \subseteq cut \cup {i}
      /\ answer # "ok" => cut' = cut
  BY <1>4, CancelIs
<1>10. w'.at \in (Holding \ Shedders) \ {"release"}  BY <1>7 DEF Holding, Shedders
<1> QED  BY <1>1, <1>7, <1>8, <1>9, <1>10, KeepHolds DEF SameBooking

LEMMA KeepUpgrade ==
  ASSUME WatchInv, KeepInv, OnlyWatcherCancels, [WNext]_vars, Upgrade
  PROVE  KeepInv'
<1>1. UNCHANGED <<u, row>> /\ w.at = "extras" /\ w.at \in Holding \ Shedders
  BY DEF Upgrade, Outside, Crew, Holding, Shedders
<1>2. w.cur \in Accounts /\ w \in RunType /\ Bound(Cur.row, w.cur)  BY <1>1, CurHere
<1>3. CASE Targets = {}
  <2>1. w' = [w EXCEPT !.at = "write"] /\ UNCHANGED <<live, cut>>  BY <1>3 DEF Upgrade, course, history
  <2>2. w'.at = "write" /\ w'.cur = w.cur /\ w'.cuts = w.cuts  BY <1>2, <2>1 DEF RunType
  <2>3. w'.at \in (Holding \ Shedders) \ {"release"}  BY <2>2 DEF Holding, Shedders
  <2> QED  BY <1>1, <2>1, <2>2, <2>3, KeepHolds DEF SameBooking
<1>4. CASE Targets # {}
  <2>1. PICK answer \in CancelAnswers :
            /\ Cancelling(Cur.row.raw, answer)
            /\ w' = [w EXCEPT !.at = IF answer = "ok" THEN "rebook" ELSE "write",
                              !.cand = IF answer = "ok" THEN {BestSlot(w.cur, Targets)} ELSE {},
                              !.cuts = IF answer = "ok" THEN @ \cup {Cur.row.raw} ELSE @]
    BY <1>4 DEF Upgrade
  <2>2. PICK i : i = Cur.row.raw  OBVIOUS
  <2>3. /\ w'.at \in {"write", "rebook"} /\ w'.cur = w.cur
        /\ w'.cuts = IF answer = "ok" THEN w.cuts \cup {i} ELSE w.cuts
    BY <1>2, <2>1, <2>2 DEF RunType
  <2>4. Of(i, w.cur)  BY <1>1, <1>2, <2>2 DEF WatchInv, CurOK, Bound
  <2>5. /\ live \subseteq live' \cup cut' /\ cut \subseteq cut' /\ cut' \subseteq cut \cup {i}
        /\ answer # "ok" => cut' = cut
    BY <2>1, <2>2, CancelIs
  <2>6. w'.at \in (Holding \ Shedders) \ {"release"}  BY <2>3 DEF Holding, Shedders
  <2> QED  BY <1>1, <2>3, <2>4, <2>5, <2>6, KeepHolds DEF SameBooking
<1> QED  BY <1>3, <1>4

LEMMA KeepPosting ==
  ASSUME WatchInv, KeepInv, [WNext]_vars, w.at \in {"rebook", "pick"}, NEW s \in w.cand,
         NEW after \in {"write", "pick"}, after = "pick" => w.at = "pick",
         Posting(s, after), UNCHANGED <<Outside, row, led, snap, moved>>
  PROVE  KeepInv'
<1>1. /\ UNCHANGED <<u, row, cut>> /\ w'.at \in {"write", after} /\ w'.cur = w.cur /\ w'.cuts = w.cuts
  BY PostingIs
<1>2. live \subseteq live'  BY DEF Posting, Reserving, course
<1>3. w.at \in Holding \ Shedders /\ w'.at \in (Holding \ Shedders) \ {"release"}  BY <1>1 DEF Holding, Shedders
<1> QED  BY <1>1, <1>2, <1>3, KeepHolds DEF SameBooking

LEMMA KeepPick ==
  ASSUME WatchInv, KeepInv, [WNext]_vars, Rebook \/ Pick
  PROVE  KeepInv'
<1>1. w.at \in {"rebook", "pick"} /\ UNCHANGED <<Outside, row, led, snap, moved>>  BY DEF Rebook, Pick
<1>2. w.at \in Holding \ Shedders  BY <1>1 DEF Holding, Shedders
<1>3. w.cur \in Accounts /\ w \in RunType /\ w.cand \subseteq Slots  BY <1>1, <1>2, CurHere DEF WatchInv, PhaseOK
<1>4. CASE Rebook
  <2>1. PICK s \in w.cand : Posting(s, "write")  BY <1>4 DEF Rebook
  <2> QED  BY <1>1, <2>1, KeepPosting
<1>5. CASE Pick /\ w.cand # {}
  <2>1. PICK s \in w.cand : s = BestSlot(w.cur, w.cand)  BY <1>3, <1>5, BestSlotIn
  <2> QED  BY <1>1, <1>5, <2>1, KeepPosting DEF Pick
<1>6. CASE Pick /\ w.cand = {}
  <2>1. w' = [w EXCEPT !.at = "write"] /\ UNCHANGED <<u, row, live, cut>>
    BY <1>6 DEF Pick, course, history, Outside, Crew
  <2>2. w'.at = "write" /\ w'.cur = w.cur /\ w'.cuts = w.cuts  BY <1>3, <2>1 DEF RunType
  <2>3. w'.at \in (Holding \ Shedders) \ {"release"}  BY <2>2 DEF Holding, Shedders
  <2> QED  BY <1>2, <2>1, <2>2, <2>3, KeepHolds DEF SameBooking
<1> QED  BY <1>4, <1>5, <1>6

\* An outcome that leaves the row as it is was told of no cancel of its booking.
LEMMA SameUncut ==
  ASSUME WatchInv, w.at = "write", NEW o \in Outcomes, o.to = "same", Cur.row.status = "booked"
  PROVE  Cur.row.raw \notin w.cuts
<1>1. CASE w.pre = "engine"
  <2>1. PICK surv : surv = Survivors(Cur, w.cuts, w.seen)  OBVIOUS
  <2>2. o \in {EngineOutcome(Cur, k) : k \in IF surv = {} THEN {0} ELSE surv}  BY <1>1, <2>1 DEF Outcomes
  <2>3. PICK k : o = EngineOutcome(Cur, k)  BY <2>2
  <2>4. o = BookedOutcome(Cur, k)  BY <2>3 DEF EngineOutcome
  <2> QED  BY <2>4 DEF BookedOutcome, Outcome
<1>2. CASE w.pre # "engine"  BY <1>2 DEF WatchInv, PhaseOK
<1> QED  BY <1>1, <1>2

LEMMA KeepWrite ==
  ASSUME WatchInv, BlameInv, KeepInv, OnlyWatcherCancels, [WNext]_vars, Write
  PROVE  KeepInv'
<1>1. UNCHANGED <<u, live, cut>> /\ w.at = "write" /\ w.at \in Holding
  BY DEF Write, Outside, Crew, course, history, Holding
<1>2. PICK a \in Accounts : a = w.cur /\ row[a] \in Row /\ row \in [Accounts -> Row] /\ w \in RunType
  BY <1>1, CurHere DEF WatchInv, TypeOK
<1>3. PICK n : /\ row' = [row EXCEPT ![a] = n] /\ w' = Onward(w)
               /\ \E o \in Outcomes : Written(row[a], o, "w", n)
  <2>1. PICK n : /\ row' = [row EXCEPT ![a] = n]
                 /\ \/ "write" \in Faults
                    \/ \E o \in Outcomes : w' = Onward(w) /\ Written(row[a], o, "w", n)
    BY <1>2, WriteIs
  <2> QED  BY <2>1 DEF OnlyWatcherCancels
<1>4. Active(row[a]) /\ row[a].status = Cur.row.status /\ row[a].raw = Cur.row.raw
  BY <1>1, <1>2 DEF WatchInv, RunHolds
<1>5. n.status = "booked" => n.raw \notin cut
  <2> PICK o \in Outcomes : Written(row[a], o, "w", n)  BY <1>3
  <2>1. Blameless(o)  BY <1>1, OutcomesBlameless
  <2>2. OutcomeOK(o) /\ o.to # "user"  BY <1>1, OutcomesWritable DEF Writable
  <2>3. PICK m : Becomes(row[a], o, "w", m) /\ (n = m \/ n = Flagged(m))  BY DEF Written
  <2>4. m \in Row  BY <2>3 DEF Becomes
  <2>5. n.status = m.status /\ n.raw = m.raw  BY <2>3, <2>4, FlaggedIs DEF SameBooking
  <2>6. o.to \in {"same", "pending", "booked", "external"}  BY <2>2 DEF OutcomeOK
  <2>7. CASE o.to = "same"
    <3>1. m.status = row[a].status /\ m.raw = row[a].raw  BY <2>3, <2>7 DEF Becomes
    <3>2. row[a].status = "booked" => row[a].raw \notin w.cuts  BY <1>1, <1>4, <2>7, SameUncut
    <3>3. row[a].status = "booked" => row[a].raw \notin cut  BY <1>1, <3>2 DEF KeepInv, CutHeld
    <3> QED  BY <2>5, <3>1, <3>3
  <2>8. CASE o.to = "booked"
    <3>1. m.raw = o.raw  BY <2>3, <2>8 DEF Becomes
    <3> QED  BY <2>1, <2>5, <2>8, <3>1 DEF Blameless
  <2>9. CASE o.to \in {"pending", "external"}
    <3>1. m.status = o.to  BY <2>3, <2>9 DEF Becomes
    <3> QED  BY <2>5, <2>9, <3>1
  <2> QED  BY <2>6, <2>7, <2>8, <2>9
<1>6. row'[a] = n /\ \A x \in Accounts : x # a => row'[x] = row[x]  BY <1>2, <1>3
<1>7. \A x \in Accounts : row'[x].status = "booked" => row'[x].raw \notin cut
  BY <1>2, <1>5, <1>6 DEF KeepInv, CutHeld
<1> QED  BY <1>1, <1>2, <1>3, <1>7, OnwardMovesOn, OnwardAt, KeepGoesOn DEF MovesOn

\* Of the booked rows one is ahead of all others.
LEMMA OneIsBest ==
  ASSUME WatchInv, Bookeds # {}
  PROVE  \E x \in Bookeds : x \notin Worse
<1> DEFINE key(a) == BookedRank(a, row[a])
           keys == {key(a) : a \in Bookeds}
<1>1. Bookeds \subseteq Accounts /\ Accounts \subseteq Nat  BY DEF Bookeds, Accounts
<1>2. \A a \in Accounts : key(a) \in Nat
  <2> TAKE a \in Accounts
  <2>1. row[a].tee \in Slots \cup {0}  BY DEF WatchInv, TypeOK, Row
  <2> QED  BY <2>1, WatchAssumption DEF BookedRank, RankOf, Unranked
<1>3. \A a, x \in Accounts : Ahead(x, a) <=> (key(x) < key(a) \/ (key(x) = key(a) /\ x < a))
  BY DEF Ahead, GroupKey
<1> HIDE DEF key
<1>4. keys \subseteq Nat /\ keys # {}  BY <1>1, <1>2
<1>5. PICK k \in keys : \A l \in keys : k <= l  BY <1>4, Least
<1> DEFINE best == {a \in Bookeds : key(a) = k}
<1>6. best \subseteq Nat /\ best # {}  BY <1>1
<1>7. PICK x \in best : \A y \in best : x <= y  BY <1>6, Least
<1>8. \A a \in Bookeds : ~Ahead(a, x)
  <2> TAKE a \in Bookeds
  <2>1. a \in Nat /\ x \in Nat /\ key(a) \in Nat /\ k \in Nat /\ key(x) = k  BY <1>1, <1>2, <1>4
  <2>2. k <= key(a)  BY <1>5
  <2>3. CASE key(a) = k  BY <1>1, <1>3, <1>7, <2>1, <2>3
  <2>4. CASE key(a) # k  BY <1>1, <1>3, <2>1, <2>2, <2>4
  <2> QED  BY <2>3, <2>4
<1> QED  BY <1>8 DEF Worse

LEMMA KeepCollapse ==
  ASSUME WatchInv, KeepInv, [WNext]_vars, Collapse
  PROVE  KeepInv'
<1>1. UNCHANGED <<u, live, row, cut>> /\ w.at = "collapse"  BY DEF Collapse, Outside, Crew, course, history
<1>2. \A a \in Accounts : row[a].status = "booked" => row[a].raw \notin cut  BY <1>1, NoneCut DEF Holding
<1>3. w'.at \in {"idle", "shed"} /\ (w'.at = "shed" => w'.todo = Worse /\ Worse # {})
  <2>1. CASE w' = WIdle  BY <2>1 DEF WIdle
  <2>2. CASE w' # WIdle  BY <2>2 DEF Collapse, WIdle
  <2> QED  BY <2>1, <2>2
<1>4. OnlyCuts' /\ CutHeld'  BY <1>1, <1>2, CutsOnly DEF KeepInv, CutHeld
<1>5. BestKept'
  <2> SUFFICES ASSUME w'.at = "shed" PROVE \E x \in Accounts \ Worse : row[x].status = "booked"
    BY <1>1, <1>3 DEF BestKept, Shedders
  <2>1. Bookeds # {}  BY <1>3 DEF Worse
  <2> QED  BY <2>1, OneIsBest DEF Bookeds
<1> QED  BY <1>1, <1>3, <1>4, <1>5 DEF KeepInv

\* The collapse is done with one of its rows.
LEMMA KeepShedding ==
  ASSUME WatchInv, KeepInv, [WNext]_vars, u' = u, cut' = cut, live' = live,
         w.at \in {"shed"} \cup Shedders, NEW a \in w.todo, w' = Shedding(w, a),
         \A x \in Accounts : row'[x].status = "booked" => row'[x].raw \notin cut,
         \A x \in Accounts : x # a => SameBooking(row[x], row'[x])
  PROVE  KeepInv'
<1>1. w \in RunType /\ a \in Accounts  BY DEF WatchInv, TypeOK, RunType
<1>2. w.seen = {} /\ w.cuts = {} /\ w.new = 0 /\ ~w.unsure  BY DEF WatchInv, PhaseOK, Holding, Shedders
<1>3. Resting(w') /\ w'.todo \subseteq w.todo  BY <1>1, <1>2, SheddingMovesOn DEF MovesOn
<1>4. PICK x \in Accounts \ w.todo : row[x].status = "booked"  BY DEF KeepInv, BestKept
<1>5. x \in Accounts \ w'.todo /\ row'[x].status = "booked"  BY <1>3, <1>4 DEF SameBooking
<1> QED  BY <1>3, <1>5, KeepGoesOn

LEMMA KeepShed ==
  ASSUME WatchInv, KeepInv, [WNext]_vars, Shed
  PROVE  KeepInv'
<1>1. UNCHANGED <<u, live, cut>> /\ w.at = "shed"  BY DEF Shed, Outside, Crew, course, history
<1>2. w \in RunType /\ row \in [Accounts -> Row]  BY DEF WatchInv, TypeOK
<1>3. PICK a \in w.todo :
        \/ /\ row' = [row EXCEPT ![a] = [Leased(@, "w") EXCEPT !.marker = TRUE]]
           /\ w' = [w EXCEPT !.at = "shedcancel", !.cur = a]
        \/ /\ UNCHANGED row \/ MarkDoubleHeld(a)
           /\ w' = Shedding(w, a)
  BY DEF Shed
<1>4. a \in Accounts /\ row[a] \in Row  BY <1>2 DEF RunType
<1>5. \A x \in Accounts : row[x].status = "booked" => row[x].raw \notin cut  BY <1>1, NoneCut DEF Holding
<1>6. CASE w' = Shedding(w, a) /\ (UNCHANGED row \/ MarkDoubleHeld(a))
  <2>1. \A x \in Accounts : SameBooking(row[x], row'[x])
    <3>1. CASE UNCHANGED row  BY <3>1 DEF SameBooking
    <3>2. CASE MarkDoubleHeld(a)
      <4>1. PICK n : row' = [row EXCEPT ![a] = n] /\ n \in Row /\ SameBooking(row[a], n)
        BY <1>4, <3>2, NoteIs DEF WatchInv
      <4> QED  BY <1>2, <1>4, <4>1 DEF SameBooking
    <3> QED  BY <1>6, <3>1, <3>2
  <2>2. \A x \in Accounts : row'[x].status = "booked" => row'[x].raw \notin cut  BY <1>5, <2>1 DEF SameBooking
  <2> QED  BY <1>1, <1>6, <2>1, <2>2, KeepShedding
<1>7. CASE /\ row' = [row EXCEPT ![a] = [Leased(@, "w") EXCEPT !.marker = TRUE]]
           /\ w' = [w EXCEPT !.at = "shedcancel", !.cur = a]
  <2>1. \A x \in Accounts : SameBooking(row[x], row'[x])
    BY <1>2, <1>4, <1>7 DEF Row, SameBooking, Leased
  <2>2. w'.at = "shedcancel" /\ w'.todo = w.todo  BY <1>2, <1>7 DEF RunType
  <2>3. OnlyCuts' /\ CutHeld'  BY <1>1, <1>5, <2>1, CutsOnly DEF KeepInv, CutHeld, SameBooking
  <2>4. BestKept'  BY <1>1, <2>1, <2>2 DEF KeepInv, BestKept, SameBooking
  <2> QED  BY <1>1, <2>2, <2>3, <2>4 DEF KeepInv
<1> QED  BY <1>3, <1>6, <1>7

LEMMA KeepShedCancel ==
  ASSUME WatchInv, KeepInv, OnlyWatcherCancels, [WNext]_vars, ShedCancel
  PROVE  KeepInv' /\ live' # {}
<1>1. u' = u /\ w.at = "shedcancel" /\ w.at \in Holding /\ w.at \in Shedders
  BY DEF ShedCancel, Outside, Crew, Holding, Shedders
<1>2. PICK a \in Accounts : /\ a = w.cur /\ a \in w.todo /\ row[a] \in Row /\ row \in [Accounts -> Row] /\ w \in RunType
                            /\ Cur = w.plan[a] /\ Bound(Cur.row, a)
  BY <1>1, CurHere DEF WatchInv, TypeOK
<1>3. PICK answer \in CancelAnswers :
        /\ Cancelling(w.plan[a].row.raw, answer)
        /\ IF answer = "ok"
           THEN /\ w' = [w EXCEPT !.at = "shedwrite"]
                /\ UNCHANGED row
           ELSE /\ w' = IF answer = "throttle" THEN WIdle ELSE Shedding(w, a)
                /\ row' = [row EXCEPT ![a] = Released(@, "w")]
  BY <1>2 DEF ShedCancel
<1>4. PICK i : i = Cur.row.raw /\ i = row[a].raw /\ Of(i, a)
  BY <1>1, <1>2 DEF WatchInv, RunHolds, CurOK, Bound
<1>5. /\ live \subseteq live' \cup cut' /\ live \subseteq live' \cup {i} /\ cut \subseteq cut' /\ cut' \subseteq cut \cup {i}
      /\ answer # "ok" => cut' = cut /\ live' = live
  BY <1>2, <1>3, <1>4, CancelIs
<1>6. \A x \in Accounts : row[x].status = "booked" => row[x].raw \notin cut  BY <1>1, NoneCut DEF Shedders
<1>7. PICK x \in Accounts \ w.todo : row[x].status = "booked"  BY <1>1 DEF KeepInv, BestKept
<1>8. live' # {}
  <2>1. Of(row[x].raw, x)  BY <1>7 DEF WatchInv, RowsBound, Bound
  <2>2. row[x].raw # i  BY <1>2, <1>4, <1>7, <2>1 DEF Of
  <2>3. Used(row[x].raw)  BY <2>1 DEF Of, Used, NoRes, Accounts
  <2>4. row[x].raw \in live  BY <1>6, <1>7, <2>1, <2>3 DEF KeepInv, OnlyCuts, Of
  <2> QED  BY <1>5, <2>2, <2>4
<1>9. CASE answer = "ok"
  <2>1. w'.at = "shedwrite" /\ w'.cur = a /\ w'.todo = w.todo /\ row' = row  BY <1>2, <1>3, <1>9 DEF RunType
  <2>2. OnlyCuts'  BY <1>5, CutsOnly DEF KeepInv
  <2>3. CutHeld'
    <3> SUFFICES ASSUME NEW y \in Accounts, row[y].status = "booked", row[y].raw \in cut' PROVE y = a
      BY <2>1 DEF CutHeld
    <3>1. row[y].raw = i  BY <1>5, <1>6
    <3>2. Of(row[y].raw, y)  BY DEF WatchInv, RowsBound, Bound
    <3> QED  BY <1>4, <3>1, <3>2 DEF Of
  <2>4. BestKept'  BY <1>7, <2>1 DEF BestKept
  <2> QED  BY <1>1, <1>8, <2>1, <2>2, <2>3, <2>4 DEF KeepInv
<1>10. CASE answer # "ok"
  <2>1. PICK n : n = Released(row[a], "w")  OBVIOUS
  <2>2. SameBooking(row[a], n)  BY <1>2, <2>1, ReleasedIs
  <2>3. \A y \in Accounts : SameBooking(row[y], row'[y])  BY <1>2, <1>3, <1>10, <2>1, <2>2 DEF SameBooking
  <2>4. \A y \in Accounts : row'[y].status = "booked" => row'[y].raw \notin cut  BY <1>6, <2>3 DEF SameBooking
  <2>5. CASE w' = Shedding(w, a)  BY <1>1, <1>2, <1>5, <1>8, <1>10, <2>3, <2>4, <2>5, KeepShedding
  <2>6. CASE w' = WIdle
    <3>1. Resting(w') /\ w'.at = "idle"  BY <1>2, <2>6, IdleMovesOn DEF WIdle, MovesOn
    <3> QED  BY <1>1, <1>5, <1>8, <1>10, <2>4, <3>1, KeepGoesOn
  <2> QED  BY <1>3, <1>10, <2>5, <2>6
<1> QED  BY <1>9, <1>10

LEMMA KeepShedWrite ==
  ASSUME WatchInv, KeepInv, OnlyWatcherCancels, [WNext]_vars, ShedWrite
  PROVE  KeepInv'
<1>1. UNCHANGED <<u, live, cut>> /\ w.at = "shedwrite" /\ w.at \in Holding /\ w' = Shedding(w, w.cur)
  BY DEF ShedWrite, Outside, Crew, course, history, Holding, Shedders
<1>2. PICK a \in Accounts : a = w.cur /\ a \in w.todo /\ row[a] \in Row /\ row \in [Accounts -> Row]
  BY <1>1, CurHere DEF WatchInv, TypeOK
<1>3. PICK o, n : row' = [row EXCEPT ![a] = n] /\ o.to = "pending" /\ Written(row[a], o, "w", n)
  <2>1. PICK o : o = ShedOutcome(Cur.row.raw)  OBVIOUS
  <2>2. o.to = "pending"  BY <2>1 DEF ShedOutcome, Outcome
  <2>3. PICK n : row' = [row EXCEPT ![a] = n] /\ ("write" \in Faults \/ Written(row[a], o, "w", n))
    BY <1>2, <2>1, ShedWriteIs
  <2> QED  BY <2>2, <2>3 DEF OnlyWatcherCancels
<1>4. n.status = "pending"
  <2>1. PICK m : Becomes(row[a], o, "w", m) /\ (n = m \/ n = Flagged(m))  BY <1>3 DEF Written
  <2>2. m \in Row /\ m.status = "pending"  BY <1>3, <2>1 DEF Becomes
  <2> QED  BY <2>1, <2>2, FlaggedIs DEF SameBooking
<1>5. row'[a] = n /\ \A x \in Accounts : x # a => row'[x] = row[x]  BY <1>2, <1>3
<1>6. \A x \in Accounts : row'[x].status = "booked" => row'[x].raw \notin cut
  BY <1>1, <1>2, <1>4, <1>5 DEF KeepInv, CutHeld
<1> QED  BY <1>1, <1>2, <1>5, <1>6, KeepShedding DEF SameBooking, Shedders

LEMMA KeepStep ==
  ASSUME WatchInv, BlameInv, KeepInv, OnlyWatcherCancels, [WNext]_vars
  PROVE  KeepInv'
<1>1. CASE UNCHANGED vars  BY <1>1 DEF vars, KeepInv, OnlyCuts, Used, CutHeld, BestKept
<1>2. CASE Watching
  BY <1>2, KeepReads, KeepAct, KeepRelease, KeepMark, KeepCancelExtra, KeepUpgrade, KeepPick,
     KeepWrite, KeepCollapse, KeepShed, KeepShedCancel, KeepShedWrite DEF Watching
<1>3. CASE SearchThrottled \/ LoginFails \/ LoginThrottled \/ WatcherDies  BY <1>3, KeepRunEnds
<1>4. CASE WebCancel \/ WebWrite \/ CutoffPasses  BY <1>4, KeepCrew
<1>5. ASSUME NEW a \in Accounts,
             \/ WebLease(a) \/ Expire(a) \/ HandBook(a)
             \/ BookerClaim(a) \/ BookerPost(a) \/ BookerEnd(a) \/ BookerDies(a)
      PROVE  KeepInv'
  BY <1>5, KeepCrew
<1>6. ASSUME NEW i \in Ids, HandCancel(i) PROVE KeepInv'  BY <1>6, KeepCrew
<1> QED  BY <1>1, <1>2, <1>3, <1>4, <1>5, <1>6 DEF WNext

\* While the collapse is about to cancel, nobody else cancels.
LEMMA OnlyShedCancels ==
  ASSUME WatchInv, OnlyWatcherCancels, WNext, w.at = "shedcancel", cut' # cut
  PROVE  ShedCancel
<1>1. ~ (\E a \in Accounts : \/ WebLease(a) \/ Expire(a) \/ BookerClaim(a) \/ BookerPost(a)
                             \/ BookerDies(a) \/ HandBook(a))
      /\ ~ (\E i \in Ids : HandCancel(i)) /\ ~WebCancel /\ ~CutoffPasses
  BY OnlyLeases
<1>2. ~WebWrite /\ ~\E a \in Accounts : BookerEnd(a)  BY DEF WebWrite, BookerEnd, history
<1>3. ~ (SearchThrottled \/ LoginFails \/ LoginThrottled \/ WatcherDies)
  BY DEF SearchThrottled, LoginFails, LoginThrottled, WatcherDies, history
<1>4. ~ (Begin \/ Plan \/ Login \/ Act \/ Release \/ Mark \/ CancelExtra \/ Upgrade \/ Rebook \/ Pick
         \/ Write \/ Collapse \/ Shed \/ ShedWrite)
  BY DEF Begin, Plan, Login, Act, Release, Mark, CancelExtra, Upgrade, Rebook, Pick, Write, Collapse, Shed, ShedWrite
<1> QED  BY <1>1, <1>2, <1>3, <1>4 DEF WNext, Watching

\* A collapse never cancels the last reservation of the group, where nobody but the
\* watcher cancels and no cancel of its goes unrecorded: the booked row it leaves out
\* names a reservation that is live.
THEOREM LastOneKept ==
  ASSUME OnlyWatcherCancels
  PROVE  WSpec => NotLast
<1> DEFINE Last == \A i \in live \ live' : i \in cut' \ cut /\ w.at = "shedcancel" => live' # {}
<1>1. WInit => BlameInv /\ KeepInv
  <2> SUFFICES ASSUME WInit PROVE BlameInv /\ KeepInv  OBVIOUS
  <2>1. cut = {} /\ w = WIdle /\ u = UIdle /\ res = [i \in Ids |-> NoRes]  BY DEF WInit
  <2>2. WIdle.at = "idle" /\ UIdle.at = "idle"  BY DEF WIdle, UIdle
  <2>3. BlameInv
    BY <2>1, <2>2 DEF BlameInv, CutGone, NotBlamedOnUser, CutMarked, RunCut, MarkersRead, Holding, Shedders
  <2>4. KeepInv  BY <2>1, <2>2 DEF KeepInv, OnlyCuts, Used, CutHeld, BestKept, Shedders
  <2> QED  BY <2>3, <2>4
<1>2. WatchInv /\ WatchInv' /\ BlameInv /\ KeepInv /\ [WNext]_vars => BlameInv' /\ KeepInv'
  BY BlameStep, KeepStep DEF OnlyWatcherCancels
<1>3. ASSUME WatchInv, KeepInv, [WNext]_vars PROVE [Last]_vars
  <2>1. ASSUME WNext, NEW i \in live \ live', i \in cut' \ cut, w.at = "shedcancel" PROVE live' # {}
    <3>1. ShedCancel  BY <1>3, <2>1, OnlyShedCancels
    <3> QED  BY <1>3, <3>1, KeepShedCancel
  <2>2. WNext => Last  BY <2>1
  <2> QED  BY <1>3, <2>2
<1>4. WSpec => []WatchInv  BY WatchInvariant
<1>5. WSpec => [][Last]_vars  BY <1>1, <1>2, <1>3, <1>4, PTL DEF WSpec
<1> QED  BY <1>5 DEF NotLast
=============================================================================
