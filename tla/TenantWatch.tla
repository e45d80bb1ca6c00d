---------------------------- MODULE TenantWatch ----------------------------
(***************************************************************************)
(* The tenant watcher (tenant/watch_runner.py with watcher.py, groups.py   *)
(* and recording.py) and the engine it drives for one row                  *)
(* (core/watch_orchestrator.py, core/upgrade_orchestrator.py), against the *)
(* course, the 06:00 booker, the web's managed cancel and the user's own   *)
(* hand.                                                                   *)
(*                                                                         *)
(* Every account has one row for one date; the rows are ranked options of  *)
(* one group when Grouped.  A run of the watcher loads the rows, decides   *)
(* which accounts need a login, logs in to one after the other, and under  *)
(* the row's lease books, adopts, upgrades, reconciles duplicates or       *)
(* judges a vanished booking; at its end it collapses the group to one     *)
(* booking.  Every step between two awaits of the code is one action, so   *)
(* that everybody else may act in between.                                 *)
(*                                                                         *)
(* A reservation is an id; what the course holds is `live', what the bot   *)
(* believes is `row', `led' and `snap'.  The tee sheet belongs to everybody: *)
(* a search finds any tee times, and a POST may find its tee time gone.  At *)
(* most MaxMishaps of the faults named by Faults happen in a behaviour.    *)
(***************************************************************************)
EXTENDS Naturals, FiniteSets, FiniteSetsExt

CONSTANTS
    NAccounts,   \* the accounts, each with a row, 1..NAccounts
    NSlots,      \* the tee times of a course, within an option the best first
    Rank,        \* Rank[a][s]: the option of row a that tee time s falls in, 0 none
    Grouped,     \* the rows are the ranked options of one group
    Modes,       \* the values dry_run may have
    MaxRes,      \* the reservations a behaviour may make
    Actors,      \* who acts beside the watcher
    Faults,      \* the faults that may occur
    MaxMishaps   \* how many of them may occur

Accounts == 1..NAccounts
Slots == 1..NSlots
Ids == 1..MaxRes

\* login     a login or a listing fails     throttle the course answers 429
\* badlist   a trusted list misses one
\* cancel    a cancel fails                 cutlost  a cancel is done, its answer lost
\* lost      a POST's answer is lost        captcha  a POST was never sent
\* write     an outcome write fails         again    it lands, its answer is lost
\* crash     the watcher dies               die      the booker dies
\* late      the web outlives its lease
AllFaults == {"login", "badlist", "throttle", "cancel", "cutlost", "lost",
              "captcha", "write", "again", "crash", "die", "late"}

ASSUME WatchAssumption ==
    /\ NAccounts \in Nat \ {0} /\ NSlots \in Nat \ {0} /\ MaxRes \in Nat /\ MaxMishaps \in Nat
    /\ Rank \in [Accounts -> [Slots -> Nat]]
    /\ Grouped \in BOOLEAN /\ Modes \subseteq BOOLEAN
    /\ Actors \subseteq {"booker", "web", "owner", "clock"}
    /\ Faults \subseteq AllFaults

VARIABLES
    dry,      \* the run's dry_run flag
    frozen,   \* the rows' booking cutoff has passed
    res,      \* res[i]: the reservation that got id i
    live,     \* the reservations the courses hold
    row,      \* row[a]: the row of account a
    led,      \* led[i]: the ledger's state of reservation i
    snap,     \* snap[a]: the last trusted reservation list of account a
    moved,    \* <<p, a>>: row a has a new version since process p read it
    w,        \* the watcher's run
    u,        \* the web's managed cancel
    b,        \* b[a]: the booker's run for account a
    cut,      \* history: the reservations the bot cancelled
    quit,     \* history: the reservations the user was told are cancelled
    mishaps   \* the faults so far

course == <<res, live>>
history == <<cut, quit>>
vars == <<dry, frozen, res, live, row, led, snap, moved, w, u, b, cut, quit, mishaps>>

NoRes == [acct |-> 0, slot |-> 0, by |-> "none"]
AliveStates == {"held", "held_extra"}
OursStates == {"cancelled_upgrade", "cancelled_extra", "cancelled_group"}
Active(r) == r.status \in {"pending", "booked"}

NewRow == [status |-> "pending", raw |-> 0, tee |-> 0, reconcile |-> FALSE,
           marker |-> FALSE, lease |-> "none", alive |-> FALSE]

\* What the run knows of an account when it has planned it: the row it read, the
\* options left to attempt, the tee times of the shared search, the ledger (own,
\* and whether we cancelled the row's reservation), and whether the previous
\* trusted list misses it.
NoPlan == [row |-> NewRow, ranks |-> {}, slots |-> {}, own |-> {}, ours |-> FALSE,
           missed |-> FALSE]

WIdle == [at |-> "idle", plan |-> [a \in Accounts |-> NoPlan], todo |-> {}, cur |-> 0,
          seen |-> {}, sess |-> {}, pre |-> "none", cand |-> {}, cuts |-> {}, new |-> 0,
          unsure |-> FALSE, halt |-> FALSE]
UIdle == [at |-> "idle", acct |-> 0, raw |-> 0, owned |-> FALSE, why |-> "none", left |-> {}]
BIdle == [on |-> FALSE, done |-> FALSE, ids |-> {}]

WInit ==
    /\ dry \in Modes
    /\ frozen = FALSE
    /\ res = [i \in Ids |-> NoRes]
    /\ live = {}
    /\ row = [a \in Accounts |-> NewRow]
    /\ led = [i \in Ids |-> "none"]
    /\ snap = [a \in Accounts |-> [listed |-> FALSE, ids |-> {}]]
    /\ moved = {}
    /\ w = WIdle
    /\ u = UIdle
    /\ b = [a \in Accounts |-> BIdle]
    /\ cut = {} /\ quit = {} /\ mishaps = 0

Mishap(f) == f \in Faults /\ mishaps < MaxMishaps /\ mishaps' = mishaps + 1
Fine == mishaps' = mishaps

-----------------------------------------------------------------------------
(* Ranking.  A smaller key is a better tee time of a row.                  *)

Wanted(a) == {s \in Slots : Rank[a][s] # 0}
Unranked == NSlots + 1000
RankOf(a, s) == IF s = 0 \/ Rank[a][s] = 0 THEN Unranked ELSE Rank[a][s]
Key(a, s) == RankOf(a, s) * (NSlots + 1) + s
First(a) == Min({Rank[a][s] : s \in Slots} \ {0})
BestSlot(a, S) == CHOOSE s \in S : \A t \in S : Key(a, s) <= Key(a, t)
BestRes(a, S) == CHOOSE i \in S : \A j \in S :
    \/ Key(a, res[i].slot) < Key(a, res[j].slot)
    \/ Key(a, res[i].slot) = Key(a, res[j].slot) /\ i <= j
BookedRank(a, r) == RankOf(a, r.tee)

\* Mutant: any other tee time of the first option counts as an upgrade.
AnySlots(a, r, S) == {s \in S : Rank[a][s] = First(a) /\ s # r.tee}

\* The engine's upgrade tier is the row's first window alone.
UpgradeSlots(a, r, S) ==
    {s \in S : Rank[a][s] = First(a) /\ (RankOf(a, r.tee) = First(a) => s < r.tee)}

\* needs_login counts a better slot of any option.
BetterSlots(a, r, S) ==
    {s \in S : /\ Rank[a][s] > 0
               /\ \/ Rank[a][s] < RankOf(a, r.tee)
                  \/ Rank[a][s] = RankOf(a, r.tee) /\ s < r.tee}

-----------------------------------------------------------------------------
(* The store: leases, fingerprints and outcomes.                           *)

Held(r) == r.lease # "none" /\ r.alive
\* Mutants: a lease does not exclude; a set marker does.
FreeAnyway(r) == r.status \in {"pending", "booked"}
FreeUnmarked(r) == r.status \in {"pending", "booked"} /\ ~Held(r) /\ ~r.marker

Free(r) == r.status \in {"pending", "booked"} /\ ~Held(r)
Leased(r, p) == [r EXCEPT !.lease = p, !.alive = TRUE]
Released(r, p) == IF r.lease = p THEN [r EXCEPT !.lease = "none", !.alive = FALSE] ELSE r
Fresh(p, a) == <<p, a>> \notin moved

Version(r) == <<r.status, r.reconcile, r.raw>>
Bump(rows) == moved \cup {m \in {"w", "u"} \X Accounts : Version(rows[m[2]]) # Version(row[m[2]])}

Flagged(r) == IF Active(r) THEN [r EXCEPT !.reconcile = TRUE] ELSE r

\* An outcome: the status it moves the row to ("same" for none), the reservation
\* it books, the flag, whether it clears the marker, and its ledger entries.
Outcome(to, raw, rec, clear, entries) ==
    [to |-> to, raw |-> raw, reconcile |-> rec, clear |-> clear, entries |-> entries]

NoEntries == [i \in {} |-> "none"]
Entries(S, state) == [i \in S |-> state]
Plus(f, g) == [i \in (DOMAIN f) \cup (DOMAIN g) |-> IF i \in DOMAIN g THEN g[i] ELSE f[i]]
Ledger(o) == [i \in Ids |-> IF i \in DOMAIN o.entries THEN o.entries[i] ELSE led[i]]

OutcomeRow(r, o, p) ==
    LET moving == o.to # "same"
        new == [r EXCEPT
            !.status = IF moving THEN o.to ELSE @,
            !.raw = IF o.to = "booked" THEN o.raw ELSE IF o.to = "pending" THEN 0 ELSE @,
            !.tee = IF o.to = "booked" THEN res[o.raw].slot
                    ELSE IF o.to = "pending" THEN 0 ELSE @,
            !.reconcile = IF moving THEN o.reconcile ELSE @ \/ o.reconcile,
            !.marker = @ /\ ~o.clear]
    IN  Released(new, p)

\* Refused: a move without a live lease of its own, or a note under another's.
Accepted(r, o, p) ==
    IF o.to # "same" THEN r.lease = p /\ r.alive ELSE Held(r) => r.lease = p

Recorded(a, o, p) ==
    [row EXCEPT ![a] = IF Accepted(@, o, p) THEN OutcomeRow(@, o, p) ELSE Flagged(@)]

\* The write landed, its answer was lost, and the replay is refused because the
\* first one released the lease.
RecordedTwice(a, o, p) ==
    [row EXCEPT ![a] = LET once == OutcomeRow(@, o, p)
                       IN  IF o.to = "same" THEN once ELSE Flagged(once)]

-----------------------------------------------------------------------------
(* A run of the watcher: read, search, plan.                               *)

Crew == <<u, b>>
Outside == <<dry, frozen, Crew>>

\* The options of a pending row still worth attempting: those better than the
\* best booking its group holds at another account.
Floor(a, rows) ==
    LET others == {BookedRank(x, rows[x]) : x \in {y \in Accounts \ {a} : rows[y].status = "booked"}}
        mine == {Rank[a][s] : s \in Slots} \ {0}
    IN  IF ~Grouped \/ others = {} THEN mine ELSE {k \in mine : k < Min(others)}

\* finalize_lost, load_watch_rows and the group floor.
Finalized(r) == IF frozen /\ r.status = "pending" /\ ~Held(r) THEN [r EXCEPT !.status = "lost"] ELSE r
Watched(a, r, rows) ==
    \/ r.status = "booked"
    \/ r.status = "pending" /\ ~frozen /\ Floor(a, rows) # {}

Begin ==
    /\ w.at = "idle" /\ Fine
    /\ row' = [a \in Accounts |-> Finalized(row[a])]
    /\ moved' = Bump(row') \ ({"w"} \X Accounts)
    /\ w' = [w EXCEPT !.at = "plan",
                      !.todo = {a \in Accounts : Watched(a, row'[a], row')},
                      !.plan = [a \in Accounts |->
                          [NoPlan EXCEPT !.row = row'[a], !.ranks = Floor(a, row')]]]
    /\ UNCHANGED <<Outside, course, led, snap, history>>

OwnOf(a) == {i \in Ids : res[i].acct = a /\ led[i] \in AliveStates}
Ours(i) == i # 0 /\ led[i] \in OursStates

\* needs_login: a cadence run and a stale snapshot are a matter of the clock, so
\* they may or may not call for one (`due').
Called(a, p, due) ==
    LET r == p.row IN
    \/ r.status = "pending" /\ \E s \in p.slots : Rank[a][s] \in p.ranks
    \/ r.status = "booked" /\ r.raw \in p.own /\ BetterSlots(a, r, p.slots) # {}
    \/ r.reconcile
    \/ r.lease # "none" /\ ~r.alive
    \/ r.status = "booked" /\ ~snap[a].listed
    \/ due

\* The shared searches: any tee times, none where one fails.
Found == {f \in [w.todo -> SUBSET Slots] : \A a \in w.todo : f[a] \subseteq Wanted(a)}

Missed(a, raw) == snap[a].listed /\ raw \notin snap[a].ids

\* The decision for every row read.
Planned(a, slots) ==
    LET raw == w.plan[a].row.raw IN
    [w.plan[a] EXCEPT !.slots = slots, !.own = OwnOf(a), !.ours = Ours(raw),
                      !.missed = Missed(a, raw)]

Plan ==
    /\ w.at = "plan"
    /\ Fine
    /\ \E found \in Found, due \in SUBSET w.todo :
           LET p == [a \in Accounts |-> IF a \in w.todo THEN Planned(a, found[a]) ELSE NoPlan]
               todo == {a \in w.todo : ~Held(p[a].row) /\ Called(a, p[a], a \in due)}
           IN  w' = [w EXCEPT !.at = IF todo = {} THEN "collapse" ELSE "login",
                              !.todo = todo,
                              !.plan = [a \in Accounts |-> IF a \in todo THEN p[a] ELSE NoPlan]]
    /\ UNCHANGED <<Outside, course, row, led, snap, moved, history>>

SearchThrottled ==
    /\ w.at = "plan" /\ Mishap("throttle")
    /\ w' = WIdle
    /\ UNCHANGED <<Outside, course, row, led, snap, moved, history>>

-----------------------------------------------------------------------------
(* One account: the login and its trusted list, the row's lease.           *)

\* After account cur: the next one, the collapse, or, after a 429, the end.
Onward(x) ==
    LET rest == x.todo \ {x.cur} IN
    IF x.halt THEN WIdle
    ELSE [WIdle EXCEPT !.at = IF rest = {} THEN "collapse" ELSE "login", !.todo = rest,
                       !.sess = x.sess,
                       !.plan = [a \in Accounts |-> IF a \in rest THEN x.plan[a] ELSE NoPlan]]

At(a) == {i \in live : res[i].acct = a}

Login ==
    /\ w.at = "login"
    /\ LET a == Min(w.todo) IN
       \E seen \in {At(a)} \cup {At(a) \ {i} : i \in At(a)} :
        /\ IF seen = At(a) THEN Fine ELSE Mishap("badlist")
        /\ snap' = [snap EXCEPT ![a] = [listed |-> TRUE, ids |-> seen]]
        /\ w' = [w EXCEPT !.at = "act", !.cur = a, !.seen = seen, !.sess = @ \cup {a}]
    /\ UNCHANGED <<Outside, course, row, led, moved, history>>

\* A rejected, soft or untrusted login: nothing is saved, nothing acts.
LoginFails ==
    /\ w.at = "login" /\ Mishap("login")
    /\ w' = Onward([w EXCEPT !.cur = Min(w.todo)])
    /\ UNCHANGED <<Outside, course, row, led, snap, moved, history>>

LoginThrottled ==
    /\ w.at = "login" /\ Mishap("throttle")
    /\ w' = WIdle
    /\ UNCHANGED <<Outside, course, row, led, snap, moved, history>>

Cur == w.plan[w.cur]

\* Mutant: the marker of an unfinished cancel is not looked at.
VerdictUnmarked(p, seen, ripe) ==
    IF ~p.missed \/ ~ripe THEN "wait"
    ELSE IF p.ours THEN "bot" ELSE IF seen # {} THEN "adopt" ELSE "external"

\* classify_missing_booking: two trusted lists in a row without the reservation,
\* at least ten minutes apart (`ripe').
Verdict(p, seen, ripe) ==
    IF ~p.missed \/ ~ripe THEN "wait"
    ELSE IF p.row.marker \/ p.ours THEN "bot"
    ELSE IF seen # {} THEN "adopt" ELSE "external"

PreEngine(p, seen, ripe) ==
    IF p.row.status = "pending" THEN IF seen # {} THEN "adopt" ELSE "engine"
    ELSE IF p.row.raw \in seen THEN "engine" ELSE Verdict(p, seen, ripe)

\* ownership_of: ledgered, or flagged and at exactly the recorded tee time.
Adopted(p, i) == p.row.reconcile /\ p.row.tee # 0 /\ res[i].slot = p.row.tee
Owned(p, i) == i \in p.own \/ Adopted(p, i)
UpgradeAllowed(p) == p.row.status = "booked" /\ Owned(p, p.row.raw)

\* The engine's own gates: no booking in a dry run or past the cutoff.
CheckOnce(p) == IF p.row.status = "pending" /\ ~dry /\ ~frozen THEN "pick" ELSE "write"

\* Where a leased row goes: the marker before an upgrade, the booking of a
\* pending row, or straight to its outcome.
Enter(p, pre) ==
    IF pre = "external" /\ dry THEN "release"
    ELSE IF pre # "engine" THEN "write"
    ELSE IF UpgradeAllowed(p) /\ ~dry THEN "mark" ELSE CheckOnce(p)

\* What of the shared search a pending row may book.
Candidates(a, p) == {s \in p.slots : Rank[a][s] \in p.ranks}

Act ==
    /\ w.at = "act" /\ Fine
    /\ \E ripe \in BOOLEAN :
        LET pre == PreEngine(Cur, w.seen, ripe) IN
        IF pre = "wait" \/ ~Free(row[w.cur]) \/ ~Fresh("w", w.cur)
        THEN /\ w' = Onward(w)
             /\ UNCHANGED row
        ELSE /\ row' = [row EXCEPT ![w.cur] = Leased(@, "w")]
             /\ w' = [w EXCEPT !.at = Enter(Cur, pre), !.pre = pre,
                               !.cand = Candidates(w.cur, Cur)]
    /\ UNCHANGED <<Outside, course, led, snap, moved, history>>

\* Dry run: an external cancel is not written, the lease is given back.
Release ==
    /\ w.at = "release" /\ Fine
    /\ row' = [row EXCEPT ![w.cur] = Released(@, "w")]
    /\ w' = Onward(w)
    /\ UNCHANGED <<Outside, course, led, snap, moved, history>>

-----------------------------------------------------------------------------
(* The engine on a booked row: duplicates first, then the upgrade.         *)

Eligible(p, seen) == {i \in seen : Owned(p, i)}
Extras(a, p, seen) ==
    LET elig == Eligible(p, seen) IN
    IF Cardinality(elig) < 2 THEN {} ELSE elig \ {BestRes(a, elig)}

\* Past the cutoff the engine leaves a held booking alone.
StopActing == frozen

\* The upgrade marker, before the first call that changes anything.
Mark ==
    /\ w.at = "mark" /\ Fine
    /\ row' = [row EXCEPT ![w.cur].marker = TRUE]
    /\ w' = [w EXCEPT !.at = IF StopActing THEN "write" ELSE "extras",
                      !.cand = Extras(w.cur, Cur, w.seen)]
    /\ UNCHANGED <<Outside, course, led, snap, moved, history>>

\* The answers a cancel may have, and whether the course carried it out.
CancelAnswers == {"ok", "cancel", "cutlost", "throttle"}
Cancelling(i, answer) ==
    /\ IF answer = "ok" THEN Fine ELSE Mishap(answer)
    /\ IF answer \in {"ok", "cutlost"}
       THEN /\ live' = live \ {i}
            /\ cut' = IF i \in live THEN cut \cup {i} ELSE cut
       ELSE UNCHANGED <<live, cut>>
    /\ UNCHANGED <<res, quit>>

CancelExtra ==
    /\ w.at = "extras" /\ w.cand # {}
    /\ LET i == BestRes(w.cur, w.cand) IN
       \E answer \in CancelAnswers :
        /\ Cancelling(i, answer)
        /\ w' = [w EXCEPT !.cand = @ \ {i},
                          !.cuts = IF answer = "ok" THEN @ \cup {i} ELSE @,
                          !.halt = (answer = "throttle"),
                          !.at = IF answer = "throttle" THEN "write" ELSE @]
    /\ UNCHANGED <<Outside, row, led, snap, moved>>

Targets == UpgradeSlots(w.cur, Cur.row, Cur.slots)

\* The engine cancels the booking it was seeded with, and rebooks once.  Any
\* failure of the cancel leaves the row as it is.
Upgrade ==
    /\ w.at = "extras" /\ w.cand = {}
    /\ IF Targets = {}
       THEN /\ w' = [w EXCEPT !.at = "write"]
            /\ Fine /\ UNCHANGED <<course, history>>
       ELSE \E answer \in CancelAnswers :
            /\ Cancelling(Cur.row.raw, answer)
            /\ w' = [w EXCEPT !.at = IF answer = "ok" THEN "rebook" ELSE "write",
                              !.cand = IF answer = "ok" THEN {BestSlot(w.cur, Targets)} ELSE {},
                              !.cuts = IF answer = "ok" THEN @ \cup {Cur.row.raw} ELSE @]
    /\ UNCHANGED <<Outside, row, led, snap, moved>>

Unused == {i \in Ids : res[i] = NoRes}

\* The course makes a reservation of tee time s for account a.
Reserving(a, s, by) ==
    /\ Unused # {}
    /\ LET i == Min(Unused) IN
        /\ res' = [res EXCEPT ![i] = [acct |-> a, slot |-> s, by |-> by]]
        /\ live' = live \cup {i}

\* A POST for tee time s: booked, gone, its answer lost (landed or not), never
\* sent, or throttled.  `after' is where the run goes when the tee time is gone.
Posting(s, after) ==
    /\ UNCHANGED history
    /\ \/ /\ Fine
          /\ Reserving(w.cur, s, "watch")
          /\ w' = [w EXCEPT !.at = "write", !.cand = {}, !.new = Min(Unused)]
       \/ /\ Fine
          /\ w' = [w EXCEPT !.at = after, !.cand = @ \ {s}]
          /\ UNCHANGED course
       \/ /\ Mishap("lost")
          /\ Reserving(w.cur, s, "watch") \/ UNCHANGED course
          /\ w' = [w EXCEPT !.at = "write", !.cand = {}, !.unsure = TRUE]
       \/ /\ Mishap("captcha")
          /\ w' = [w EXCEPT !.at = "write", !.cand = {}]
          /\ UNCHANGED course
       \/ /\ Mishap("throttle")
          /\ w' = [w EXCEPT !.at = "write", !.cand = {}, !.unsure = TRUE,
                            !.halt = (Cur.row.status = "pending")]
          /\ UNCHANGED course

Rebook ==
    /\ w.at = "rebook"
    /\ \E s \in w.cand : Posting(s, "write")
    /\ UNCHANGED <<Outside, row, led, snap, moved>>

\* A pending row: the candidates in order until one books.
Pick ==
    /\ w.at = "pick"
    /\ IF w.cand = {}
       THEN /\ w' = [w EXCEPT !.at = "write"]
            /\ Fine /\ UNCHANGED <<course, history>>
       ELSE Posting(BestSlot(w.cur, w.cand), "pick")
    /\ UNCHANGED <<Outside, row, led, snap, moved>>

-----------------------------------------------------------------------------
(* The outcome of one row, from the recorder and never from what the       *)
(* engine returned.                                                        *)

Ledgered(i, state) == IF led[i] = "none" THEN NoEntries ELSE Entries({i}, state)
CutExtras(p, cuts) == Entries((p.own \cap cuts) \ {p.row.raw}, "cancelled_extra")
Survivors(p, cuts, seen) == (p.own \cap seen) \ (cuts \cup {p.row.raw})

PendingOutcome ==
    IF w.new = 0 THEN Outcome("same", 0, w.unsure, FALSE, NoEntries)
    ELSE Outcome("booked", w.new, w.unsure, FALSE, Entries({w.new}, "held"))

\* keep: the survivor to follow when the engine cancelled the row's own booking
\* as the worse duplicate, 0 when there is none.
BookedOutcome(p, keep) ==
    LET old == p.row.raw
        extras == CutExtras(p, w.cuts)
        upgraded == Plus(extras, Ledgered(old, "cancelled_upgrade"))
    IN  IF old \notin w.cuts
        THEN Outcome("same", 0, w.unsure, UpgradeAllowed(p) /\ ~dry, extras)
        ELSE IF w.new # 0
        THEN Outcome("booked", w.new, w.unsure, TRUE, Plus(upgraded, Entries({w.new}, "held")))
        ELSE IF keep # 0
        THEN Outcome("booked", keep, FALSE, TRUE,
                     Plus(Plus(extras, Ledgered(old, "cancelled_extra")), Entries({keep}, "held")))
        ELSE Outcome("pending", 0, TRUE, TRUE, upgraded)

EngineOutcome(p, keep) ==
    IF p.row.status = "pending" THEN PendingOutcome ELSE BookedOutcome(p, keep)

\* The reservation to adopt: a ledgered one first.
Adoptable(p) ==
    LET there == w.seen \ {p.row.raw} IN
    IF there \cap p.own # {} THEN there \cap p.own ELSE there

\* Mutant: whatever is adopted becomes the bot's own.
AdoptAsOwn(p, i) == Outcome("booked", i, FALSE, TRUE, Entries({i}, "held"))

AdoptOutcome(p, i) ==
    Outcome("booked", i, FALSE, TRUE,
            IF i \notin p.own /\ Adopted(p, i) THEN Entries({i}, "held") ELSE NoEntries)

SnapshotOutcome(p, i) ==
    CASE w.pre = "adopt" -> AdoptOutcome(p, i)
      [] w.pre = "bot" -> Outcome("pending", 0, TRUE, TRUE, NoEntries)
      [] w.pre = "external" -> Outcome("external", 0, FALSE, TRUE, NoEntries)

Outcomes ==
    LET surv == Survivors(Cur, w.cuts, w.seen) IN
    IF w.pre = "engine" THEN {EngineOutcome(Cur, k) : k \in IF surv = {} THEN {0} ELSE surv}
    ELSE {SnapshotOutcome(Cur, i) : i \in IF w.pre = "adopt" THEN Adoptable(Cur) ELSE {0}}

\* The write is retried: a first write that landed with its answer lost makes the
\* replay a refused one.  A store that stays down ends the run.
Write ==
    /\ w.at = "write"
    /\ \E o \in Outcomes :
        \/ /\ Fine
           /\ row' = Recorded(w.cur, o, "w")
           /\ led' = Ledger(o)
           /\ w' = Onward(w)
        \/ /\ Mishap("again")
           /\ row' = RecordedTwice(w.cur, o, "w")
           /\ led' = Ledger(o)
           /\ w' = Onward(w)
        \/ /\ Mishap("write")
           /\ row' = [row EXCEPT ![w.cur] = Released(@, "w")]
           /\ w' = WIdle
           /\ UNCHANGED led
    /\ moved' = Bump(row')
    /\ UNCHANGED <<Outside, course, snap, history>>

-----------------------------------------------------------------------------
(* The collapse of the group at the end of a run.                          *)

GroupKey(a) == <<BookedRank(a, row[a]), a>>
\* Mutant: a booking is ahead of itself.
AheadOrEqual(a, x) == GroupKey(a)[1] <= GroupKey(x)[1]

Ahead(a, x) == \/ GroupKey(a)[1] < GroupKey(x)[1]
               \/ GroupKey(a)[1] = GroupKey(x)[1] /\ a < x

\* The best booking is kept, owned or not, live or not.
Bookeds == {a \in Accounts : row[a].status = "booked"}
Worse == {a \in Bookeds : \E x \in Bookeds : Ahead(x, a)}

\* An account without a session is logged in to; `shut' are those that fail.
EnsureSessions(shut) ==
    /\ shut \subseteq Bookeds \ w.sess
    /\ IF shut = {} THEN Fine ELSE ~dry /\ Mishap("login")

\* The rows are read afresh.
Collapse ==
    /\ w.at = "collapse"
    /\ LET worse == Worse
       IN  IF ~Grouped \/ worse = {}
           THEN /\ w' = WIdle
                /\ Fine /\ UNCHANGED moved
           ELSE \E shut \in SUBSET Accounts :
                /\ EnsureSessions(shut)
                /\ w' = [WIdle EXCEPT !.at = "shed", !.todo = worse, !.sess = Accounts \ shut,
                             !.plan = [a \in Accounts |-> [NoPlan EXCEPT !.row = row[a], !.own = OwnOf(a)]]]
                /\ moved' = moved \ ({"w"} \X Accounts)
    /\ UNCHANGED <<Outside, course, row, led, snap, history>>

\* After account a of the collapse.
Shedding(x, a) ==
    IF x.todo = {a} THEN WIdle
    ELSE [x EXCEPT !.at = "shed", !.todo = @ \ {a},
                   !.plan = [@ EXCEPT ![a] = NoPlan]]

\* A manual worse booking is only noted, without a lease.
MarkDoubleHeld(a) ==
    \/ Fine /\ row' = Recorded(a, Outcome("same", 0, FALSE, FALSE, NoEntries), "note")
    \/ Mishap("write") /\ UNCHANGED row

Shed ==
    /\ w.at = "shed"
    /\ \E a \in w.todo :
        LET p == w.plan[a]
            owned == p.row.raw \in p.own
            claims == owned /\ ~dry /\ a \in w.sess /\ Free(row[a]) /\ Fresh("w", a)
        IN  \/ /\ claims /\ Fine
               /\ row' = [row EXCEPT ![a] = [Leased(@, "w") EXCEPT !.marker = TRUE]]
               /\ w' = [w EXCEPT !.at = "shedcancel", !.cur = a]
            \/ /\ ~claims
               /\ IF owned \/ dry THEN Fine /\ UNCHANGED row ELSE MarkDoubleHeld(a)
               /\ w' = Shedding(w, a)
    /\ moved' = Bump(row')
    /\ UNCHANGED <<Outside, course, led, snap, history>>

ShedCancel ==
    /\ w.at = "shedcancel"
    /\ \E answer \in CancelAnswers :
        /\ Cancelling(w.plan[w.cur].row.raw, answer)
        /\ IF answer = "ok"
           THEN /\ w' = [w EXCEPT !.at = "shedwrite"]
                /\ UNCHANGED row
           ELSE /\ w' = IF answer = "throttle" THEN WIdle ELSE Shedding(w, w.cur)
                /\ row' = [row EXCEPT ![w.cur] = Released(@, "w")]
    /\ UNCHANGED <<Outside, led, snap, moved>>

ShedWrite ==
    /\ w.at = "shedwrite"
    /\ LET raw == w.plan[w.cur].row.raw
           o == Outcome("pending", 0, FALSE, TRUE, Entries({raw}, "cancelled_group"))
       IN  \/ /\ Fine
              /\ row' = Recorded(w.cur, o, "w")
              /\ led' = Ledger(o)
           \/ /\ Mishap("write")
              /\ row' = [row EXCEPT ![w.cur] = Released(@, "w")]
              /\ UNCHANGED led
    /\ w' = Shedding(w, w.cur)
    /\ moved' = Bump(row')
    /\ UNCHANGED <<Outside, course, snap, history>>

WatcherDies ==
    /\ w.at # "idle" /\ Mishap("crash")
    /\ w' = WIdle
    /\ UNCHANGED <<Outside, course, row, led, snap, moved, history>>

Watching ==
    \/ Begin \/ Plan \/ Login \/ Act \/ Release \/ Mark \/ CancelExtra \/ Upgrade
    \/ Rebook \/ Pick \/ Write \/ Collapse \/ Shed \/ ShedCancel \/ ShedWrite

-----------------------------------------------------------------------------
(* The web's managed cancel: lease, login, list, cancel, one outcome.      *)

WebLease(a) ==
    /\ "web" \in Actors /\ u.at = "idle" /\ ~dry /\ Fine
    /\ row[a].status = "booked" /\ Free(row[a])
    /\ row' = [row EXCEPT ![a] = Leased(@, "u")]
    /\ u' = [UIdle EXCEPT !.at = "leased", !.acct = a, !.raw = row[a].raw,
                          !.owned = (led[row[a].raw] # "none")]
    /\ moved' = moved \ {<<"u", a>>}
    /\ UNCHANGED <<dry, frozen, course, led, snap, w, b, history>>

\* The answers of the login and the cancel; one of a reservation that is gone does
\* not reach the course.
WebAnswers(there) == {"ok", "login"} \cup (IF there THEN CancelAnswers ELSE {})

WebCancel ==
    /\ u.at = "leased"
    /\ LET there == u.raw \in live IN
       \E answer \in WebAnswers(there) :
        /\ IF answer = "ok" THEN Fine ELSE Mishap(answer)
        /\ IF there /\ answer \in {"ok", "cutlost"}
           THEN live' = live \ {u.raw}
           ELSE UNCHANGED live
        /\ IF answer = "ok"
           THEN /\ u' = [u EXCEPT !.at = "write", !.left = At(u.acct) \ {u.raw},
                                  !.why = IF there THEN "cancelled_user" ELSE "vanished"]
                /\ UNCHANGED row
           ELSE /\ u' = UIdle
                /\ row' = [row EXCEPT ![u.acct] = Released(@, "u")]
    /\ UNCHANGED <<dry, frozen, res, led, snap, moved, w, b, history>>

WebWrite ==
    /\ u.at = "write"
    /\ LET o == Outcome("user", 0, FALSE, FALSE,
                        IF u.owned THEN Entries({u.raw}, u.why) ELSE NoEntries)
       IN  \/ /\ Fine
              /\ row' = [Recorded(u.acct, o, "u") EXCEPT ![u.acct] = Released(@, "u")]
              /\ led' = Ledger(o)
              /\ IF Accepted(row[u.acct], o, "u")
                 THEN /\ snap' = [snap EXCEPT ![u.acct] = [listed |-> TRUE, ids |-> u.left]]
                      /\ quit' = quit \cup {u.raw}
                 ELSE UNCHANGED <<snap, quit>>
           \/ /\ Mishap("write")
              /\ row' = [row EXCEPT ![u.acct] = Released(@, "u")]
              /\ UNCHANGED <<led, snap, quit>>
    /\ u' = UIdle
    /\ moved' = Bump(row')
    /\ UNCHANGED <<dry, frozen, course, cut, w, b>>

-----------------------------------------------------------------------------
(* The booker's one run for a row, on the morning of the drop, as the       *)
(* watcher meets it.                                                       *)

BookerClaim(a) ==
    /\ "booker" \in Actors /\ ~b[a].on /\ ~b[a].done /\ ~frozen /\ Fine
    /\ \A i \in Ids : res[i].acct # a    \* nothing could be booked before the drop
    /\ row[a].status = "pending" /\ Free(row[a])
    /\ row' = [row EXCEPT ![a] = Leased(@, "b")]
    /\ b' = [b EXCEPT ![a].on = TRUE]
    /\ UNCHANGED <<dry, frozen, course, led, snap, moved, w, u, history>>

\* A burst books at most two tee times.
BookerPost(a) ==
    /\ b[a].on /\ Cardinality(b[a].ids) < 2 /\ Fine
    /\ \E s \in Slots :
        /\ Rank[a][s] # 0 /\ \A i \in b[a].ids : res[i].slot # s
        /\ Reserving(a, s, "booker")
        /\ b' = [b EXCEPT ![a].ids = @ \cup {Min(Unused)}]
    /\ UNCHANGED <<dry, frozen, row, led, snap, moved, w, u, history>>

\* Mutant: a booking kept hides that another POST was never answered.
BookerForgets(a, lost) ==
    LET heard == b[a].ids \ lost
        kept == BestRes(a, heard)
    IN  IF heard = {} THEN Outcome("same", 0, lost # {}, FALSE, NoEntries)
        ELSE Outcome("booked", kept, FALSE, FALSE,
                     Plus(Entries(heard, "held_extra"), Entries({kept}, "held")))

\* The best one heard of is kept, another one whose cancel failed is an extra; a
\* POST whose answer was lost flags the row.
BookerOutcome(a, lost) ==
    LET heard == b[a].ids \ lost
        kept == BestRes(a, heard)
    IN  IF heard = {} THEN Outcome("same", 0, lost # {}, FALSE, NoEntries)
        ELSE Outcome("booked", kept, lost # {}, FALSE,
                     Plus(Entries(heard, "held_extra"), Entries({kept}, "held")))

BookerEnd(a) ==
    /\ b[a].on
    /\ \E lost \in {{}} \cup {{i} : i \in b[a].ids} :
        /\ IF lost = {} THEN Fine ELSE Mishap("lost")
        /\ row' = Recorded(a, BookerOutcome(a, lost), "b")
        /\ led' = Ledger(BookerOutcome(a, lost))
    /\ b' = [b EXCEPT ![a] = [BIdle EXCEPT !.done = TRUE]]
    /\ moved' = Bump(row')
    /\ UNCHANGED <<dry, frozen, course, snap, w, u, history>>

BookerDies(a) ==
    /\ b[a].on /\ Mishap("die")
    /\ b' = [b EXCEPT ![a] = [BIdle EXCEPT !.done = TRUE]]
    /\ UNCHANGED <<dry, frozen, course, row, led, snap, moved, w, u, history>>

-----------------------------------------------------------------------------
(* The rest of the world: the clock, and the user's own hand.              *)

\* A holder that lives is done before its lease ends, except a slow web request;
\* and the minutes of a lease outlast the moment between a listing and the lease.
Dead(a) ==
    CASE row[a].lease = "w" -> w.cur # a \/ w.at \in {"idle", "plan", "login", "act", "collapse", "shed"}
      [] row[a].lease = "b" -> ~b[a].on /\ w.at # "act"
      [] OTHER -> FALSE

Expire(a) ==
    /\ Held(row[a])
    /\ IF Dead(a) THEN Fine ELSE row[a].lease = "u" /\ Mishap("late")
    /\ row' = [row EXCEPT ![a].alive = FALSE]
    /\ UNCHANGED <<Outside, course, led, snap, moved, w, history>>

HandBook(a) ==
    /\ "owner" \in Actors /\ Fine
    /\ \A i \in Ids : res[i].by # "hand"
    /\ \E s \in Slots : Reserving(a, s, "hand")
    /\ UNCHANGED <<Outside, row, led, snap, moved, w, history>>

HandCancel(i) ==
    /\ "owner" \in Actors /\ Fine
    /\ i \in live
    /\ live' = live \ {i}
    /\ UNCHANGED <<Outside, res, row, led, snap, moved, w, history>>

CutoffPasses ==
    /\ "clock" \in Actors /\ ~frozen /\ Fine
    /\ frozen' = TRUE
    /\ UNCHANGED <<dry, Crew, course, row, led, snap, moved, w, history>>

WNext ==
    \/ Watching
    \/ SearchThrottled \/ LoginFails \/ LoginThrottled \/ WatcherDies
    \/ WebCancel \/ WebWrite \/ CutoffPasses
    \/ \E a \in Accounts : \/ WebLease(a) \/ Expire(a) \/ HandBook(a)
                           \/ BookerClaim(a) \/ BookerPost(a) \/ BookerEnd(a) \/ BookerDies(a)
    \/ \E i \in Ids : HandCancel(i)

WSpec == WInit /\ [][WNext]_vars

WFairSpec ==
    /\ WSpec
    /\ WF_vars(Watching)
    /\ WF_vars(\E a \in Accounts : Dead(a) /\ Expire(a))

-----------------------------------------------------------------------------
\* The bot never cancels what the user booked by hand (section 7.6 of the plan),
\* whatever it adopted or was told, if no outcome is replayed or written late and the
\* request has no group: save one at the very tee time of a booking of its own, which
\* nothing in the course's list tells from it.
HandKept ==
    \A i \in cut : res[i].by = "hand" =>
        \E j \in Ids : j # i /\ res[j] = [res[i] EXCEPT !.by = res[j].by] /\ res[j].by # "hand"

\* A booking the bot itself cancelled is never taken for one the user cancelled at
\* the course, after which the date is given up (classify_missing_booking).
NotBlamedOnUser == \A a \in Accounts : row[a].status = "external" => row[a].raw \notin cut

\* Once the site has told the user that a booking is cancelled, the bot makes no
\* other reservation for that row, however far a run of the watcher had got.
CancelIsFinal ==
    [][\A q \in quit, i \in Ids :
        res[i] = NoRes /\ res'[i] # NoRes /\ res'[i].by # "hand" => res'[i].acct # res[q].acct]_vars

\* While a row is active and nobody is at work on it, every reservation the bot made
\* for it is accounted for: in the ledger, the row's own, in the last trusted list,
\* or covered by a flag that makes the watcher log in and look: one lost answer, one
\* dead process or one failed write hides no reservation.
Busy(a) == row[a].lease # "none" \/ b[a].on
Tracked ==
    \A i \in live :
        LET a == res[i].acct IN
        \/ ~Active(row[a]) \/ \E j \in Ids : res[j].acct = a /\ res[j].by = "hand"
        \/ res[i].by = "hand" \/ led[i] \in AliveStates \/ row[a].raw = i
        \/ i \in snap[a].ids
        \/ row[a].status = "pending" \/ row[a].reconcile \/ row[a].marker \/ Busy(a)

\* Where the watcher replaces a booking it cancelled by one it made, the new tee time
\* is strictly better: upgrades converge and never go to and fro.
UpgradeImproves ==
    [][\A a \in Accounts :
        /\ row[a].status = "booked" /\ row'[a].status = "booked"
        /\ row[a].raw \in cut' /\ row'[a].raw # row[a].raw
        /\ res[row'[a].raw].by = "watch"
        => Key(a, row'[a].tee) < Key(a, row[a].tee)]_vars

\* Collapsing a group never takes the last reservation its user holds.  It holds as
\* long as every booking on record is live; a cancel in flight at the web, or an
\* upgrade that died, breaks it.
NotLast ==
    [][\A i \in live \ live' : i \in cut' \ cut /\ w.at = "shedcancel" => live' # {}]_vars

\* Two options of a group booked, the worse by the bot: one of them is given up in
\* the end, whatever login, cancel or 429 failed on the way, because every run
\* collapses again.
DoubleHeld ==
    ~dry /\ \E a \in Accounts :
        /\ row[a].status = "booked" /\ row[a].raw \in OwnOf(a)
        /\ \E x \in Accounts \ {a} : row[x].status = "booked" /\ Ahead(x, a)
GroupCollapses == DoubleHeld ~> ~DoubleHeld
=============================================================================
