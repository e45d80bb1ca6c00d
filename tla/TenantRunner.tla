--------------------------- MODULE TenantRunner ---------------------------
(***************************************************************************)
(* The tenants' booking job on the morning of a drop (tenant/runner.py):   *)
(* it reads the event's pending rows, claims their leases, races one       *)
(* engine per account, streams every outcome to the store as it comes,     *)
(* collapses the groups and ends with an exit code.                        *)
(*                                                                         *)
(* Two of its instants count from the drop T0 and two from the start of    *)
(* the run: the leases end a replica timeout after T0, the self-deadline   *)
(* comes a margin before a replica timeout after the start, and the        *)
(* writer's deadline a grace after that.  The clock of a run stops at the  *)
(* last of its deadlines; an account cancelled is gone by then.            *)
(*                                                                         *)
(* The engine itself is BookingEngine; here it is a task that sends POSTs, *)
(* hears of them or not, cancels its extras and returns.  A POST given up  *)
(* may still be carried out, at any later time.                            *)
(***************************************************************************)
EXTENDS Naturals, FiniteSets, FiniteSetsExt, Sequences, SequencesExt

CONSTANTS
    NAccounts,   \* the accounts with a row for the released date, 1..NAccounts
    NPosts,      \* the POSTs an engine may send, the best tee time first
    Grouped,     \* the rows are the options of one group, account 1's the best
    T0,          \* the instant of the drop
    Starts,      \* the instants at which the run may start
    ReplicaTimeout, SelfDeadlineMargin, WriterGrace, PostBurstQuiet,   \* durations of runner.py
    Actors,      \* who acts beside the run
    Faults,      \* the faults that may occur
    MaxMishaps   \* how many of them may occur

Accounts == 1..NAccounts
Posts == Accounts \X (1..NPosts)
PostsOf(a) == {p \in Posts : p[1] = a}

\* store   a read or claim fails        group   the group's rows cannot be read
\* prepare adapters, pools: one fails   decrypt a password cannot be decrypted
\* lost    a POST's answer is lost      captcha a POST is never sent
\* cancel  a cancel fails               engine  an engine raises
\* throttle the course answers 429      write   an outcome write keeps failing
\* again   it lands, its answer is lost mail    the operator's summary fails
\* crash   the job dies         config  the keyring or the captcha key is missing
AllFaults == {"config", "store", "group", "prepare", "decrypt", "lost", "captcha", "cancel",
              "engine", "throttle", "write", "again", "mail", "crash"}

ASSUME RunnerAssumption ==
    /\ NAccounts \in Nat \ {0} /\ NPosts \in Nat \ {0} /\ MaxMishaps \in Nat
    /\ Grouped \in BOOLEAN /\ T0 \in Nat /\ Starts \subseteq Nat
    /\ ReplicaTimeout \in Nat /\ SelfDeadlineMargin \in 0..ReplicaTimeout
    /\ WriterGrace \in 0..SelfDeadlineMargin /\ PostBurstQuiet \in Nat
    /\ Actors \subseteq {"watcher", "owner"} /\ Faults \subseteq AllFaults

VARIABLES
    now,      \* the clock
    started,  \* when the run started
    row,      \* row[a]: the row of account a; its lease is "b" of this run, "x" of another writer
    led,      \* led[p]: the ledger's state of the reservation of POST p
    st,       \* st[p]: what the recorder of p's account knows of POST p
    live,     \* the POSTs whose reservation the course holds
    served,   \* the POSTs the course has carried out
    prior,    \* the accounts that held a reservation of their own before
    task,     \* task[a]: the engine's task
    result,   \* result[a]: how it ended
    queue,    \* the outcomes emitted and not written
    job,      \* the run itself
    mishaps   \* the faults so far

engine == <<st, live, served, prior, task, result, queue>>
clock == <<now, started>>
vars == <<clock, row, led, engine, job, mishaps>>

Prior == NPosts + 1   \* the raw id of the reservation the account already had

Job == [stage |-> "read", todo |-> {}, claimed |-> {}, written |-> {}, failed |-> {},
        systemic |-> FALSE, hit |-> FALSE, exit |-> "none", told |-> {}]

RInit ==
    /\ started \in Starts /\ now = started
    /\ prior \in SUBSET Accounts
    /\ row = [a \in Accounts |-> [status |-> "pending", raw |-> 0, lease |-> "none", reconcile |-> FALSE]]
    /\ led = [p \in Posts |-> "none"] /\ st = [p \in Posts |-> "idle"]
    /\ live = {} /\ served = {}
    /\ task = [a \in Accounts |-> "none"] /\ result = [a \in Accounts |-> "none"]
    /\ queue = <<>>
    /\ job = Job /\ mishaps = 0

Mishap(f) == f \in Faults /\ mishaps < MaxMishaps /\ mishaps' = mishaps + 1
Fine == UNCHANGED mishaps
Stage(s) == job.stage = s

\* The outcomes of several accounts are emitted in the order of their rows.
InOrder(S) == CHOOSE s \in SetToSeqs(S) : \A i, j \in DOMAIN s : i < j => s[i] < s[j]

\* The leases of the claim end at the same instant whenever the run started.
Until == T0 + ReplicaTimeout
Alive(r) == r.lease = "x" \/ (r.lease = "b" /\ now < Until)
Unleased(r) == [r EXCEPT !.lease = IF r.lease = "b" THEN "none" ELSE r.lease]

-----------------------------------------------------------------------------
(* READ #1, WRITE #1.                                                      *)

\* The operator's summary, when there are rows or a failure to report; its failure alone
\* makes the exit non-zero.
Ending(j) ==
    \/ Fine /\ job' = [j EXCEPT !.stage = "done", !.exit = IF j.systemic THEN "systemic" ELSE "ok", !.told = j.claimed]
    \/ (j.systemic \/ j.claimed # {}) /\ Mishap("mail") /\ job' = [j EXCEPT !.stage = "done", !.exit = "systemic"]
Systemic(j) == [j EXCEPT !.stage = "done", !.exit = "systemic", !.systemic = TRUE]

\* The group floor: an account whose group holds a better booking at another one.
Floored == {a \in Accounts : Grouped /\ \E x \in Accounts : x < a /\ row[x].status = "booked"}
Pending == {a \in Accounts : row[a].status = "pending"}

\* No keyring, or no key for the captchas: nothing is read.
ConfigFails ==
    /\ Stage("read") /\ Mishap("config") /\ job' = Systemic(job)
    /\ UNCHANGED <<clock, row, led, engine>>

\* A call of the store, its replays included, has used up its budget.
StoreFails == Mishap("store") /\ job' = Systemic(job)

ReadEvents ==
    /\ Stage("read")
    /\ \/ \E floored \in {Floored, {}} :
            LET todo == Pending \ floored IN
            IF todo = {} THEN floored = Floored /\ Ending(job)
            ELSE /\ IF floored = Floored THEN Fine ELSE Mishap("group")
                 /\ job' = [job EXCEPT !.stage = "claim", !.todo = todo]
       \/ StoreFails
    /\ UNCHANGED <<clock, row, led, engine>>

\* claim_rows: a pending row that no other writer's live lease covers.
Claimable(todo) == {a \in todo : row[a].status = "pending" /\ ~(Alive(row[a]) /\ row[a].lease = "x")}
ClaimedRows(C) == [a \in Accounts |-> IF a \in C /\ row[a].lease # "x" THEN [row[a] EXCEPT !.lease = "b"] ELSE row[a]]

\* One claim call; what stays unclaimed is tried again until the give-up instant, which
\* is before the race and, for a run started by hand, its start.
Claim ==
    /\ Stage("claim") /\ job.todo # {}
    /\ LET got == Claimable(job.todo)
           rest == job.todo \ got
           all == job.claimed \cup got
           j == [job EXCEPT !.claimed = all, !.todo = rest]
       IN  \/ /\ row' = ClaimedRows(got)
              /\ \/ rest # {} /\ now < T0 /\ Fine /\ job' = j
                 \/ all = {} /\ Ending(j)
                 \/ all # {} /\ Fine /\ job' = [j EXCEPT !.stage = "prepare"]
           \/ \* the call timed out: it may have landed, in part
              /\ StoreFails
              /\ \E part \in SUBSET got : row' = ClaimedRows(part)
    /\ UNCHANGED <<clock, led, engine>>

-----------------------------------------------------------------------------
(* Passwords, adapters, pools, allocation; then one task per account.      *)

Decrypted == {a \in job.claimed : task[a] # "none"}

Prepare ==
    /\ Stage("prepare")
    /\ \E sealed \in SUBSET job.claimed :
        /\ IF sealed = {} THEN Fine ELSE Mishap("decrypt")
        /\ task' = [a \in Accounts |-> IF a \in job.claimed \ sealed THEN "run" ELSE "none"]
        /\ result' = [a \in Accounts |-> IF a \in sealed THEN "decrypt" ELSE "none"]
        /\ queue' = InOrder(sealed)
    /\ job' = [job EXCEPT !.stage = "race"]
    /\ UNCHANGED <<clock, row, led, st, live, served, prior>>

\* Nothing raced: the rows are handed back, as far as the store lets them be.
PrepareFails ==
    /\ Stage("prepare") /\ Mishap("prepare")
    /\ \E back \in SUBSET job.claimed :
        row' = [a \in Accounts |-> IF a \in back THEN Unleased(row[a]) ELSE row[a]]
    /\ job' = Systemic(job)
    /\ UNCHANGED <<clock, led, engine>>

-----------------------------------------------------------------------------
(* The race: the engine of an account, its POSTs and the course.           *)

In(a, S) == {p \in PostsOf(a) : st[p] \in S}
Best(S) == CHOOSE p \in S : \A q \in S : p[2] <= q[2]
Running(a) == task[a] = "run" /\ (Stage("race") \/ Stage("cut"))

\* A burst, or a single POST of the fallback, while nothing is booked.
Fire(a) ==
    /\ Running(a) /\ now >= T0 /\ a \notin prior /\ Fine
    /\ In(a, {"flying", "booked", "kept"}) = {} /\ In(a, {"lost"}) \cap live = {}
    /\ \E sent \in SUBSET In(a, {"idle"}) \ {{}} :
        st' = [p \in Posts |-> IF p \in sent THEN "flying" ELSE st[p]]
    /\ UNCHANGED <<clock, row, led, live, served, prior, task, result, queue, job>>

\* The course carries a POST out, also one that nobody waits for any more.
Serve(p) ==
    /\ st[p] \in {"flying", "lost"} /\ p \notin served /\ Fine
    /\ served' = served \cup {p} /\ live' = live \cup {p}
    /\ UNCHANGED <<clock, row, led, st, prior, task, result, queue, job>>

Answer(p) ==
    /\ st[p] = "flying" /\ Running(p[1])
    /\ \/ p \in served /\ Fine /\ st' = [st EXCEPT ![p] = "booked"]
       \/ p \notin served /\ Fine /\ st' = [st EXCEPT ![p] = "gone"]
       \/ Mishap("lost") /\ st' = [st EXCEPT ![p] = "lost"]
       \/ p \notin served /\ Mishap("captcha") /\ st' = [st EXCEPT ![p] = "captcha"]
    /\ UNCHANGED <<clock, row, led, live, served, prior, task, result, queue, job>>

\* Of several bookings the best is kept; a failed cancel may have been done.
CancelExtra(a) ==
    /\ Running(a) /\ In(a, {"flying"}) = {}
    /\ LET held == In(a, {"booked"}) IN
       \E p \in {x \in held : x # Best(held)} :
        \/ Fine /\ st' = [st EXCEPT ![p] = "cut"] /\ live' = live \ {p}
        \/ Mishap("cancel") /\ st' = [st EXCEPT ![p] = "kept"] /\ live' \in {live, live \ {p}}
    /\ UNCHANGED <<clock, row, led, served, prior, task, result, queue, job>>

Emitting(S, how) ==
    /\ queue' = queue \o InOrder(S)
    /\ result' = [a \in Accounts |-> IF a \in S THEN how ELSE result[a]]

\* What the guard finds: a reservation of before, or a POST that landed unheard.
Found(a) == a \in prior \/ In(a, {"lost"}) \cap live # {}

Return(a) ==
    /\ Running(a) /\ In(a, {"flying"}) = {} /\ Cardinality(In(a, {"booked"})) <= 1
    /\ \E how \in {"booked", "already", "miss", "auth", "captcha", "error"} :
        /\ how = "booked" <=> In(a, {"booked"}) # {} /\ how # "error"
        /\ how = "already" => Found(a)
        /\ how = "miss" => ~Found(a)
        /\ IF how \in {"auth", "captcha", "error"} THEN Mishap("engine") ELSE Fine
        /\ Emitting({a}, how)
    /\ task' = [task EXCEPT ![a] = "out"]
    /\ UNCHANGED <<clock, row, led, st, live, served, prior, job>>

\* Mutant: the margin before the replica timeout is forgotten.
DeadlineAtTimeout == started + ReplicaTimeout

\* Counted from the start of the run, not from T0.
SelfDeadlineAt == started + ReplicaTimeout - SelfDeadlineMargin

SelfDeadline ==
    /\ Stage("race") /\ now >= SelfDeadlineAt /\ Fine /\ \E a \in Accounts : task[a] = "run"
    /\ job' = [job EXCEPT !.stage = "cut", !.hit = TRUE]
    /\ UNCHANGED <<clock, row, led, engine>>

\* A cancelled engine: what was on the wire is uncertain from here on.
Cancelled(a) ==
    /\ Stage("cut") /\ task[a] = "run" /\ Fine
    /\ task' = [task EXCEPT ![a] = "out"]
    /\ st' = [p \in Posts |-> IF p \in In(a, {"flying"}) THEN "lost" ELSE st[p]]
    /\ UNCHANGED <<clock, row, led, live, served, prior, result, queue, job>>

Unheard == {a \in Accounts : task[a] = "out" /\ result[a] = "none"}

\* All tasks are over: what did not report is reported, and the writer drains.
RaceOver ==
    /\ Stage("race") \/ Stage("cut")
    /\ \A a \in Accounts : task[a] # "run"
    /\ Emitting(Unheard, "deadline") /\ Fine
    /\ job' = [job EXCEPT !.stage = "drain"]
    /\ UNCHANGED <<clock, row, led, st, live, served, prior, task>>

-----------------------------------------------------------------------------
(* WRITE #2: one outcome per row, from the result and the recorder's log.  *)

Uncertain(a) == In(a, {"lost", "captcha"}) # {} \/ result[a] \in {"error", "deadline"}
Booked(a) == result[a] \in {"booked", "already"}
Kept(a) ==
    IF result[a] = "booked" THEN Best(In(a, {"booked"}))[2]
    ELSE IF In(a, {"lost"}) \cap live # {} THEN Best(In(a, {"lost"}) \cap live)[2] ELSE Prior

\* Mutant: an extra whose cancel failed counts as cancelled.
LedgerTrusting(a, p) ==
    CASE st[p] = "booked" -> IF Booked(a) THEN "held" ELSE "held_extra"
      [] st[p] \in {"cut", "kept"} -> "cancelled_extra"
      [] OTHER -> led[p]

\* The ledger of the outcome: what this run saw booked, and nothing it only found.
LedgerFor(a, p) ==
    CASE st[p] = "booked" -> IF Booked(a) THEN "held" ELSE "held_extra"
      [] st[p] = "kept" -> "held_extra"
      [] st[p] = "cut" -> "cancelled_extra"
      [] OTHER -> led[p]

Ledgered(a) == [p \in Posts |-> IF p[1] = a THEN LedgerFor(a, p) ELSE led[p]]

Flagged(r) == IF r.status = "withdrawn" THEN r ELSE [r EXCEPT !.reconcile = TRUE]
OutcomeRow(a) ==
    Unleased(IF Booked(a)
             THEN [row[a] EXCEPT !.status = "booked", !.raw = Kept(a), !.reconcile = Uncertain(a)]
             ELSE [row[a] EXCEPT !.reconcile = row[a].reconcile \/ Uncertain(a)])

\* A booking needs the run's own live lease, a note only that no other writer has one.
Accepted(a) ==
    IF Booked(a) THEN row[a].lease = "b" /\ Alive(row[a]) ELSE ~(Alive(row[a]) /\ row[a].lease = "x")
Recorded(a) == [row EXCEPT ![a] = IF Accepted(a) THEN OutcomeRow(a) ELSE Flagged(row[a])]

\* It landed, and the replay is refused: the first write gave the lease back.
RecordedTwice(a) == [row EXCEPT ![a] = IF Booked(a) THEN Flagged(OutcomeRow(a)) ELSE OutcomeRow(a)]

Settled(j, a, ok) == IF ok THEN [j EXCEPT !.written = @ \cup {a}] ELSE [j EXCEPT !.failed = @ \cup {a}]

Write ==
    /\ now >= T0 + PostBurstQuiet /\ queue # <<>> /\ (Stage("race") \/ Stage("cut") \/ Stage("drain"))
    /\ LET a == Head(queue) IN
       \/ /\ Fine /\ row' = Recorded(a) /\ led' = Ledgered(a)
          /\ job' = Settled(job, a, Accepted(a))
       \/ /\ Mishap("again") /\ Accepted(a) /\ row' = RecordedTwice(a) /\ led' = Ledgered(a)
          /\ job' = Settled(job, a, ~Booked(a))
       \/ /\ Mishap("write") /\ UNCHANGED <<row, led>>
          /\ job' = Settled(job, a, FALSE)
    /\ queue' = Tail(queue)
    /\ UNCHANGED <<clock, st, live, served, prior, task, result>>

\* Mutant: the writer is awaited without a deadline.
NeverUp == FALSE

WriterDeadline == SelfDeadlineAt + WriterGrace
GraceUp == now >= WriterDeadline

\* The writer's deadline: the write on the wire may land, everything unwritten is
\* dumped and counts as failed.
WriterCut ==
    /\ Stage("drain") /\ GraceUp /\ queue # <<>> /\ Fine
    /\ LET a == Head(queue) IN
       \/ UNCHANGED <<row, led>>
       \/ row' = Recorded(a) /\ led' = Ledgered(a)
    /\ job' = [job EXCEPT !.stage = "collapse", !.todo = {}, !.failed = @ \cup ToSet(queue)]
    /\ queue' = <<>>
    /\ UNCHANGED <<clock, st, live, served, prior, task, result>>

-----------------------------------------------------------------------------
(* The collapse of the groups, and the end of the run.                     *)

\* The worse bookings of the group at accounts of this run, which alone have a session.
Held(a) == row[a].status = "booked" /\ Grouped
Worse == {a \in Decrypted : Held(a) /\ \E x \in Accounts : x < a /\ Held(x)}
Own(a) == row[a].raw \in 1..NPosts /\ led[<<a, row[a].raw>>] \in {"held", "held_extra"}

Drained ==
    /\ Stage("drain") /\ queue = <<>> /\ Fine
    /\ job' = [job EXCEPT !.stage = "collapse", !.todo = Worse]
    /\ UNCHANGED <<clock, row, led, engine>>

\* Lease, marker and cancel of the next one, best first; a 429 stops the pass.
Shed ==
    /\ Stage("collapse") /\ job.todo # {}
    /\ LET a == Min(job.todo)
           p == <<a, row[a].raw>>
           free == Own(a) /\ row[a].lease # "x"
       IN  \/ /\ free /\ Fine
              /\ live' = live \ {p}
              /\ row' = [row EXCEPT ![a].lease = "b"]
              /\ job' = [job EXCEPT !.stage = "shed"]
           \/ /\ free
              /\ \/ Mishap("cancel") /\ job' = [job EXCEPT !.todo = @ \ {a}]
                    /\ live' \in {live, live \ {p}}
                 \/ Mishap("throttle") /\ job' = [job EXCEPT !.todo = {}] /\ UNCHANGED live
              /\ row' = [row EXCEPT ![a] = Unleased(row[a])]
           \/ /\ ~free /\ Fine
              /\ job' = [job EXCEPT !.todo = @ \ {a}] /\ UNCHANGED <<live, row>>
    /\ UNCHANGED <<clock, led, st, served, prior, task, result, queue>>

ShedWrite ==
    /\ Stage("shed")
    /\ LET a == Min(job.todo) IN
       /\ \/ /\ Fine
             /\ row' = [row EXCEPT ![a] = [Unleased(row[a]) EXCEPT !.status = "pending", !.raw = 0]]
             /\ led' = [led EXCEPT ![<<a, row[a].raw>>] = "cancelled_group"]
          \/ /\ Mishap("write") /\ UNCHANGED led
             /\ row' \in {row, [row EXCEPT ![a] = Unleased(row[a])]}
       /\ job' = [job EXCEPT !.stage = "collapse", !.todo = @ \ {a}]
    /\ UNCHANGED <<clock, engine>>

\* Mutant: a failed write is not a systemic cause.
SystemicButWrites == job.hit \/ \E a \in job.claimed : result[a] \in {"decrypt", "captcha"} \/ Uncertain(a)

SystemicCause ==
    \/ job.hit \/ job.failed # {}
    \/ \E a \in job.claimed : result[a] \in {"decrypt", "captcha"} \/ Uncertain(a)

Finish ==
    /\ Stage("collapse") /\ job.todo = {}
    /\ Ending([job EXCEPT !.systemic = SystemicCause])
    /\ UNCHANGED <<clock, row, led, engine>>

Crash ==
    /\ ~Stage("done") /\ ~Stage("killed") /\ Mishap("crash")
    /\ job' = [job EXCEPT !.stage = "killed"]
    /\ UNCHANGED <<clock, row, led, engine>>

-----------------------------------------------------------------------------
(* The clock, another writer of the rows, and the user at the site.        *)

Tick ==
    /\ now < WriterDeadline /\ now' = now + 1 /\ Fine
    /\ UNCHANGED <<started, row, led, engine, job>>

OtherLease(a) ==
    /\ "watcher" \in Actors /\ Fine
    /\ row[a].status = "pending" /\ ~Alive(row[a])
    /\ row' = [row EXCEPT ![a].lease = "x"]
    /\ UNCHANGED <<clock, led, engine, job>>

\* It may have adopted the account's own reservation.
OtherEnd(a) ==
    /\ row[a].lease = "x" /\ Fine
    /\ \/ row' = [row EXCEPT ![a].lease = "none"]
       \/ /\ a \in prior
          /\ row' = [row EXCEPT ![a].lease = "none", ![a].status = "booked", ![a].raw = Prior]
    /\ UNCHANGED <<clock, led, engine, job>>

Withdraw(a) ==
    /\ "owner" \in Actors /\ Fine
    /\ row[a].status = "pending" /\ ~Alive(row[a])
    /\ row' = [row EXCEPT ![a].status = "withdrawn"]
    /\ UNCHANGED <<clock, led, engine, job>>

\* What the run does by itself: the engines, the store's answers to the writer and
\* the faults are not among it.
Runs ==
    \/ ReadEvents \/ Claim \/ Prepare \/ SelfDeadline \/ RaceOver \/ WriterCut
    \/ Drained \/ Finish \/ \E a \in Accounts : Cancelled(a)
Sheds == Shed \/ ShedWrite

RNext ==
    \/ Runs \/ Sheds \/ ConfigFails \/ PrepareFails \/ Write \/ Crash \/ Tick
    \/ \E a \in Accounts : \/ Fire(a) \/ CancelExtra(a) \/ Return(a)
                           \/ OtherLease(a) \/ OtherEnd(a) \/ Withdraw(a)
    \/ \E p \in Posts : Serve(p) \/ Answer(p)

RSpec == RInit /\ [][RNext]_vars
RFairSpec == RSpec /\ WF_vars(Tick) /\ WF_vars(Runs) /\ WF_vars(Sheds)

-----------------------------------------------------------------------------
\* When the run is over, every reservation it made is in the ledger, or its row is
\* flagged for the watcher, or its outcome was dumped: whatever answers were lost, and
\* wherever the deadlines cut.
NothingUntold ==
    Stage("done") => \A p \in live : \/ led[p] \in {"held", "held_extra"}
                                     \/ row[p[1]].reconcile \/ p[1] \in job.failed

\* Exit 0 means that nothing is left to look after: every claimed row was written and
\* told to the operator, and every reservation made is in the ledger (section 4.5).
ExitHonest ==
    job.exit = "ok" => /\ job.written = job.claimed /\ job.told = job.claimed
                       /\ \A p \in live : led[p] \in {"held", "held_extra"}

\* A POST is on the wire only under the run's own live lease: what the docstring of
\* _book_event says of every run ("its lease is held from the claim").
HeldFromTheClaim ==
    \A p \in Posts : st[p] = "flying" /\ ~Stage("killed")
        => row[p[1]].lease = "b" /\ Alive(row[p[1]])

\* It is so of a run that starts before T0, or after it by less than what the margin
\* leaves of the grace: its deadlines stop it before its leases end, and no other writer
\* books the row at the same time.
InTime == started + WriterGrace < T0 + SelfDeadlineMargin
LeasedWhilePosting == InTime => HeldFromTheClaim

\* The run ends by itself, though an engine or an outcome's write hangs: the
\* self-deadline and the writer's are there for that.
Ends == <>(Stage("done") \/ Stage("killed"))
=============================================================================
