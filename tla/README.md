# TeeTimeBooker in TLA+

TeeTimeBooker books golf tee times the moment a course releases them, watches
for better ones, and offers its users a web site to say what they want. It is a
set of short-lived processes around one document store and around courses whose
servers answer late, twice or not at all. What can go wrong in it are orders of
steps: this directory models those, checks them with TLC and proves the central
ones with TLAPS.

Paths below are relative to `src/src/teetime/` unless they start with `src/`.

## 1. The system

| Component | State it keeps | Operations | Hard behaviour | Module |
|---|---|---|---|---|
| Row store (`tenant/in_memory_store.py`, `semantics.py`, `models.py`) | per course account: rules, ruleday pointers, dated request rows, one slot pointer per date, row leases, a ledger of reservations, cutoff settings | claim / lease / release, `record_outcomes`, insert / reactivate / withdraw / rewrite rule rows, one-offs, skips, cutoffs, `finalize_lost`, `upsert_rule` | five kinds of process write the same rows; leases expire under a slow holder; an outcome arrives at a row that moved | `TenantRows`, `DateOwnership` |
| Materializer (`tenant/materialize.py`) | rule versions, watermarks | the watcher's tick, `apply_rule_edit`, the sweep | call sequences that interleave and die half-way; copies that went stale | `Materializer` |
| Booking engine (`core/orchestrator.py`) | request lock, terminal result, progress of a run | pre-warm, guard, blind burst, keep the best and cancel the rest, re-guard, search, sequential bookings | a POST whose answer is lost may have booked; two reservations after a burst; logins that fail in four ways | `BookingEngine` |
| ForeUP adapter (`courses/foreup/base.py`) | session, reservation list of the last login | authenticate, refresh, list, book, cancel | the list is as old as the login; a refused login raises nothing | `BookingEngine`, `TokenPool` |
| Captcha tokens and the draft (`courses/foreup/token_pool.py`, `tenant/allocation.py`) | ready tokens, leases, a reserve, the tee times each account may post blind | fill, lease, pop, release, close; draft | a fill too small, dead or hung; a token used twice | `TokenPool` |
| Watch and upgrade engines (`core/watch_orchestrator.py`, `upgrade_orchestrator.py`) | one run's view | reconcile duplicates; book or upgrade | cancel first, book then: in between there is nothing, or both | `TenantWatch` |
| Tenant watcher (`tenant/watch_runner.py`, `watcher.py`) | snapshots of an account, upgrade marker | adopt, judge a booking missing, upgrade, finalize | absence in a degraded snapshot; a crash between marker and cancel | `TenantWatch` |
| Tenant runner (`tenant/runner.py`, `booking_job.py`, `recording.py`) | claims, a self-deadline, a queue of outcomes | claim, prepare, race, stream outcomes, collapse, exit code, summary | the deadline cancels accounts whose outcome is being written | `TenantRunner` |
| Groups (`tenant/groups.py`, `web/group_services.py`) | sibling rows | collapse to the best booking; save, skip, withdraw, switch course by course | a partial failure leaves siblings apart | `TenantWatch`, `TenantRunner`, `WebGroups` |
| Cosmos store (`tenant/cosmos/store.py`, `retry.py`) | documents with ETags, claims across partitions | point reads and guarded batches; stake, bind, reclaim a claim | a read that is stale when the batch lands; an applied batch whose answer is lost | `CosmosRows`, `CosmosClaims` |
| Web site (`web/services.py`) | forms carrying versions | create / edit / skip / withdraw / cancel; invite, sign in, connect | stale forms; a managed cancel beside the watcher | `TenantRows`, `Materializer`, `WebGroups`, `TenantWatch`, `CosmosClaims` |
| Policy, gates, cutoffs (`core/release_policy.py`, `dst_gate.py`, `booking_day_gate.py`, `booking_cutoff.py`) | none | civil time arithmetic | clock changes, midnight, late jobs | `ReleaseCalendar` |
| TeeItUp adapter, OTP, secrets, configuration, mail, pages, seeding, migration, doubles, Bicep | - | I/O and conversions | - | - |

The processes meet in the row store. The materializer (inside the watcher's tick
and inside a web request) writes rules and rows; the booking job and the watcher
lease rows, run an engine per account against the course, and report outcomes;
the web writes rows without a lease and, for a managed cancel, with one. The
booking job shares a token pool and a draft among its engines. Both stores offer
the same protocol; production runs on Cosmos.

`PROJECT.json` lists the same parts under `components` with what is modelled of
each, and under `hazards` every place we know where the code is exposed to
something a test would hardly reach, each at its line, with the properties that
would catch it or the reason why none does.

## 2. The modules

```
DateOwnership              what the store promises about a date
   ^ implements
TenantRows                 the store, one atomic call per action
   ^ EXTENDS   ^ EXTENDS   ^ EXTENDS
Materializer   CosmosRows  TenantRowsProofs -> MaterializerProofs
(every step    (implements                  -> CosmosRowsProofs
one of these)  the calls)
BookingEngine              one account's runs against the courses    BookingEngineProofs
TokenPool                  the tokens and the draft its bursts share
TenantRunner               the booking job around those engines      TenantRunnerProofs
TenantWatch                the watcher, its engines, and        TenantWatchProofs
                           everybody beside it
WebGroups                  a request over several courses            WebGroupsProofs
CosmosClaims               sign-ins and logins, unique across        CosmosClaimsProofs
                           partitions
ReleaseCalendar            which job runs when, and for which date
MC...                      values for TLC
```

The modules meet at the same state, seen at the granularity each needs. A row of
`TenantWatch`, `TenantRunner` or `WebGroups` is a row of `TenantRows` reduced to
the fields its process reads; the rules by which a report is accepted, refused or
turned into a flag are the same in all of them (`Accepted`, `OutcomeRow`). The
engine of `TenantRunner` is `BookingEngine` reduced to POSTs sent, heard and
cancelled.

### TenantRows

One course account. A row id is `<<origin, date>>`, the origin a rule or a
one-off; the code derives a rule row's id from rule and date
(`semantics.rule_row_id`) and gives a one-off a fresh id. `rows` holds the
fields that some branch reads: status, withdraw or cancel reason, the status
before a supersede, the cutoff instant, a one-off's own cutoff, the rule's
wishes as one value, lease owner and liveness, `needs_reconcile` and the booked
reservation. `slots` and `ruledays` are the pointer documents, `ledger` the
reservation ledger.

Each action is one call of the store with all it writes. `Commit` is
`_commit` with its two guards: a rule row becomes bookable only under its
stored rule on an open date, and a slot is taken only if free, releases first.
`MayTransition` is `check_transition` with the table `TransitionOwners`;
`Accepted`, `OutcomeRow`, `Applied` and `Refused` are `_apply_outcome`. A
caller's version or fingerprint can only turn a call into a refusal, which
changes nothing, so the actions leave it out and Materializer and CosmosRows,
whose behaviour depends on refusals, bring it back.

Abstractions: prices, options, names and mail are left out; the three system
withdraw reasons are one value, as are the web's `user` and `already_gone`. The
expiry of a lease is an action that may happen at any time, which covers every
clock. Time is a tick counter: a date's cutoff is an instant on it. The code
passes a call the reading of the clock taken when its process started; the
model judges the call on the clock as it is, and lets the clock move anywhere
between two calls. `working` says which row an owner may report about (a
process works on one row of an account at a time); `skipWish` is a history
variable.

### Materializer

`job[p]` is the rest of the call sequence of a watcher tick or a web request,
with the copies it holds: the rule and version it read, the watermark, today,
the owner's cutoff, the dates still to visit, the decision taken for the next
date and the row it was taken on. Reading a date's history and acting on it are
two steps, as are the sweep's query and each of its writes. `Stale` is the
store's version check; `Abort` is an exception, after which a tick goes on with
the next rule and a request is over. `DieJob` kills a job between two calls.
`Others` are the bots, the user and the clock, straight from TenantRows. The
in-memory store compares the whole row with the one read, so the model compares
rows where the code compares versions. `calm` is a history variable: the jobs
beside which nobody else has written.

### BookingEngine

The runs of one account for one date against `NCourses` courses, 1 the most
preferred, with `NSlots` matching slots each, 1 ranked best. A POST has two
sides: `served`, what the server did with it, and `heard`, what the run heard.
The run is a record with its place in `run()`, the courses with a session, the
list each login left, the candidates, the surplus to cancel and the result.

| Code | Actions |
|---|---|
| `run`: lock, replay, record, notify | `Begin`, `Finish`, `NextCourse` |
| `_prewarm_primary` | `Prewarm` |
| `_run_course`: login, guard, dry-run gate, blind gate | `Enter` |
| `_blind_post_course`: burst, classification, `_keep_best`, `_cancel_extras` | `Fire`, `Hear`, `Gather`, `CancelExtra`, `Settled` |
| `_reguard_before_fallback` | `Reguard` |
| `_poll_for_slots` | `Search` |
| `_book_from_candidates` | `Post`, `Outcome` |
| adapter: `authenticate`, `refresh_reservations`, `list_reservations` | `Login`, `Refreshed`, `Listed` |
| the process dies; its in-memory run store forgets | `Crash` |
| the course, other golfers, the owner by hand | `Drop`, `Rival`, `ByHand`, `Serve` |

Faults are named by the constant `Faults`, here and in the modules below, so
that a run of TLC says under which of them its properties hold. A burst is sent
at once and served in any order; the stagger between its POSTs only removes
interleavings. The number of POSTs is anything up to `MaxBlind`, which stands
for the token pool and the predicted grid. A blind POST that the adapter
re-sends once with a fresh token is not modelled (the first was refused before
it was looked at). Each run has its own adapters, as each process has.

### TokenPool

The accounts of one course before and after T0. `Allow` is the snake draft of
`allocate_blind_slots`: turns forward and back over as many accounts as one wave of
solves can feed, each taking its best free tee time. `fill` is the pool's one
fill in waves of `C`; `Arrive` and `SolveFails` are its solver coroutines,
`GrantOrder` the order in which tokens are dealt to leases before the rest goes
to the shared reserve. An engine waits in `Prefetch` until its lease is full,
the fill is over or its deadline (ten seconds before T0), sends its burst
(`FireBurst`, `Book`), solves inline when lease and reserve are dry (`Inline`), and
its adapter's close hands its lease to the others (`HandBack`, `Leave`). A
stale token costs one retry inline.

### TenantRunner

The booking job of one release event, from `run_event` to the exit code. `now`
is the clock and `started` the start of the run. As in the code, the leases of a
claim end a `ReplicaTimeout` after the drop `T0` (`Until`), whereas the two
deadlines count from the start (`SelfDeadlineAt`, `WriterDeadline`).

| Code | Actions |
|---|---|
| configuration, reading the event | `ConfigFails`, `ReadEvents`, `StoreFails` |
| `claim_rows` with the group floor | `Claim`, `ClaimedRows`, `Floored` |
| decrypt, adapters, pools | `Prepare`, `PrepareFails`, `Decrypted` |
| an engine's task: POSTs, answers, cancels, return | `Fire`, `Serve`, `Answer`, `CancelExtra`, `Return` |
| `asyncio.wait` with the deadline, cancelled tasks | `SelfDeadlineAt`, `SelfDeadline`, `Cancelled`, `RaceOver` |
| the streaming writer, its retries and grace | `Write`, `NeverUp`, `GraceUp`, `WriterDeadline`, `WriterCut` |
| `recording.py`: what an outcome writes to row and ledger | `OutcomeRow`, `LedgerFor`, `Flagged`, `Accepted` |
| `collapse_groups` | `Shed`, `ShedWrite` |
| exit code, operator mail | `Finish`, `Systemic` |
| the process dies; another writer; the user's withdrawal | `Crash`, `OtherLease`, `OtherEnd`, `Withdraw` |

### TenantWatch

Every account has one row for one date; when `Grouped` the rows are options of
one request. `res` is the history of reservations, `live` what the courses
hold; `row`, `led` and `snap` are what the store holds about them. A step
between two awaits is one action.

| Code | Actions |
|---|---|
| run start: read, finalize lost rows, group floor, shared search, plan | `Begin`, `Plan`, `SearchThrottled`, `Called` |
| login of an account, lease, snapshot | `Login`, `LoginFails`, `LoginThrottled`, `Enter` |
| `classify_missing_booking`, the two trusted lists | `Verdict`, `VerdictUnmarked` |
| `_act`: check once, adopt, reconcile, upgrade | `Act`, `Candidates`, `Adoptable`, `CancelExtra` |
| marker, cancel, rebook of `maybe_upgrade` | `Mark`, `Upgrade`, `Rebook`, `Pick`, `Posting` |
| the outcome | `Outcomes`, `Write` |
| `collapse_groups` | `Collapse`, `Shed`, `MarkDoubleHeld`, `ShedCancel`, `ShedWrite` |
| the web's managed cancel | `WebLease`, `WebCancel`, `WebWrite` |
| the 06:00 booker (an atomic engine; TenantRunner opens it) | `BookerClaim`, `BookerPost`, `BookerOutcome`, `BookerEnd` |
| deaths, expiry of a dead process's lease, the user's hand, the clock | `WatcherDies`, `BookerDies`, `Expire`, `HandBook`, `HandCancel`, `CutoffPasses` |

`Rank` says which option each tee time falls in. A search finds any tee times
and a POST may find its tee time gone: the sheet belongs to everybody. Runs of
the watcher follow each other without end. A flag `dry` is per behaviour.

### WebGroups

A save, skip, unskip, withdrawal or switch of a group is one store call per
course (`SaveOneOff`, `SaveRule` and `SaveRows`, `MoveFirst`, `ListRows`,
`MoveSibling`, `SwitchFirst`, `ListRules`, `SwitchSibling`), then the answer
(`Answer`), or the process dies before it (`Dies`). Between the calls leases
come and go, the tick materializes, courses pass their cutoffs and the other tab
acts. `settled` is what an answer without complaint put away, `said` what a save
answered: both are history. One date is modelled, and the steps inside a rule
edit are Materializer's; here an edit is one step.

### CosmosRows and CosmosClaims

`CosmosRows` keeps TenantRows' documents and replaces its atomic calls by what
`cosmos/store.py` does: `Begin` and `Guard` read the row, its rule and its
slot, `Point` the slot's holder, one read at a time, `Send` sends the batch. `fresh`
holds the documents a call has read and nobody has written since: those whose
ETag matches. `Lands` is the service's check of the ETags the batch asserts;
`Facts` is what a call decided on or copied and does not assert. A refused batch
sends the call back to read again (`Stale`, `LookAgain`), an applied batch may
lose its answer, after which `tenant/retry.py` calls again, and a caller may give
up. `FlagSlot`, `FlagActive`, `Flag` are `_write_ledger_and_flag` of a late
outcome; `EditPoint`, `EditSend` the two-pointer batch of a rule edit.

`CosmosClaims` are the keys no partition can guard: a sign-in belongs to one
user, a course login to one account. A call stakes a claim pending, counts the
account, writes the owner's document, binds the claim, and undoes what it did if
it cannot (`Claim`, `Stake`, `Count`, `Store`, `Join`, `Bind`, `Rollback`,
`Release`, `Remove`). A pending claim gets old (`Ages`) and is taken over; calls
are cut short anywhere (`CutShort`).

### ReleaseCalendar

Wall time over a zone with both clock changes, the release policy and its
validation, the two UTC crons of `release_policy.py` (one per half of the year),
the DST gate with and without lead across an hour, the booking-day gate, the
cutoff and the target date. Every cron instant fires a job up to a delay late;
what passes the gates is in `runs`.

## 3. What the runs check

Twelve runs, ten of which pass. Bounds are in the `.cfg` of each.

| Run | Properties | Shows |
|---|---|---|
| `rows_all` | `TypeOK`, `OneActiveRowPerDate`, `SkipHonoured`, `UserCancelIsFinal`, `ImplementsDateOwnership`, `LeaseDiscipline`, `NoSilentBooking` | two rules that move between weekdays and a one-off compete for a date, booker and watcher for the leases of a row, which expire at any time: one active row at most, every step a step of the abstract specification or a stutter, no row moved under its holder, no late report forgotten, skips and cancels final |
| `mat_walks` | `WalkRepairs`, `DeactivationWithdraws`, `EditReachesRows` | tick and web edit interleave call by call, stale forms and deaths included; a full walk nobody disturbs repairs all they left |
| `mat_sweeps` | `StragglersGo` | no uncovered, unleased row stays for ever |
| `mat_stranded` | `SupersededIsHeld` (violated) | the finding below |
| `book_drop` | `KeptIsLive`, `NothingLost`, `PutAwayEverywhere`, `SavedOrTold` | the race at the drop over two courses with lost, throttled, dying and opaque answers and failing cancels: what was confirmed is kept, and the best of it; group requests of two tabs over two courses |
| `book_again` | `NeverDoubleBooks`, `Terminates` | two runs for one date, beside each other or after a crash: no POST on top of a reservation the booker has; every run ends |
| `watch_one` | `HandKept`, `NotBlamedOnUser`, `Tracked`, `UpgradeImproves`, `CancelIsFinal` | one account beside any two of booker, web and user with one fault of any of nine kinds |
| `watch_group` | `NotLast`, `GroupCollapses` | two options of a group: the collapse never takes the last reservation and in the end leaves one |
| `run_drop` | `NothingUntold`, `ExitHonest`, `LeasedWhilePosting`, `Ends` | the booking job, started before T0, with one fault of any of fourteen kinds |
| `run_by_hand` | `HeldFromTheClaim` (violated) | the second finding below |
| `drop_day` | `OnePerDrop`, `NoMissedDrop`, `TokensOnce`, `FairShare`, `DraftSound`, `PrefetchEnds` | both clock changes under every valid policy of a grid; three accounts, a fill too small for them, a solve that fails, hangs, kills the fill or is refused |
| `cosmos` | `ImplementsTheStore`, `OneActiveRowPerDate`, `LeaseSticks`, `CoveredWhenOpened`, `AnsweredKeepsKey`, `UninvitedStays` | interleaved reads and batches do in one step what TenantRows does; claims across partitions |

`book_drop`, `drop_day` and `cosmos` each check two modules that share no state (the
engine and the groups of `WebGroups`, the calendar and the token pool, the rows and
the claims); a variable `half` picks one at the start and lets the other rest, so
that neither multiplies the other's states.

`mat_stranded` ends in a counterexample to what a comment of the code says: "the
materializer never un-supersedes", as a superseded row's slot is held
(`tenant/materialize.py:111-112`). When a leased leftover of a deactivated rule
held the slot and the sweep withdraws it, the slot is free, the new rule's row
stays superseded and the date is not booked.

`run_by_hand` ends in a counterexample to the docstring of `_book_event`: the
booker needs no leased store, "its lease is held from the claim"
(`tenant/runner.py:431-432`). The claim's lease ends 1200 s after T0 whatever the
start (`runner.py:452`), the self-deadline counts from the start (`:490`), and the
same docstring lets a manual run start late and fire at once (`:425-426`). Started
after the leases' end, it claims, prepares and posts with no live lease; another
writer may take the row meanwhile, and the booking is refused when it is recorded
(`semantics.py:305`). `LeasedWhilePosting` is the same statement for the runs that
start `InTime`, up to a minute after T0 with the code's numbers, and holds.

### What else the models show

Other disagreements and gaps came out while the models were built. They have no
run of their own; each is either excluded from a run by a named bound or fault, or
named in the property's comment, so that a reader can put it back.

- *A restored row keeps its cutoff.* `semantics.py:262` restores a withdrawn rule
  row with the instant it had, though lines 116-117 say it gets a fresh one.
- *A late watermark.* `set_materialized_through` (`in_memory_store.py:686`)
  carries no version: a tick may set it after a deactivation's last reset, against
  `materialize.py:514-515`. `WalkRepairs` says what repairs the rows.
- *A re-guard that fails at the first of two courses.* The run goes on to the next
  course (`core/orchestrator.py:746`) while a POST may have landed at the first,
  against lines 14-16. `book_again` has one course.
- *A cancel whose answer is lost clears its marker* (`watch_runner.py:941`); two
  lists later the bot's own cancel is taken for the user's. Fault `cutlost`, left
  out of `watch_one`.
- *A web cancel that outlives its lease* (fault `late`, in no run). Its refused
  write flags the row; if the watcher has meanwhile adopted the user's own booking,
  the flag makes that booking count as the bot's (`ownership_of`), and an upgrade
  may cancel it: `HandKept` fails.
- *A web cancel in flight and a collapse* together take the user's last booking
  (`groups.py:94` against `src/MULTIUSER_PLAN.md:1951-1954`). `watch_group` has no
  web.
- *A group and a watcher that dies.* A watcher dies with the lease of a row that holds the
  user's own booking. The next run's collapse notes it as held twice (`_mark_double_held`,
  `tenant/groups.py:233`); under the dead run's lease the note is refused and flags the row
  (`semantics.py:306`). The run after that takes the booking at the flagged row's tee time for
  its own (`ownership_of`, `watcher.py:244`) and may cancel it for an upgrade: `HandKept` fails.
  `watch_group` has neither the user's hand nor deaths.
- *Two faults.* `Tracked` is a statement about one fault: a lost answer and then a
  trusted list that misses the reservation hide it.
- *A recorded outcome is replayed* after its answer was lost (fault `again`) on a
  row that moved in between: `HandKept` then fails, so the fault is left out of
  `watch_one`; `run_drop` has it.
- *Every row leased by others.* The run ends with exit 0 and no mail
  (`runner.py:1011`), though nobody may be racing. User mails are never retried.
- *A sibling booked between the click and the listing* is passed over in silence
  by a group's skip or withdrawal; `PutAwayEverywhere` says so in its comment. A
  group form sent twice makes two groups, and a deactivation withdraws its rows
  before its stale version is refused.
- *A wrong-season cron ten minutes late.* With a lead that crosses the hour, a job
  that starts so late that it is in its gate's hour passes, and both crons race.
  `Punctual` excludes it.
- *What a Cosmos batch does not assert.* An insert decides to be superseded by a
  slot that is free by the time its batch lands; a reactivation copies the rule's
  wishes and cutoff of an older version; the slot read of `_write_ledger_and_flag` and the
  expiry of the lease between read and batch are not asserted. `StillSo` in
  `ImplementsTheStore` names exactly these; `CoveredWhenOpened` holds without it.
- *A lost answer of `record_outcomes`* is replayed, refused, and sets a flag that
  needs no reconciling.
- *Overlapping connects* of one account: the second finds its own claim pending, the
  first binds it, and the second deletes the account the first was told of
  (`cosmos/store.py:25-29`). A rename that fails restores a login somebody else
  claimed since. `shaken` in `AnsweredKeepsKey` excludes overlaps.

### Why the bounds are enough

*Row store.* One date suffices, as no call but the finalizer and the cutoff
rewrites touches two dates, and these treat each date alone; what matters is the
number of rows that compete for the date: two rules and a one-off. The week has
two days, so that a rule can cover the date, leave it and return. One reservation
is enough to be held, dropped or reported late. `MaxNow` lets the cutoff pass.
`MCFocus` keeps the weekday of an inactive rule at 0, as nothing reads it, and lets
either the second rule and the one-off take part or the booker beside the watcher.

*Materializer.* One tick and one request suffice to interleave; `MaxVersion`
allows the create, an edit after it, and a stale form. The constraint `MCFocus`
of `mat_walks` splits the behaviours in two families that need not meet: those in
which skips, one-offs and the weekday change, and those in which the window and
the cutoffs change. `Open` and `Closed` are cutoffs before and after the clock's
tick.

*Engine.* Two slots make a burst with a surplus and a fallback with a second
candidate, two courses a skip; two runs an overlap or a re-run. Polls are bounded
by `MaxPolls`, which stands for `max_poll_seconds`. The owner books by hand at
most once.

*Watcher.* Two tee times make an upgrade; three reservations are a booking, its
upgrade and one by hand. `MCFocus` lets any two of the booker, a booking by hand and the
web's cancel meet. Two accounts make a group. `MaxMishaps = 1`: one fault,
of any kind, anywhere.

*Booking job.* Two accounts of one group, two POSTs each, so that a burst has a
surplus and a group a loser. The durations are the smallest that keep the instants
of a run apart: the start, T0, the self-deadline (when the writer may begin), the
writer's deadline and, one tick later, the end of the leases, so that a margin
forgotten shows. Late starts are in `run_by_hand`, where the leases end; for them the
other properties rest on the theorems, as more starts are beyond five minutes of TLC.

*Pool.* Three accounts, a burst of two and waves of five: the draft leaves one
account out, the first wave does not cover the demand, and the reserve is of one.

*Calendar and groups.* The days up to `LastDay` hold both changes of the clock and every
weekday around them. Two courses, one more group and three requests: a request,
one that may overlap it, and one after both (`MCFocus` of `MCBookingDrop`).

*Cosmos.* Four calls on one date with one lost answer: two that overlap, one that
lands between, one retry. A date closes only after the fourth call, so what `StillSo`
says of a date's history is not put to the test there.

`CHECK_DEADLOCK FALSE` is set where the model may really stop: the clock or a
budget of calls is at its bound, every run has ended. The two watcher runs check
for deadlock. Symmetry is used for rules, and for one-offs, in runs without
liveness properties only.

### Fairness

- `StragglersGo` (`MFairSpec`): each tick job goes on and a new one starts for
  ever. The watcher is a scheduled job that runs through the day and calls
  `materialize_tick` every time. Web requests, bots and users owe nothing. Only
  web requests may die here: a watcher that dies at every attempt sweeps nothing.
- `Terminates` (`BFairSpec`): a run that can take a step takes one (asyncio's
  loop), and every POST on the wire is answered or given up (the HTTP client has
  a timeout). The drop itself is not assumed: a run ends although the sheet is
  never published.
- `GroupCollapses` (`WFairSpec`): the watcher's run goes on and runs follow one
  another, and the lease of a dead process expires. Nothing is assumed of the
  booker, the user or the clock.
- `Ends` (`RFairSpec`): the clock passes the deadlines and the job's own
  coroutines run. Engines and writes may hang: that is what the deadlines are for.
- `PrefetchEnds` (`PSpec`, which `MCDropDay` carries over to its half of the
  behaviours): the clock, and a waiter whose wait is over. Solves may hang, and a
  dead fill wakes its waiters.

## 4. What is proved

Eight modules hold proofs, each for every value of the constants: any finite or infinite
sets of rules, one-offs, dates, owners, reservations, ticks, requests, callers and owners
of keys, any number of accounts, courses, POSTs and faults. The assumptions are those the
modules state about their constants: identities do not clash, a week and a day have a
length, a cutoff never falls after its own date, an owner is a booker, a watcher or a web
request, a job is a tick or a request, only an owner asks for a lease, only the
booker claims, only the site adds one-offs, a rule is edited into a stored rule. A theorem that needs more says so in its statement. Three of the modules
are about the store: `CosmosRowsProofs` and `MaterializerProofs` extend
`TenantRowsProofs`. The others are about one module each.

| Module | Theorem | Property |
|---|---|---|
| `TenantRowsProofs` | `TypeCorrect` | `TypeOK` |
| | `OneRowPerDate` | `OneActiveRowPerDate` |
| | `OneRulePerWeekday` | `RuledayAgreement` |
| | `LeasesAreLeasable` | `LiveLeaseIsLeasable` |
| | `HoldersAlone` | `LeaseDiscipline` |
| | `BookedUnderLease` | `BookingNeedsLease` |
| | `ReconcileIsKept` | `ReconcileKept` |
| | `BookingsAreTold` | `NoSilentBooking` |
| | `SkipsAreHonoured` | `SkipHonoured` |
| | `CancelsAreFinal` | `UserCancelIsFinal` |
| | `RuleRowsWithdrawnBySystem` | `WithdrawnBySystem` |
| | `RowsImplementOwnership` | `ImplementsDateOwnership` |
| `MaterializerProofs` | `JobsTyped` | `TypeOK /\ JobsOK` |
| | `MaterializerUsesStore` | `Spec` |
| | `CopiesAreVersions` | `JobsFit` |
| | `CalmInvariant` | `CalmInv /\ CalmOK` |
| | `WalksRepair` | `WalkRepairs` |
| | `EditsReach` | `EditReachesRows` |
| | `DeactivationsWithdraw` | `DeactivationWithdraws` |
| `BookingEngineProofs` | `EngineInvariant` | `EngInv` |
| | `ResultsAreLive` | `KeptIsLive` |
| | `NoBookingLost` | `NothingLost` |
| | `OneReservation` | `NeverDoubleBooks` |
| `TenantRunnerProofs` | `RunnerInvariant` | `RunInv` |
| | `NothingIsUntold` | `NothingUntold` |
| | `ExitIsHonest` | `ExitHonest` |
| | `PostsAreLeased` | `LeasedWhilePosting` |
| `TenantWatchProofs` | `WatchInvariant` | `WatchInv` |
| | `UserCancelIsFinal` | `CancelIsFinal` |
| | `BotCancelNotBlamed` | `NotBlamedOnUser` |
| | `HandBookingsKept` | `HandKept` |
| | `LastOneKept` | `NotLast` |
| `WebGroupsProofs` | `GroupsInvariant` | `GroupInv` |
| | `StaysAway` | `PutAwayEverywhere` |
| | `SavesTold` | `SavedOrTold` |
| `CosmosRowsProofs` | `CosmosInvariant` | `CosmosInv` |
| | `OneRowPerDateOnCosmos` | `OneActiveRowPerDate` |
| | `LeasesStick` | `LeaseSticks` |
| | `OpenedUnderRule` | `CoveredWhenOpened` |
| | `CosmosImplementsTheStore` | `ImplementsTheStore` |
| `CosmosClaimsProofs` | `ClaimsTyped` | `TypeInv` |
| | `WithdrawnStays` | `UninvitedStays` |
| | `ToldKeys` | `AnsweredKeepsKey` |

`RuledayAgreement`, `LiveLeaseIsLeasable`, `BookingNeedsLease`, `ReconcileKept`,
`WithdrawnBySystem` and the inductive invariants are proved and therefore in no run
(TLC was asked about each of them before its proof); the others are checked by runs.

*Slots.* Every action is a `BatchStep`, one `Commit` of typed rows, or a
`QuietStep`, which moves no status and no pointer. `OneActiveRowPerDate` is
`SlotAgreement /\ SlotsInPlace`; with `TypeOK` it is inductive, since a batch
frees the slots its rows leave before it claims those they enter, and two rows of
one batch never enter the same date. Without `SlotsInPlace` a pointer could name
a row of another date, and freeing would miss it.

*Leases.* `RowLaw(old, new)` says what a step may do to one row: keep it, grant a
lease on it, move it under its lease along a leased edge and end the lease, or
write it unleased and away from `booked`. Every action obeys the law for every
row (`StepLaw`), and the properties follow from the law alone. The law needs an
invariant of its own, `LeaseInv`: a row that does not exist carries no flag and
no lease, an owner works on a row that exists, and the slot pointer names an
active row, so that flagging "the date's active row" never flags a row that is
not there. Only a report writes the ledger (`OnlyReportsWriteLedger`), and a report
that is refused while it brings a reservation flags what it finds (`BookingsAreTold`).

*What the user said.* `UserLaw(old, new)` is a second law of one row: what is
skipped, or would come back as skipped, stays so, and no row becomes cancelled or
ceases to be. Every action obeys it for every row but two: a cancel and an unskip
break it for one row and touch no other (`StepForUser`). A cancelled row was
booked, hence the active row of its date, hence no rule row is active beside it;
and a rule row becomes active later only in a batch that looked at the date's
history (`EnteringIsGuarded`). `SkipHonoured` and `UserCancelIsFinal` are then
inductive with `LeaseInv`.

*Ownership.* By `OneActiveRowPerDate` before and after a step, the slots follow
from the rows. `RowShape` says how the active rows of a step may change: none
enters, one row changes, a one-off displaces a rule row, or a withdrawn one-off
hands its date back. Each shape, with a cancel apart because it also closes its
date, is one action of `DateOwnership` (`StepRefines`).

*Materializer over store.* A job is a plan, the calls it still has to make, and its
copies. `JobOK` says which copies are there at which call; with it, each step of a job
is one action of `TenantRows` for a rule, a date and a row that exist, or leaves the
store alone. So `MSpec => Spec`, and every theorem about the store holds under
any number of ticks and requests that interleave and die between any two calls.

*Walks.* The invariant has two halves. Of every job, `JobsFit`: its copy of a rule
is an earlier version, or the stored rule itself, and its plan fits its request. Of a
`calm` job, one beside which nobody else has written, `CalmOK`: after its first guarded
call it has the stored version, and the dates its loops have passed are as these leave
them: cutoffs are the settings' (`CutoffsOK`), each covered date has its row, and a
withdrawn one only where another row holds the slot (`WalkOK`), pending rows have the
new window (`WantsOK`), the old days are free of the rule (`GoneOK`). A date that is
passed stays so while the job visits others, as a call for one date changes no other,
except through the cutoff rewrite, which comes first: with the window first, a row that
only the new cutoff re-opens would be missed. The walk may take every withdrawn
row of the rule for one that may come back because only the system withdraws rule rows
(`RuleRowsWithdrawnBySystem`).

*Booking job.* `RunInv` follows one outcome. A POST on the wire has a running
task, and what the course or the ledger holds of it fits what the recorder heard
(`WireOK`); a task belongs to a claimed row and is over before it is reported
(`TasksOK`); a claimed row has a task that is not reported yet, or its outcome is
queued, written or dumped (`AllAccounted`); a written outcome left its reservation in the ledger, or a flag where
the answer was lost (`WrittenOK`), also under a collapse that cancels before it writes
(`ShedGone`); and exit 0 means that all of it is written and nothing was lost
(`ExitOK`). None of these is inductive alone: that exit 0 leaves nothing behind rests
on the queue being empty at the collapse, and this on every task being over and
reported when the writer starts to drain. `PostsAreLeased` adds
`LeasesOK`, for runs that start `InTime`: the writer's deadline, the grace after the
self-deadline, then comes before the leases end (`LeasesLast`), so no other writer can
lease a claimed row while its engine runs. With the code's 1200, 90 and 30 seconds a run
is in time until a minute after T0. `NothingIsUntold` and `ExitIsHonest` need nothing of
the kind: they hold of a run whose leases have ended too, as what the store refuses
leaves a flag or counts as failed.

*Booking engine.* `EngInv` ties three views of a reservation together: the sheet
(`SheetOK`: a slot is open or held once), the POST (`HeardOK`: what was heard of it is what
became of it, or nothing) and the run. A reservation is `Mine` while nobody cancels it:
of a sequential POST, of a burst not settled yet, or the kept one; `MineHeld` and
`MineOne` say that it is on the sheet and that two POSTs never share one. `PlaceOK`,
`FreshOK` and `WaitOK` say where in `run()` which POSTs can be unsent or unanswered: only
the last sequential one, outside a burst. `SurplusOK` keeps the kept slot out of what a
burst cancels, and `KeeperOK` finds behind every BOOKED result, the stored one of an
earlier run included, the POST that made it. `KeptIsLive` and `NothingLost` follow for any
number of courses, slots and runs, late POSTs included. `OneReservation` has three
hypotheses, each a way the code cannot see a reservation: `NCourses = 1` (a re-guard that
fails at the first of two courses goes on to the next, section 3), no POST carried out
after it was given up, no login whose answer is not JSON. `OnceInv` adds that one run is
active at a time (`LockOne`), that a sequential reservation is alone (`AloneOK`), and what
a run with a session has seen (`CoverOK`): all its runs hold before it sends a POST, and
after that only what that POST got.

*Watcher.* Four processes meet at a row: the watcher, a web cancel, a booker and the user at
the course, and any of the first three may die or outlive its lease. `WatchInv` says what each
may rely on. Who works under a lease holds it, and the row has the status and the reservation
it was read with (`RunHolds`, `BookerHolds`); a planned row whose version nobody moved is the
stored one (`ReadOK`), which is what makes the lease the run then takes worth having; a row, a
plan or a run names reservations of its own account (`RowsBound`, `PlansBound`, `RunBound`,
`CrewBound`); `PhaseOK` and `CurOK` say what is at hand where. An outcome is judged once, for all who
report one, by what it may make of a row (`Becomes`, `OutcomeRowIs`). `UserCancelIsFinal` needs
in addition that a told cancel has left its row given up (`QuitOK`), and that only who works on
an active row sends a POST (`MadeBy`); it holds under all faults and in groups.

`BotCancelNotBlamed` rests on the upgrade marker. A cancelled booking that its row still names
has the marker (`CutMarked`), and the marker a run judges by is the stored one
(`MarkersRead`), so that a booking missing from the list is never taken for the user's doing:
the marker is written before the cancel is sent, and goes only with an outcome after which the
row no longer names what was cancelled (`RunCut`). With `cutlost` this fails as section 3 says, and the theorem excludes it.

`HandBookingsKept` rests on `HandInv`: what the ledger names, what a run counts as its own and
what it may cancel was made by the bot, or lies at the very tee time of a booking the bot made
(`AtBots`), where the list does not tell them apart; and the flag that makes
`ownership_of` count a booked row as the bot's is only raised where the row names such a tee
time (`FlagOK`). Its three hypotheses, no group and neither `again` nor `late`, are each needed:
TLC finds `HandKept` violated without any one of them (section 3). The theorem says nothing of groups.

`LastOneKept` rests on `KeepInv`: what was ever reserved and not cancelled is live (`OnlyCuts`),
a row names a cancelled booking only while the run that cancelled it holds it (`CutHeld`), and a
collapse leaves one booked row out of its work (`BestKept`). The row left out then names a live
reservation at the moment another is cancelled. Its five hypotheses (`OnlyWatcherCancels`) are
no cancel by the web or by hand at the course, no cancel whose answer was lost (`cutlost`), no
run that dies (`crash`) or whose write fails (`write`) between a cancel and its record. Each is
needed: over two accounts that both have a better tee time to move to, TLC finds `NotLast`
violated when any one of the five is admitted. The other faults may come in any number.

*Groups.* Between two store calls of a request anything may happen to its rows, so each
step is described course by course: what it may do to a group's row or rule that is not
the requester's doing (`Harmless`) keeps `GroupInv`. Of a save, `SavesOK` says that it knows
exactly what is stored and that nobody else stores anything of its group; of a skip,
withdrawal or switch nothing overlapped with, `AwayOK` says that every course it is done
with is put away; `SettledOK` adds that nobody is bringing back what an answer put away.
`SavedOrTold` and `PutAwayEverywhere` follow.

*Cosmos rows.* `CosmosInv` says what the ETags keep for a call in flight. A row it read and
nobody wrote has a status the call goes on with and is under no lease but its own
(`Knows`), though the lease may have run out; for each rule row its batch may open it holds
the rule's ruleday pointer, which, while nobody wrote it, names the rule (`Asserts`); an
edit holds the pointers it moves (`EditKnows`). `DocFrame` is the argument: a step that
writes some documents leaves everything else, and the ETags of what it wrote are gone, so
every other call keeps what it knows (`CallFrame`). The batch itself is then the batch of
TenantRows: `BatchSlots`, the lemma behind `OneRowPerDate`, is about both. A pointer that
names the rule stands for the stored rule by `RuledayAgreement`.

*Cosmos rows implement the store.* `ImplementsTheStore` compares a batch with an action of
TenantRows in the state the batch lands in. `Judged` says what is left of the call's reads
by then: an asserted row has a status the call judged fit, is under no lease but the
caller's, and still passes the tests its method makes (`Passed`); a row the batch creates
is still absent. With the facts still so, the batch is a `Commit`, and a rule row it opens may become active (`SentCommits`): it is
covered, by its ruleday pointer, and its date is open, by the facts. What is left is one
lemma per family of calls (`SentByTick`, `SentMove`, `SentByOwner`, `SentWithdraw`,
`SentCreate`, `FlagInOneStep`, `EditInOneStep`): the rows it writes are the rows the
method writes. The proof needed `at`, the cutoff an insert or a reactivation computed
before its batch, among the facts: the settings it is computed from are not asserted, so a
batch may land with the cutoff of an older version of the rule.

*Claims.* `RemovalInv` is `UninvitedStays` with what the operator's request saw: only it may
bring back a removed user, and it goes on only while the document is not there. `KeyInv`
is stated owner by owner (`OwnerFine`): what the owner's own request did and what the
ETags keep for it, claims included, which others may take over while it sleeps, but only
if they are pending and old.

Out of the prover's reach, and left to TLC: liveness (`StragglersGo`, `Terminates`,
`GroupCollapses`, `Ends`, `PrefetchEnds`) and anything about ENABLED; `FairShare` and
`DraftSound`, as the draft and the order of grants are folds and flattened sequences, which
only an induction over data could unfold. Only model-checked so far: `Tracked` and
`UpgradeImproves` of TenantWatch, `TokensOnce`, and all of ReleaseCalendar. `Tracked` is about one
fault and does not hold for every value of the constants; an `UpgradeImproves` for any number of
faults would have to say how many duplicates of an account may be live.

## 5. What is not modelled

- A POST that the server carries out after the engine gave it up and looked
  (fault `late` of BookingEngine). `NeverDoubleBooks` is checked without it: no
  client can do anything against it, and the code's remedy is the watcher's
  reconciliation. `TenantRunner` lets such a POST land at any time.
- A login whose answer is not JSON (fault `opaque`) is admitted in `book_drop`
  and not in `book_again`: after one, the re-guard reads the list of the login
  before, and the fallback may book a second slot.
- The TeeItUp adapter's three-step cart. To the engine it is a POST whose answer
  may be lost, a list that is live and a login that may be throttled, which
  BookingEngine and TenantWatch have.
- In the Cosmos store: cutoff settings (one guarded replace per row), snapshots,
  probes, the counter of soft login failures, listings; document shapes are
  conversions. A save of a profile or status writes back the whole user document
  as read before.
- The single-user watch over several courses and its notifications.
- Sessions, the OAuth exchange, pages, feedback, the audit trail and mail;
  configuration, encryption, OTP; seeding, administration and migration; the
  doubles of the tests and the infrastructure. They are I/O or conversions, without
  an order of steps that could go wrong in the sense above. That configuration,
  decryption and mail may fail is in `TenantRunner`.
- Ranking arithmetic, the search filters and the prediction of the grid: a request
  wants some tee times in some order.

## 6. What could come next

A form of `HandKept` for groups, once the code says whose a booking is that a collapse
flagged; `TokensOnce` and the calendar by theorems; and the TeeItUp cart as an adapter under
BookingEngine.

## Running

    tlc -workers 2 -config rows_all.cfg MCTenantRows
    tlapm TenantRowsProofs.tla
    tlapm BookingEngineProofs.tla

`PROJECT.json` names the module of every run; the longest takes about three
minutes on two cores.
