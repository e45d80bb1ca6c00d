--------------------------- MODULE BookingEngine ---------------------------
(***************************************************************************)
(* The booking engine (core/orchestrator.py): the runs of one account for  *)
(* one date, against courses whose servers answer late, twice or never.    *)
(*                                                                         *)
(* A run holds the request lock, pre-warms the login of its first course,  *)
(* and from T0 works through the courses in order of preference: log in,   *)
(* look for a reservation the account already has, then either fire a      *)
(* burst of blind POSTs and keep the best that books, or search and try    *)
(* the slots one by one.                                                   *)
(*                                                                         *)
(* A POST has two sides: what the server did with it (served) and what the *)
(* run heard of it (heard).  They part when an answer is lost.  The faults *)
(* a configuration admits are named by Faults, so a run of TLC says under  *)
(* which of them a property holds.                                         *)
(***************************************************************************)
EXTENDS Naturals, FiniteSets

CONSTANTS
    NCourses,      \* the number of courses, 1 the most preferred
    NSlots,        \* the number of matching slots per course, 1 ranked best
    Blind,         \* the courses that can be booked blind
    Cached,        \* the courses that list reservations as of the last login
    OnePerDay,     \* the courses that refuse an account's second reservation
    Runs,          \* the runs of the engine
    Race,          \* the runs that wait for the drop (prefetch_book)
    Dry,           \* the runs that may be for a dry-run request
    MaxBlind,      \* blind_post_max_count
    MaxPolls,      \* the polls that fit in max_poll_seconds
    Faults,        \* the faults that may occur
    Free, NoResult \* no run, no result

Courses == 1..NCourses
Slots == 1..NSlots

\* lost     an answer never arrives (a timeout or a 5xx)
\* late     a POST whose answer was given up may still be carried out
\* died     the task of a blind POST is cancelled
\* captcha  a POST is never sent, its token could not be solved
\* throttle the server answers 429
\* raise    a login, a listing or a search fails
\* soft     a login is refused without an error
\* opaque   a login succeeds with a body that is not JSON
\* cancel   a cancellation fails
\* notify   the notifier fails
\* crash    the process dies
AllFaults == {"lost", "late", "died", "captcha", "throttle", "raise", "soft",
              "opaque", "cancel", "notify", "crash"}

ASSUME EngineAssumption ==
    /\ NCourses \in Nat \ {0} /\ NSlots \in Nat /\ MaxBlind \in Nat /\ MaxPolls \in Nat
    /\ Blind \subseteq Courses /\ Cached \subseteq Courses /\ OnePerDay \subseteq Courses
    /\ Race \subseteq Runs /\ Dry \subseteq Runs /\ Faults \subseteq AllFaults
    /\ Free \notin Runs
    /\ NoResult \notin [outcome : {"booked", "already", "none", "dry"}, course : Nat, slot : Nat]

Posts == [run : Runs, how : {"blind", "seq"}, course : Courses, slot : Slots]

\* A reservation: made by a run, by hand, or by hand for another party size:
\* [course, slot, by], by \in {"run", "hand", "odd"}

Result(o, c, s) == [outcome |-> o, course |-> c, slot |-> s]

VARIABLES
    open,      \* open[c]: the slots the server would book, {} before the drop
    due,       \* the courses that have not dropped yet
    held,      \* the reservations the account holds on the servers
    served,    \* served[p]: what the server did with POST p
    heard,     \* heard[p]: what the run heard of POST p
    run,       \* run[r]: the progress of run r
    lock,      \* the run in the request lock, or Free
    terminal   \* the recorded terminal, or NoResult

vars == <<open, due, held, served, heard, run, lock, terminal>>
server == <<open, due, held>>
posts == <<served, heard>>
store == <<lock, terminal>>

Ats == {"idle", "prewarm", "enter", "burst", "settle", "reguard", "search", "book",
        "record", "done", "failed", "refused", "crashed"}
Ended == {"done", "failed", "refused", "crashed"}
Active == Ats \ (Ended \cup {"idle"})

\* The progress of a run: dry, it is for a dry-run request; warm, its first course
\* needs no login at T0; logged, the courses with a session; cache, the reservations
\* in the last login of a course; todo, the candidates left; extras, the booked
\* slots to cancel; polls, the searches of the course so far.
Idle == [at |-> "idle", dry |-> FALSE, k |-> 1, warm |-> FALSE, logged |-> {},
         cache |-> [c \in Courses |-> {}], todo |-> {}, extras |-> {},
         polls |-> 0, result |-> NoResult]

BInit ==
    /\ open = [c \in Courses |-> {}]
    /\ due = Courses
    /\ held = {}
    /\ served = [p \in Posts |-> "unsent"]
    /\ heard = [p \in Posts |-> "no"]
    /\ run = [r \in Runs |-> Idle]
    /\ lock = Free
    /\ terminal = NoResult

-----------------------------------------------------------------------------
(* The servers and the account's owner.                                    *)

Live(c) == {x \in held : x.course = c}
Best(S) == CHOOSE s \in S : \A t \in S : s <= t

\* The release of a course's sheet.
Drop(c) ==
    /\ c \in due
    /\ due' = due \ {c}
    /\ open' = [open EXCEPT ![c] = Slots]
    /\ UNCHANGED <<held, posts, run, store>>

\* Another golfer takes a slot.
Rival(c, s) ==
    /\ s \in open[c]
    /\ open' = [open EXCEPT ![c] = @ \ {s}]
    /\ UNCHANGED <<due, held, posts, run, store>>

\* The owner books by hand, for the same party or for another, once.
ByHand(c, s, by) ==
    /\ s \in open[c] /\ by \in {"hand", "odd"}
    /\ c \in OnePerDay => Live(c) = {}
    /\ \A x \in held : x.by = "run"
    /\ open' = [open EXCEPT ![c] = @ \ {s}]
    /\ held' = held \cup {[course |-> c, slot |-> s, by |-> by]}
    /\ UNCHANGED <<due, posts, run, store>>

\* The run of POST p waits for its answer.
Awaited(p) == heard[p] = "no" /\ run[p.run].at \in {"burst", "book"}

\* The server carries out a POST.  One nobody waits for any more is carried out
\* only where late POSTs are admitted.
Serve(p) ==
    /\ served[p] = "sent"
    /\ Awaited(p) \/ "late" \in Faults
    /\ \/ /\ p.slot \in open[p.course]
          /\ p.course \in OnePerDay => Live(p.course) = {}
          /\ served' = [served EXCEPT ![p] = "landed"]
          /\ open' = [open EXCEPT ![p.course] = @ \ {p.slot}]
          /\ held' = held \cup {[course |-> p.course, slot |-> p.slot, by |-> "run"]}
       \/ /\ \/ p.slot \notin open[p.course]
             \/ p.course \in OnePerDay /\ Live(p.course) # {}
          /\ served' = [served EXCEPT ![p] = "refused"]
          /\ UNCHANGED <<open, held>>
       \/ /\ "throttle" \in Faults
          /\ served' = [served EXCEPT ![p] = "throttled"]
          /\ UNCHANGED <<open, held>>
    /\ UNCHANGED <<due, heard, run, store>>

\* What the adapter makes of a server's answer.
Meaning == [landed |-> "booked", refused |-> "gone", throttled |-> "busy"]

\* A waiting run hears of its POST, or gives it up.
Hear(p) ==
    /\ served[p] # "unsent" /\ Awaited(p)
    /\ \/ /\ served[p] \in DOMAIN Meaning
          /\ heard' = [heard EXCEPT ![p] = Meaning[served[p]]]
       \/ /\ "lost" \in Faults
          /\ heard' = [heard EXCEPT ![p] = "lost"]
       \/ /\ "died" \in Faults /\ p.how = "blind"
          /\ heard' = [heard EXCEPT ![p] = "died"]
    /\ UNCHANGED <<server, served, run, store>>

-----------------------------------------------------------------------------
(* A run: the lock, the pre-warm and the logins.                           *)

Become(r, me) == run' = [run EXCEPT ![r] = me]
Record(me, res) == [me EXCEPT !.at = "record", !.result = res]

\* A run that is over leaves its result behind, its adapters are closed.
Over(me, at) == [Idle EXCEPT !.at = at, !.dry = me.dry, !.result = me.result]

\* The run ends without a terminal; the lock is released on the way out.
Fail(r) ==
    /\ Become(r, Over(run[r], "failed"))
    /\ lock' = Free
    /\ UNCHANGED terminal

\* Mutant: after the last preference the first comes again.
NextCourseForEver(me) ==
    [me EXCEPT !.at = "enter", !.k = IF @ = NCourses THEN 1 ELSE @ + 1, !.todo = {}, !.polls = 0]
\* The next preference, or a clean end without inventory.
NextCourse(me) ==
    IF me.k = NCourses
    THEN Record(me, Result("none", 0, 0))
    ELSE [me EXCEPT !.at = "enter", !.k = @ + 1, !.todo = {}, !.polls = 0]

\* Mutant: the lock is not checked.
LockIgnored == FALSE
LockTaken == lock # Free

\* The lock is tried once; a recorded terminal is replayed.  Whether it is a dry
\* run is read off the request.
Begin(r) ==
    /\ run[r].at = "idle"
    /\ \/ /\ LockTaken
          /\ Become(r, [run[r] EXCEPT !.at = "refused"])
          /\ UNCHANGED store
       \/ /\ ~LockTaken /\ terminal # NoResult
          /\ Become(r, [run[r] EXCEPT !.at = "done", !.result = terminal])
          /\ UNCHANGED store
       \/ /\ ~LockTaken /\ terminal = NoResult
          /\ \E dry \in {FALSE} \cup {x \in {TRUE} : r \in Dry} :
                Become(r, [run[r] EXCEPT !.at = IF r \in Race THEN "prewarm" ELSE "enter",
                                         !.dry = dry])
          /\ lock' = r
          /\ UNCHANGED terminal
    /\ UNCHANGED <<server, posts>>

\* What a login that returns may leave: nothing new where a cached course has a
\* session already; else a session and a fresh list of reservations, no session
\* and an empty list, or a session and the list of the login before.
Login(me, c) ==
    IF c \in Cached /\ c \in me.logged
    THEN {me}
    ELSE {[me EXCEPT !.logged = @ \cup {c}, !.cache[c] = Live(c)]}
         \cup {x \in {[me EXCEPT !.cache[c] = {}]} : c \in Cached /\ "soft" \in Faults}
         \cup {x \in {[me EXCEPT !.logged = @ \cup {c}]} : c \in Cached /\ "opaque" \in Faults}

\* The reservations of this party the course lists: those of the last login, or
\* those on the server.
Listed(me, c) ==
    {x \in IF c \in Cached THEN me.cache[c] ELSE Live(c) : x.by # "odd"}

Already(me, c) == Record(me, Result("already", c, 0))

\* Before T0: login and reservation guard of the first course.  A failed login
\* only means that the run logs in at T0, a failed listing not even that.
Prewarm(r) ==
    /\ run[r].at = "prewarm"
    /\ \/ \E me \in Login(run[r], 1) :
              LET warm == [me EXCEPT !.warm = 1 \in me.logged] IN
              Become(r, IF warm.warm /\ Listed(warm, 1) # {}
                        THEN Already(warm, 1)
                        ELSE [warm EXCEPT !.at = "enter"])
       \/ /\ "raise" \in Faults
          /\ \E me \in {run[r]} \cup {x \in Login([run[r] EXCEPT !.warm = TRUE], 1) : 1 \notin Cached} :
                Become(r, [me EXCEPT !.at = "enter"])
    /\ UNCHANGED <<server, posts, store>>

\* Only a race fires blind, at its first course, and never for a dry run.
ShouldBlind(r) ==
    r \in Race /\ ~run[r].dry /\ MaxBlind > 0 /\ 1 \in Blind /\ run[r].k = 1

BlindPost(r, s) == [run |-> r, how |-> "blind", course |-> 1, slot |-> s]

\* The burst: the n best slots, n the tokens in the pool.  A task without a
\* session or a token raises before it sends.
Fire(r, me) ==
    \E n \in 0..MaxBlind, unsent \in SUBSET Slots :
        LET fire == {BlindPost(r, s) : s \in {x \in Slots : x <= n}}
            void == {p \in fire : p.slot \in unsent} IN
        /\ IF 1 \in me.logged THEN unsent # {} => "captcha" \in Faults ELSE unsent = Slots
        /\ served' = [p \in Posts |-> IF p \in void THEN "void"
                                      ELSE IF p \in fire THEN "sent" ELSE served[p]]
        /\ heard' = [p \in Posts |-> IF p \in void THEN "lost" ELSE heard[p]]
        /\ Become(r, [me EXCEPT !.at = "burst"])

\* From T0 on, once per course: login unless pre-warmed, reservation guard, and
\* on to the burst or the search.
Enter(r) ==
    LET c == run[r].k IN
    /\ run[r].at = "enter"
    /\ \/ \E me \in IF c = 1 /\ run[r].warm THEN {run[r]} ELSE Login(run[r], c) :
              \/ /\ Listed(me, c) # {}
                 /\ Become(r, Already(me, c))
                 /\ UNCHANGED posts
              \/ /\ Listed(me, c) = {} /\ ShouldBlind(r)
                 /\ Fire(r, me)
              \/ /\ Listed(me, c) = {} /\ ~ShouldBlind(r)
                 /\ Become(r, [me EXCEPT !.at = "search"])
                 /\ UNCHANGED posts
          /\ UNCHANGED store
       \/ /\ "raise" \in Faults /\ Fail(r) /\ UNCHANGED posts
       \/ /\ "throttle" \in Faults /\ c \notin Cached
          /\ Become(r, NextCourse(run[r]))
          /\ UNCHANGED <<posts, store>>
    /\ UNCHANGED server

-----------------------------------------------------------------------------
(* The blind burst.                                                        *)

Burst(r) == {p \in Posts : p.run = r /\ p.how = "blind" /\ served[p] # "unsent"}
Answered(r, a) == {p.slot : p \in {q \in Burst(r) : heard[q] = a}}

\* What is cancelled when these slots booked.  Mutant: all but an arbitrary one.
SurplusByArrival(booked) == booked \ {CHOOSE s \in booked : \A t \in booked : t <= s}
Surplus(booked) == booked \ {Best(booked)}

\* A task died and nothing booked.  Mutant: the death is raised at once.
AbandonedAtOnce(r) == Answered(r, "died") # {}
Abandoned(r) == Answered(r, "died") # {} /\ Answered(r, "booked") = {}

\* All tasks have ended.  The best slot that booked is kept, whatever befell
\* its siblings; a task that died counts only when nothing booked.
Gather(r) ==
    LET booked == Answered(r, "booked") IN
    /\ run[r].at = "burst"
    /\ \A p \in Burst(r) : heard[p] # "no"
    /\ \/ /\ booked # {} /\ ~Abandoned(r)
          /\ Become(r, [run[r] EXCEPT !.at = "settle",
                                      !.result = Result("booked", 1, Best(booked)),
                                      !.extras = Surplus(booked)])
          /\ UNCHANGED store
       \/ /\ Abandoned(r)
          /\ Fail(r)
       \/ /\ booked = {} /\ ~Abandoned(r)
          /\ Become(r, [run[r] EXCEPT !.at = "reguard"])
          /\ UNCHANGED store
    /\ UNCHANGED <<server, posts>>

\* One surplus reservation is cancelled; that it fails is only logged.
CancelExtra(r, s) ==
    /\ run[r].at = "settle" /\ s \in run[r].extras
    /\ Become(r, [run[r] EXCEPT !.extras = @ \ {s}])
    /\ \/ /\ held' = held \ {[course |-> 1, slot |-> s, by |-> "run"]}
          /\ open' = [open EXCEPT ![1] = @ \cup {s}]
       \/ /\ "cancel" \in Faults
          /\ UNCHANGED <<open, held>>
    /\ UNCHANGED <<due, posts, store>>

Settled(r) ==
    /\ run[r].at = "settle" /\ run[r].extras = {}
    /\ Become(r, [run[r] EXCEPT !.at = "record"])
    /\ UNCHANGED <<server, posts, store>>

\* Mutant: an idempotent authenticate in place of refresh_reservations.
NotRefreshed(me, c) == me
\* refresh_reservations forgets the session, so that the login is carried out.
Refreshed(me, c) == [me EXCEPT !.logged = @ \ {c}]

\* Nothing booked: a forced login and a look for a POST that landed unheard.
\* A failure skips the course.
Reguard(r) ==
    LET c == run[r].k
        fresh == Refreshed(run[r], c) IN
    /\ run[r].at = "reguard"
    /\ \/ \E me \in Login(fresh, c) :
              Become(r, IF Listed(me, c) # {} THEN Already(me, c) ELSE [me EXCEPT !.at = "search"])
       \/ /\ {"raise", "throttle"} \cap Faults # {}
          /\ Become(r, NextCourse(fresh))
    /\ UNCHANGED <<server, posts, store>>

-----------------------------------------------------------------------------
(* The search and the sequential bookings.                                 *)

MayPoll(me) == me.polls < MaxPolls

Polled(me) == [me EXCEPT !.polls = @ + 1]

\* A poll: candidates, nothing yet, given up, throttled or failed.
Search(r) ==
    LET me == run[r]
        c == me.k IN
    /\ me.at = "search"
    /\ \/ /\ open[c] # {}
          /\ Become(r, IF run[r].dry THEN Record(me, Result("dry", c, Best(open[c])))
                                    ELSE [me EXCEPT !.at = "book", !.todo = open[c]])
          /\ UNCHANGED store
       \/ /\ open[c] = {} /\ MayPoll(me)
          /\ Become(r, Polled(me))
          /\ UNCHANGED store
       \/ /\ \/ open[c] = {} /\ (~MayPoll(me) \/ c \notin due)
             \/ "throttle" \in Faults
          /\ Become(r, NextCourse(me))
          /\ UNCHANGED store
       \/ /\ "raise" \in Faults /\ Fail(r)
    /\ UNCHANGED <<server, posts>>

\* The POST of the best candidate left.
SeqPost(r) == [run |-> r, how |-> "seq", course |-> run[r].k, slot |-> Best(run[r].todo)]

\* A course without a session, or a token that cannot be solved, ends the run.
Post(r) ==
    /\ run[r].at = "book" /\ served[SeqPost(r)] = "unsent"
    /\ \/ /\ run[r].k \in run[r].logged
          /\ served' = [served EXCEPT ![SeqPost(r)] = "sent"]
          /\ UNCHANGED <<run, store>>
       \/ /\ run[r].k \notin run[r].logged \/ "captcha" \in Faults
          /\ Fail(r) /\ UNCHANGED served
    /\ UNCHANGED <<server, heard>>

\* Booked ends the run, gone tries the next candidate, throttled the next
\* course; an unheard POST is an error that ends the run without a terminal.
Outcome(r) ==
    LET me == run[r]
        p == SeqPost(r)
        left == me.todo \ {p.slot} IN
    /\ me.at = "book"
    /\ \/ /\ heard[p] = "booked"
          /\ Become(r, Record(me, Result("booked", me.k, p.slot)))
          /\ UNCHANGED store
       \/ /\ heard[p] = "gone"
          /\ Become(r, IF left = {} THEN NextCourse(me) ELSE [me EXCEPT !.todo = left])
          /\ UNCHANGED store
       \/ /\ heard[p] = "busy"
          /\ Become(r, NextCourse(me))
          /\ UNCHANGED store
       \/ /\ heard[p] = "lost" /\ Fail(r)
    /\ UNCHANGED <<server, posts>>

\* The terminal is recorded before the notifier is called.
Finish(r) ==
    /\ run[r].at = "record"
    /\ terminal' = run[r].result
    /\ lock' = Free
    /\ \/ Become(r, Over(run[r], "done"))
       \/ "notify" \in Faults /\ Become(r, Over(run[r], "failed"))
    /\ UNCHANGED <<server, posts>>

\* The process dies with its runs and its in-memory store.
Crash ==
    /\ "crash" \in Faults
    /\ lock # Free \/ terminal # NoResult
    /\ run' = [r \in Runs |-> IF run[r].at \in Active THEN Over(run[r], "crashed") ELSE run[r]]
    /\ lock' = Free
    /\ terminal' = NoResult
    /\ UNCHANGED <<server, posts>>

-----------------------------------------------------------------------------
RunStep(r) ==
    \/ Prewarm(r) \/ Enter(r) \/ Gather(r) \/ Settled(r) \/ Reguard(r) \/ Search(r)
    \/ Post(r) \/ Outcome(r) \/ Finish(r)
    \/ \E s \in Slots : CancelExtra(r, s)

Environment ==
    \/ \E c \in Courses : Drop(c)
    \/ \E c \in Courses, s \in Slots : Rival(c, s)
    \/ \E c \in Courses, s \in Slots, by \in {"hand", "odd"} : ByHand(c, s, by)

BNext ==
    \/ Environment \/ Crash
    \/ \E p \in Posts : Serve(p) \/ Hear(p)
    \/ \E r \in Runs : Begin(r) \/ RunStep(r)

BSpec == BInit /\ [][BNext]_vars

\* The event loop goes on with a run that can go on, and every POST is answered
\* or given up, as the HTTP client has a timeout.
BFairSpec ==
    /\ BSpec
    /\ \A r \in Runs :
          /\ WF_vars(RunStep(r))
          /\ WF_vars(\E p \in Posts : p.run = r /\ (Serve(p) \/ Hear(p)))

-----------------------------------------------------------------------------
(* Properties.                                                             *)

\* A BOOKED result names a reservation the account holds, from the moment the
\* run decides for it: the surplus of a burst is cancelled, never the kept one.
KeptIsLive ==
    \A r \in Runs : run[r].result # NoResult /\ run[r].result.outcome = "booked" =>
        [course |-> run[r].result.course, slot |-> run[r].result.slot, by |-> "run"] \in held

\* A run that ends in this process and heard a server confirm a reservation
\* reports one, the best of those it heard of: neither a sibling's death nor a
\* failed cancellation of the surplus loses it.
NothingLost ==
    \A p \in Posts :
        heard[p] = "booked" /\ run[p.run].at \in {"record", "done", "failed"} =>
            LET res == run[p.run].result IN
            /\ res # NoResult /\ res.outcome = "booked"
            /\ res.course = p.course /\ res.slot <= p.slot

\* "The booker can never double-book itself" (orchestrator.py:14-16): where a
\* sequential POST got a reservation, no run of the booker holds another one.
NeverDoubleBooks ==
    \A p \in Posts :
        LET mine == [course |-> p.course, slot |-> p.slot, by |-> "run"] IN
        p.how = "seq" /\ served[p] = "landed" /\ mine \in held =>
            \A x \in held : x.by = "run" => x = mine

\* Every run ends: no lost answer, unpublished sheet or full candidate list
\* keeps one going, and with it the request lock.
Terminates == \A r \in Runs : run[r].at \in Active ~> run[r].at \in Ended
=============================================================================
