-------------------------- MODULE ReleaseCalendar --------------------------
(***************************************************************************)
(* When the booking job runs (core/release_policy.py, dst_gate.py,         *)
(* booking_day_gate.py, booking_cutoff.py and the gates of                 *)
(* __main__._run): two UTC crons per release event, one for each half of   *)
(* the year, a gate that lets one of them through each day, and the date   *)
(* it books.                                                               *)
(*                                                                         *)
(* Instants are minutes of UTC since day 0; a local wall time is minutes   *)
(* of the course's zone, which is West hours behind UTC, one less in       *)
(* summer time.                                                            *)
(***************************************************************************)
EXTENDS Naturals, FiniteSets, FiniteSetsExt

CONSTANTS
    Hours, Minutes, Leads, Advances,   \* the release policies considered
    West,      \* the zone's standard offset, hours west of UTC
    Spring,    \* the local day on which summer time begins, at 02:00
    Fall,      \* the local day on which it ends, at 02:00
    LastDay,   \* the days considered
    Wanted,    \* the weekdays to book
    Skips,     \* the dates to skip
    Cutoffs,   \* the cutoffs: [days |-> days before, at |-> minute of the day]
    Delays,    \* how late a job may start, in minutes
    Punctual   \* it starts within the hour of its cron

ASSUME CalendarAssumption ==
    /\ Hours \cup Minutes \cup Leads \cup Advances \cup Delays \subseteq Nat
    /\ West \in Nat \ {0} /\ Spring \in Nat /\ Fall \in Nat /\ Spring < Fall /\ LastDay \in Nat /\ Punctual \in BOOLEAN
    /\ Wanted \subseteq 0..6 /\ Skips \subseteq Nat
    /\ \A c \in Cutoffs : c.days \in Nat /\ c.at \in 0..1439

VARIABLES
    policy,   \* the course's release policy
    now,      \* the last instant at which a cron fired
    runs      \* the runs that passed the gates

vars == <<policy, now, runs>>

Day == 1440

-----------------------------------------------------------------------------
(* The zone.                                                               *)

Summer(t) == policy.dst /\ t >= Spring * Day + 120 + 60 * West /\ t < Fall * Day + 60 + 60 * West

\* The wall time of an instant, and the instant of a wall time (the first, if there are two).
Wall(t) == t - 60 * (IF Summer(t) THEN West - 1 ELSE West)
SummerWall(m) == policy.dst /\ m >= Spring * Day + 180 /\ m < Fall * Day + 120
Instant(m) == m + 60 * (IF SummerWall(m) THEN West - 1 ELSE West)
Today(t) == Wall(t) \div Day

-----------------------------------------------------------------------------
(* The policy and its crons.                                               *)

Release(p) == 60 * p.hour + p.minute

\* validate_release_policy: the job lands in the hour the gate looks for.
Valid(p) ==
    /\ p.hour \in 4..22 /\ p.lead <= Release(p)
    /\ (Release(p) - p.lead) \div 60 = p.hour - 1

FireAt(p) == Release(p) - p.lead

\* One cron per half of the year; a zone without summer time has one job.
Crons == {(FireAt(policy) + 60 * west) % Day : west \in {West, IF policy.dst THEN West - 1 ELSE West}}

-----------------------------------------------------------------------------
(* The gates.                                                              *)

\* Mutant: too early passes as well.
GateEarly(t) == (Wall(t) % Day) \div 60 <= policy.hour - 1

\* Mutant: the gate looks for the hour of the release.
GateLate(t) == (Wall(t) % Day) \div 60 = policy.hour

\* should_proceed, by the hour alone.
Gate(t) == (Wall(t) % Day) \div 60 = policy.hour - 1

Target(t) == Today(t) + policy.advance
CutoffAt(d) == Instant((d - policy.cutoff.days) * Day + policy.cutoff.at)
Frozen(d, t) == policy.cutoff.days <= d /\ t >= CutoffAt(d)

\* should_book_today
BooksToday(t) == Target(t) % 7 \in Wanted /\ Target(t) \notin Skips /\ ~Frozen(Target(t), t)

-----------------------------------------------------------------------------
\* The cutoff of a policy leaves the morning of its release open, as the shipped one does.
CInit ==
    /\ policy \in {p \in [hour : Hours, minute : Minutes, lead : Leads, advance : Advances,
                          dst : BOOLEAN, cutoff : Cutoffs] : Valid(p) /\ p.cutoff.days < p.advance}
    /\ now = Day /\ runs = {}

\* A cron fires and its job starts, a little late.
Fire ==
    /\ Today(now) < LastDay
    /\ now' = Min({t \in {d * Day + c : d \in {now \div Day, now \div Day + 1}, c \in Crons} : t > now})
    /\ \E late \in Delays :
        LET t == now' + late IN
        /\ Punctual => (FireAt(policy) % 60) + late < 60
        /\ runs' = IF Gate(t) /\ BooksToday(t)
                   THEN runs \cup {[start |-> t, target |-> Target(t)]}
                   ELSE runs
    /\ UNCHANGED policy

CNext == Fire
CSpec == CInit /\ [][CNext]_vars

-----------------------------------------------------------------------------
\* On every day, those of the clock changes included, one run at most tries a date: the
\* two crons never both pass (release_policy.py: two runners racing one event).
OnePerDrop == \A r, q \in runs : r.target = q.target => r = q

\* ... and one does, for every date to book: no valid policy, zone half or cutoff makes
\* a drop go by with both crons turned away.
NoMissedDrop ==
    \A today \in 2..(Today(now) - 1) :
        LET d == today + policy.advance IN
        d % 7 \in Wanted /\ d \notin Skips => \E r \in runs : r.target = d
=============================================================================
