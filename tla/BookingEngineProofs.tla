------------------------ MODULE BookingEngineProofs ------------------------
(* Theorems about the booking engine (BookingEngine) for every number of   *)
(* courses, slots and runs, every configuration of the courses and, unless *)
(* the theorem says otherwise, every fault.                                *)
EXTENDS BookingEngine, WellFoundedInduction, TLAPS

-----------------------------------------------------------------------------
(* The inductive invariant.                                                *)

Reservations == [course : Courses, slot : Slots, by : {"run", "hand", "odd"}]
Results == [outcome : {"booked", "already", "none", "dry"}, course : Nat, slot : Nat]

RunStates ==
    [at : Ats, dry : BOOLEAN, k : Courses, warm : BOOLEAN, logged : SUBSET Courses,
     cache : [Courses -> SUBSET Reservations], todo : SUBSET Slots, extras : SUBSET Slots,
     polls : Nat, result : {NoResult} \cup Results]

EngTypeOK ==
    /\ open \in [Courses -> SUBSET Slots]
    /\ due \subseteq Courses
    /\ held \subseteq Reservations
    /\ served \in [Posts -> {"unsent", "sent", "landed", "refused", "throttled", "void"}]
    /\ heard \in [Posts -> {"no", "booked", "gone", "busy", "lost", "died"}]
    /\ run \in [Runs -> RunStates]
    /\ lock \in Runs \cup {Free}
    /\ terminal \in {NoResult} \cup Results

\* The servers: an open slot is nobody's, a slot is held once, and nothing is
\* open or held at a course that has not dropped.
SheetOK ==
    /\ \A x \in held : x.slot \notin open[x.course]
    /\ \A x, y \in held : x.course = y.course /\ x.slot = y.slot => x = y
    /\ \A c \in due : open[c] = {} /\ \A x \in held : x.course # c

\* What a run heard of a POST is what became of it, or that the answer was lost.
HeardOK ==
    \A p \in Posts :
        /\ served[p] = "unsent" => heard[p] = "no"
        /\ heard[p] = "booked" => served[p] = "landed"
        /\ heard[p] = "gone" => served[p] = "refused"

Booked(res) == res # NoResult /\ res.outcome = "booked"
Reservation(p) == [course |-> p.course, slot |-> p.slot, by |-> "run"]

\* The reservations nobody cancels or will cancel: those of sequential POSTs, those
\* of a burst that is not settled yet, and the kept one of a burst.
Kept(p) == heard[p] = "booked" /\ run[p.run].result = Result("booked", p.course, p.slot)
Mine(p) ==
    /\ served[p] = "landed"
    /\ \/ p.how = "seq"
       \/ run[p.run].at = "burst"
       \/ run[p.run].at = "settle" /\ p.slot \in run[p.run].extras
       \/ Kept(p)

MineHeld == \A p \in Posts : Mine(p) => Reservation(p) \in held
MineOne ==
    \A p, q \in Posts :
        Mine(p) /\ Mine(q) /\ p.course = q.course /\ p.slot = q.slot => p = q

\* Where the progress of a run stands.
PlaceOK ==
    \A r \in Runs :
        /\ run[r].at \in {"idle", "prewarm", "burst", "settle", "reguard"} => run[r].k = 1
        /\ run[r].at \in (Active \cup {"idle"}) \ {"settle", "record"} => run[r].result = NoResult
        /\ run[r].at = "book" => run[r].todo # {}
        /\ run[r].at # "settle" => run[r].extras = {}

\* The POSTs a run cannot have sent yet; a blind POST is for the first course.
Early(r) == run[r].at \in {"idle", "prewarm"} \/ (run[r].at = "enter" /\ run[r].k = 1)
FreshOK ==
    \A p \in Posts :
        /\ Early(p.run) => served[p] = "unsent"
        /\ p.how = "seq" /\ run[p.run].at \in {"burst", "settle", "reguard"} => served[p] = "unsent"
        /\ p.how = "blind" /\ served[p] # "unsent" => p.course = 1

\* Outside a burst only the last sequential POST can be without an answer, and
\* only that one can have booked while the run still tries.
WaitOK ==
    \A p \in Posts :
        /\ heard[p] = "no" /\ served[p] # "unsent" =>
              /\ run[p.run].at \notin {"enter", "settle", "reguard", "search"}
              /\ run[p.run].at = "book" => p = SeqPost(p.run)
        /\ heard[p] = "booked" =>
              /\ run[p.run].at \notin {"enter", "reguard", "search"}
              /\ run[p.run].at = "book" => p = SeqPost(p.run)

\* NothingLost, from the moment a burst is settled.
ReportOK ==
    \A p \in Posts :
        heard[p] = "booked" /\ run[p.run].at \in {"settle", "record", "done", "failed"} =>
            LET res == run[p.run].result IN
            /\ Booked(res)
            /\ res.course = p.course /\ res.slot <= p.slot

\* The surplus of a burst is landed, and does not hold the kept slot.
SurplusOK ==
    \A r \in Runs : run[r].at = "settle" =>
        /\ Booked(run[r].result) /\ run[r].result.course = 1
        /\ run[r].result.slot \notin run[r].extras
        /\ \A s \in run[r].extras : served[BlindPost(r, s)] = "landed"

\* Behind every BOOKED result stands the POST whose reservation is kept.
Backed(res) == \E p \in Posts : Kept(p) /\ res = Result("booked", p.course, p.slot)
KeeperOK ==
    /\ \A r \in Runs : Booked(run[r].result) => Backed(run[r].result)
    /\ Booked(terminal) => Backed(terminal)

EngInv ==
    /\ EngTypeOK /\ SheetOK /\ HeardOK /\ MineHeld /\ MineOne /\ PlaceOK /\ FreshOK
    /\ WaitOK /\ ReportOK /\ SurplusOK /\ KeeperOK

-----------------------------------------------------------------------------
(* Lemmas about the operators.                                             *)

\* A set of numbers has a least one.
LEMMA HasLeast ==
    ASSUME NEW S \in SUBSET Nat, S # {}
    PROVE  \E s \in S : \A t \in S : s <= t
<1> DEFINE Less == OpToRel(<, Nat)
<1>1. \E x \in S : \A y \in S : <<y, x>> \notin Less  BY WFMin, NatLessThanWellFounded
<1>2. ASSUME NEW x \in S, NEW y \in S, <<y, x>> \notin Less PROVE x <= y
  <2>1. ~ (y < x)  BY <1>2 DEF OpToRel
  <2> QED  BY <2>1
<1> HIDE DEF Less
<1> QED  BY <1>1, <1>2

\* The best of some slots is one of them, and none of them is better.
LEMMA BestIsLeast ==
    ASSUME NEW S \in SUBSET Slots, S # {}
    PROVE  Best(S) \in S /\ \A t \in S : Best(S) <= t
<1>1. S \in SUBSET Nat  BY EngineAssumption DEF Slots
<1> QED  BY <1>1, HasLeast DEF Best

\* A result is a result, and none is not one.
LEMMA ResultTypes ==
    ASSUME NEW o \in {"booked", "already", "none", "dry"}, NEW c \in Nat, NEW s \in Nat
    PROVE  /\ Result(o, c, s) \in Results /\ Result(o, c, s) # NoResult
           /\ Result(o, c, s).outcome = o /\ Result(o, c, s).course = c /\ Result(o, c, s).slot = s
BY EngineAssumption DEF Result, Results

\* What a login leaves of the progress of a run, and which list it may see.
LEMMA LoginEffect ==
    ASSUME NEW me \in RunStates, NEW c \in Courses, held \subseteq Reservations, NEW m \in Login(me, c)
    PROVE  /\ m \in RunStates
           /\ m.at = me.at /\ m.dry = me.dry /\ m.k = me.k /\ m.warm = me.warm /\ m.todo = me.todo
           /\ m.extras = me.extras /\ m.polls = me.polls /\ m.result = me.result
           /\ \/ c \in Cached /\ c \in me.logged /\ m = me
              \/ c \in m.logged /\ m.cache[c] = Live(c)
              \/ c \in Cached /\ c \notin me.logged /\ m.logged = me.logged /\ m.cache[c] = {}
              \/ c \in Cached /\ "opaque" \in Faults /\ c \in m.logged
<1>1. Live(c) \in SUBSET Reservations  BY DEF Live
<1>2. CASE c \in Cached /\ c \in me.logged /\ m = me
  BY <1>2
<1>3. CASE m = [me EXCEPT !.logged = @ \cup {c}, !.cache[c] = Live(c)]
  BY <1>1, <1>3 DEF RunStates
<1>4. CASE m = [me EXCEPT !.cache[c] = {}] /\ c \in Cached /\ c \notin me.logged
  BY <1>4 DEF RunStates
<1>5. CASE m = [me EXCEPT !.logged = @ \cup {c}] /\ c \in Cached /\ "opaque" \in Faults
  BY <1>5 DEF RunStates
<1>6. \/ c \in Cached /\ c \in me.logged /\ m = me
      \/ m = [me EXCEPT !.logged = @ \cup {c}, !.cache[c] = Live(c)]
      \/ m = [me EXCEPT !.cache[c] = {}] /\ c \in Cached /\ c \notin me.logged
      \/ m = [me EXCEPT !.logged = @ \cup {c}] /\ c \in Cached /\ "opaque" \in Faults
  BY Zenon DEF Login
<1> QED  BY <1>2, <1>3, <1>4, <1>5, <1>6

\* A recorded progress.
LEMMA RecordEffect ==
    ASSUME NEW me \in RunStates, NEW res \in Results
    PROVE  /\ Record(me, res) \in RunStates
           /\ Record(me, res).at = "record" /\ Record(me, res).result = res
           /\ Record(me, res).extras = me.extras
BY DEF Record, RunStates, Ats

\* The next preference, or a clean end.
LEMMA NextCourseEffect ==
    ASSUME NEW me \in RunStates
    PROVE  \E n \in RunStates :
           /\ n = NextCourse(me) /\ n.extras = me.extras
           /\ \/ n.at = "record" /\ n.result = Result("none", 0, 0)
              \/ n.at = "enter" /\ n.k = me.k + 1 /\ n.k \in Courses /\ n.k > 1 /\ n.result = me.result
<1>1. Result("none", 0, 0) \in Results  BY ResultTypes
<1>2. CASE me.k = NCourses
  BY <1>1, <1>2, RecordEffect DEF NextCourse
<1>3. CASE me.k # NCourses
  <2>1. me.k \in Courses /\ me.k + 1 \in Courses /\ me.k + 1 > 1
    BY <1>3, EngineAssumption DEF RunStates, Courses
  <2>2. NextCourse(me) = [me EXCEPT !.at = "enter", !.k = me.k + 1, !.todo = {}, !.polls = 0]
    BY <1>3 DEF NextCourse
  <2> QED  BY <2>1, <2>2 DEF RunStates, Ats
<1> QED  BY <1>2, <1>3, Zenon

LEMMA NextCourseIs ==
    ASSUME NEW me \in RunStates, NEW n, n = NextCourse(me)
    PROVE  /\ n \in RunStates /\ n.extras = me.extras
           /\ \/ n.at = "record" /\ n.result \in Results /\ n.result.outcome # "booked"
              \/ n.at = "enter" /\ n.k = me.k + 1 /\ n.k > 1 /\ n.result = me.result
<1>1. Result("none", 0, 0) \in Results /\ Result("none", 0, 0).outcome = "none"  BY ResultTypes
<1>2. PICK m \in RunStates :
           /\ m = NextCourse(me) /\ m.extras = me.extras
           /\ \/ m.at = "record" /\ m.result = Result("none", 0, 0)
              \/ m.at = "enter" /\ m.k = me.k + 1 /\ m.k \in Courses /\ m.k > 1 /\ m.result = me.result
  BY NextCourseEffect
<1> QED  BY <1>1, <1>2

\* A run that is over keeps its result.
LEMMA OverEffect ==
    ASSUME NEW me \in RunStates, NEW at \in Ended
    PROVE  /\ Over(me, at) \in RunStates
           /\ Over(me, at).at = at /\ Over(me, at).result = me.result /\ Over(me, at).extras = {}
<1>1. 1 \in Courses  BY EngineAssumption DEF Courses
<1>2. Idle \in RunStates  BY <1>1 DEF Idle, RunStates, Ats
<1>3. at \in Ats  BY DEF Ended, Ats
<1> QED  BY <1>2, <1>3 DEF Over, Idle, RunStates

-----------------------------------------------------------------------------
(* What the steps of a run do.                                             *)

\* How run r goes on as n: with its result, or with one that is not a booking.
Stays(r, n) == n.result = run[r].result /\ n.extras = run[r].extras
Misses(r, n) ==
    /\ n.at = "record" /\ n.extras = run[r].extras
    /\ n.result \in Results /\ n.result.outcome # "booked"
GoesOn(r, n) == n.at = "enter" /\ n.k = run[r].k + 1 /\ n.k > 1 /\ Stays(r, n)

\* A step of run r that sends nothing, hears nothing and changes no server.
Tries(r, n) ==
    \/ /\ run[r].at = "prewarm"
       /\ \/ n.at = "enter" /\ n.k = run[r].k /\ Stays(r, n)
          \/ Misses(r, n)
    \/ /\ run[r].at \in {"enter", "reguard"}
       /\ \/ n.at = "search" /\ Stays(r, n)
          \/ Misses(r, n)
          \/ GoesOn(r, n)
    \/ /\ run[r].at = "search"
       /\ \/ n.at = "search" /\ Stays(r, n)
          \/ Misses(r, n)
          \/ GoesOn(r, n)
          \/ n.at = "book" /\ n.todo # {} /\ Stays(r, n)
    \/ /\ run[r].at = "book" /\ heard[SeqPost(r)] \in {"gone", "busy"}
       /\ \/ n.at = "book" /\ n.todo # {} /\ Stays(r, n) /\ heard[SeqPost(r)] = "gone"
          \/ Misses(r, n)
          \/ GoesOn(r, n)
    \/ /\ run[r].at = "book" /\ heard[SeqPost(r)] = "booked"
       /\ n.at = "record" /\ n.result = Result("booked", run[r].k, SeqPost(r).slot)
       /\ n.extras = run[r].extras
    \/ run[r].at = "settle" /\ n.at = "record" /\ n.extras = {} /\ n.result = run[r].result
Fails(r, n) ==
    /\ n.at = "failed" /\ n.extras = {} /\ n.result = run[r].result
    /\ \/ run[r].at \in {"enter", "search"}
       \/ run[r].at = "burst" /\ Answered(r, "booked") = {}
       \/ run[r].at = "book" /\ (served[SeqPost(r)] = "unsent" \/ heard[SeqPost(r)] = "lost")
Gathers(r, n) ==
    /\ run[r].at = "burst" /\ \A p \in Burst(r) : heard[p] # "no"
    /\ \/ /\ Answered(r, "booked") # {} /\ n.at = "settle" /\ n.k = run[r].k
          /\ n.result = Result("booked", 1, Best(Answered(r, "booked")))
          /\ n.extras = Surplus(Answered(r, "booked"))
       \/ Answered(r, "booked") = {} /\ n.at = "reguard" /\ n.k = run[r].k /\ Stays(r, n)
Begins(r, n) ==
    /\ run[r].at = "idle"
    /\ \/ n.at = "refused" /\ Stays(r, n)
       \/ n.at = "done" /\ n.result = terminal /\ n.extras = run[r].extras
       \/ n.at \in {"prewarm", "enter"} /\ n.k = run[r].k /\ Stays(r, n)
Finishes(r, n) ==
    /\ run[r].at = "record" /\ n.at \in {"done", "failed"}
    /\ n.result = run[r].result /\ n.extras = {}

Moves(r, n) ==
    /\ run' = [run EXCEPT ![r] = n]
    /\ UNCHANGED <<server, posts>>
    /\ \/ (Tries(r, n) \/ Gathers(r, n)) /\ UNCHANGED store
       \/ Fails(r, n) /\ lock' = Free /\ terminal' = terminal
       \/ /\ Begins(r, n) /\ terminal' = terminal
          /\ \/ n.at \in {"refused", "done"} /\ lock' = lock
             \/ n.at \in {"prewarm", "enter"} /\ lock = Free /\ lock' = r
       \/ Finishes(r, n) /\ lock' = Free /\ terminal' = run[r].result

LEMMA PrewarmMoves ==
    ASSUME EngTypeOK, PlaceOK, NEW r \in Runs, Prewarm(r)
    PROVE  \E n \in RunStates : Moves(r, n)
<1> DEFINE me == run[r]
<1>0. me.at = "prewarm"  BY Zenon DEF Prewarm
<1>1. me \in RunStates /\ 1 \in Courses /\ held \subseteq Reservations /\ me.k = 1
  BY <1>0, EngineAssumption DEF EngTypeOK, PlaceOK, Courses
<1>2. UNCHANGED <<server, posts, store>>  BY DEF Prewarm
<1>3. Result("already", 1, 0) \in Results /\ Result("already", 1, 0).outcome = "already"  BY ResultTypes
<1>4. \/ \E m \in Login(me, 1) :
            LET warm == [m EXCEPT !.warm = 1 \in m.logged] IN
            run' = [run EXCEPT ![r] = IF warm.warm /\ Listed(warm, 1) # {}
                                      THEN Already(warm, 1) ELSE [warm EXCEPT !.at = "enter"]]
      \/ \E m \in {me} \cup Login([me EXCEPT !.warm = TRUE], 1) :
            run' = [run EXCEPT ![r] = [m EXCEPT !.at = "enter"]]
  <2>1. \A x : x \in {y \in Login([me EXCEPT !.warm = TRUE], 1) : 1 \notin Cached} =>
              x \in Login([me EXCEPT !.warm = TRUE], 1)
    OBVIOUS
  <2> QED  BY <2>1, Zenon DEF Prewarm, Become
<1> HIDE DEF me
<1>5. ASSUME NEW m \in Login(me, 1), NEW n, run' = [run EXCEPT ![r] = n],
             \/ n = Already([m EXCEPT !.warm = 1 \in m.logged], 1)
             \/ n = [[m EXCEPT !.warm = 1 \in m.logged] EXCEPT !.at = "enter"]
      PROVE  \E x \in RunStates : Moves(r, x)
  <2> DEFINE warm == [m EXCEPT !.warm = 1 \in m.logged]
  <2>1. m \in RunStates /\ m.result = me.result /\ m.extras = me.extras /\ m.k = me.k
    BY <1>1, LoginEffect
  <2>2. warm \in RunStates /\ warm.result = me.result /\ warm.extras = me.extras /\ warm.k = me.k
    <3> DEFINE w == 1 \in m.logged
    <3>1. w \in BOOLEAN  OBVIOUS
    <3>2. warm = [m EXCEPT !.warm = w]  OBVIOUS
    <3> HIDE DEF w, warm
    <3> QED  BY <2>1, <3>1, <3>2 DEF RunStates
  <2>3. n = Already(warm, 1) \/ n = [warm EXCEPT !.at = "enter"]  BY <1>5
  <2> HIDE DEF warm
  <2>4. CASE n = Already(warm, 1)
    <3>1. n \in RunStates /\ Misses(r, n)
      BY <1>3, <2>2, <2>4, RecordEffect DEF Already, Misses, me
    <3> QED  BY <1>0, <1>1, <1>2, <1>5, <3>1 DEF Moves, Tries, me
  <2>5. CASE n = [warm EXCEPT !.at = "enter"]
    <3>1. n \in RunStates /\ n.at = "enter" /\ n.k = me.k
          /\ n.result = me.result /\ n.extras = me.extras
      BY <2>2, <2>5 DEF RunStates, Ats
    <3>2. Stays(r, n)  BY <3>1 DEF Stays, me
    <3> QED  BY <1>0, <1>1, <1>2, <1>5, <3>1, <3>2 DEF Moves, Tries, me
  <2> QED  BY <2>3, <2>4, <2>5
<1>6. ASSUME NEW m \in {me} \cup Login([me EXCEPT !.warm = TRUE], 1),
             run' = [run EXCEPT ![r] = [m EXCEPT !.at = "enter"]]
      PROVE  \E x \in RunStates : Moves(r, x)
  <2> DEFINE n == [m EXCEPT !.at = "enter"]
             on == [me EXCEPT !.warm = TRUE]
  <2>1. on \in RunStates /\ on.result = me.result /\ on.extras = me.extras /\ on.k = me.k
    BY <1>1 DEF RunStates
  <2>2. m = me \/ m \in Login(on, 1)  BY <1>6
  <2> HIDE DEF on
  <2>3. m \in RunStates /\ m.result = me.result /\ m.extras = me.extras /\ m.k = me.k
    BY <1>1, <2>1, <2>2, LoginEffect
  <2>4. n \in RunStates /\ n.at = "enter" /\ n.k = me.k /\ Stays(r, n)
    BY <2>3 DEF Stays, RunStates, Ats, me
  <2>5. run' = [run EXCEPT ![r] = n]  BY <1>6
  <2> HIDE DEF n
  <2> QED  BY <1>0, <1>1, <1>2, <2>4, <2>5 DEF Moves, Tries, me
<1>7. CASE \E m \in Login(me, 1) :
             LET warm == [m EXCEPT !.warm = 1 \in m.logged] IN
             run' = [run EXCEPT ![r] = IF warm.warm /\ Listed(warm, 1) # {}
                                       THEN Already(warm, 1) ELSE [warm EXCEPT !.at = "enter"]]
  BY <1>5, <1>7, Zenon
<1> QED  BY <1>4, <1>6, <1>7, Zenon

\* The parts of Enter that send nothing.
LEMMA EnterMoves ==
    ASSUME EngTypeOK, NEW r \in Runs, Enter(r)
    PROVE  \/ \E n \in RunStates : Moves(r, n)
           \/ \E me \in RunStates :
                 /\ run[r].at = "enter" /\ run[r].k = 1 /\ me.k = 1 /\ Stays(r, me)
                 /\ Fire(r, me) /\ UNCHANGED <<server, store>>
<1> DEFINE c == run[r].k
           From == IF c = 1 /\ run[r].warm THEN {run[r]} ELSE Login(run[r], c)
<1>1. run[r] \in RunStates /\ c \in Courses /\ held \subseteq Reservations /\ run[r].at = "enter"
  BY DEF EngTypeOK, Enter, RunStates
<1>2. UNCHANGED server  BY DEF Enter
<1>3. ASSUME NEW m \in From
      PROVE  m \in RunStates /\ m.k = c /\ m.result = run[r].result /\ m.extras = run[r].extras
  BY <1>1, <1>3, LoginEffect
<1>4. Result("already", c, 0) \in Results /\ Result("already", c, 0).outcome = "already"
  BY <1>1, ResultTypes DEF Courses
<1>5. \/ \E m \in From : run' = [run EXCEPT ![r] = Already(m, c)] /\ UNCHANGED <<posts, store>>
      \/ \E m \in From : ShouldBlind(r) /\ Fire(r, m) /\ UNCHANGED store
      \/ \E m \in From : run' = [run EXCEPT ![r] = [m EXCEPT !.at = "search"]] /\ UNCHANGED <<posts, store>>
      \/ Fail(r) /\ UNCHANGED posts
      \/ run' = [run EXCEPT ![r] = NextCourse(run[r])] /\ UNCHANGED <<posts, store>>
  BY Zenon DEF Enter, Become
<1> HIDE DEF From, c
<1>6. CASE \E m \in From : run' = [run EXCEPT ![r] = Already(m, c)] /\ UNCHANGED <<posts, store>>
  <2>1. PICK m \in From : run' = [run EXCEPT ![r] = Already(m, c)] /\ UNCHANGED <<posts, store>>  BY <1>6
  <2>2. Already(m, c) \in RunStates /\ Misses(r, Already(m, c))
    BY <1>3, <1>4, RecordEffect DEF Already, Misses
  <2> QED  BY <1>1, <1>2, <2>1, <2>2 DEF Moves, Tries, store
<1>7. CASE \E m \in From : ShouldBlind(r) /\ Fire(r, m) /\ UNCHANGED store
  BY <1>1, <1>2, <1>3, <1>7 DEF ShouldBlind, Stays, c
<1>8. CASE \E m \in From : run' = [run EXCEPT ![r] = [m EXCEPT !.at = "search"]] /\ UNCHANGED <<posts, store>>
  <2>1. PICK m \in From : run' = [run EXCEPT ![r] = [m EXCEPT !.at = "search"]] /\ UNCHANGED <<posts, store>>
    BY <1>8
  <2> DEFINE n == [m EXCEPT !.at = "search"]
  <2>2. n \in RunStates /\ n.at = "search" /\ Stays(r, n)
    BY <1>3 DEF Stays, RunStates, Ats
  <2>3. run' = [run EXCEPT ![r] = n]  BY <2>1
  <2> HIDE DEF n
  <2> QED  BY <1>1, <1>2, <2>1, <2>2, <2>3 DEF Moves, Tries, store
<1>9. CASE Fail(r) /\ UNCHANGED posts
  <2>1. Over(run[r], "failed") \in RunStates /\ Fails(r, Over(run[r], "failed"))
    BY <1>1, OverEffect DEF Fails, Ended
  <2> QED  BY <1>2, <1>9, <2>1 DEF Moves, Fail, Become
<1>10. CASE run' = [run EXCEPT ![r] = NextCourse(run[r])] /\ UNCHANGED <<posts, store>>
  <2>1. NextCourse(run[r]) \in RunStates
        /\ (Misses(r, NextCourse(run[r])) \/ GoesOn(r, NextCourse(run[r])))
    <3> DEFINE n == NextCourse(run[r])
    <3>1. /\ n \in RunStates /\ n.extras = run[r].extras
          /\ \/ n.at = "record" /\ n.result \in Results /\ n.result.outcome # "booked"
             \/ n.at = "enter" /\ n.k = run[r].k + 1 /\ n.k > 1 /\ n.result = run[r].result
      BY <1>1, NextCourseIs
    <3> QED  BY <3>1 DEF Misses, GoesOn, Stays
  <2> QED  BY <1>1, <1>2, <1>10, <2>1 DEF Moves, Tries, store
<1> QED  BY <1>5, <1>6, <1>7, <1>8, <1>9, <1>10

LEMMA GatherMoves ==
    ASSUME EngTypeOK, NEW r \in Runs, Gather(r)
    PROVE  \E n \in RunStates : Moves(r, n)
<1> DEFINE booked == Answered(r, "booked")
           me == run[r]
<1>1. me \in RunStates  BY DEF EngTypeOK
<1>2. /\ me.at = "burst" /\ \A p \in Burst(r) : heard[p] # "no"
      /\ UNCHANGED <<server, posts>>
  BY Zenon DEF Gather
<1>3. booked \in SUBSET Slots  BY DEF Answered, Burst, Posts
<1>4. \/ /\ booked # {} /\ UNCHANGED store
         /\ run' = [run EXCEPT ![r] = [me EXCEPT !.at = "settle", !.result = Result("booked", 1, Best(booked)),
                                                 !.extras = Surplus(booked)]]
      \/ booked = {} /\ Fail(r)
      \/ booked = {} /\ UNCHANGED store /\ run' = [run EXCEPT ![r] = [me EXCEPT !.at = "reguard"]]
  BY Zenon DEF Gather, Become, Abandoned
<1>5. CASE /\ booked # {} /\ UNCHANGED store
           /\ run' = [run EXCEPT ![r] = [me EXCEPT !.at = "settle", !.result = Result("booked", 1, Best(booked)),
                                                   !.extras = Surplus(booked)]]
  <2> DEFINE res == Result("booked", 1, Best(booked))
             left == Surplus(booked)
             n == [me EXCEPT !.at = "settle", !.result = res, !.extras = left]
  <2>1. Best(booked) \in booked /\ Best(booked) \in Nat  BY <1>3, <1>5, BestIsLeast, EngineAssumption DEF Slots
  <2>2. res \in Results  BY <2>1, ResultTypes
  <2>3. left \in SUBSET Slots  BY <1>3 DEF Surplus
  <2>4. run' = [run EXCEPT ![r] = n]  BY <1>5
  <2> HIDE DEF res, left, me, booked
  <2>5. n \in RunStates /\ n.at = "settle" /\ n.k = me.k /\ n.result = res /\ n.extras = left
    BY <1>1, <2>2, <2>3 DEF RunStates, Ats
  <2> HIDE DEF n
  <2>6. Gathers(r, n)  BY <1>2, <1>5, <2>5 DEF Gathers, res, left, me, booked
  <2> QED  BY <1>2, <1>5, <2>4, <2>5, <2>6 DEF Moves, store
<1>6. CASE booked = {} /\ Fail(r)
  <2>1. Over(me, "failed") \in RunStates /\ Fails(r, Over(me, "failed"))
    BY <1>1, <1>2, <1>6, OverEffect DEF Fails, Ended
  <2> QED  BY <1>2, <1>6, <2>1 DEF Moves, Fail, Become
<1>7. CASE booked = {} /\ UNCHANGED store /\ run' = [run EXCEPT ![r] = [me EXCEPT !.at = "reguard"]]
  <2> DEFINE n == [me EXCEPT !.at = "reguard"]
  <2>1. run' = [run EXCEPT ![r] = n]  BY <1>7
  <2> HIDE DEF me, booked
  <2>2. n \in RunStates /\ n.at = "reguard" /\ n.k = me.k /\ n.result = me.result /\ n.extras = me.extras
    BY <1>1 DEF RunStates, Ats
  <2> HIDE DEF n
  <2>3. Gathers(r, n)  BY <1>2, <1>7, <2>2 DEF Gathers, Stays, me, booked
  <2> QED  BY <1>2, <1>7, <2>1, <2>2, <2>3 DEF Moves, store
<1> QED  BY <1>4, <1>5, <1>6, <1>7

LEMMA SettledMoves ==
    ASSUME EngTypeOK, NEW r \in Runs, Settled(r)
    PROVE  \E n \in RunStates : Moves(r, n)
<1> DEFINE me == run[r]
           n == [me EXCEPT !.at = "record"]
<1>1. me \in RunStates  BY DEF EngTypeOK
<1>2. /\ me.at = "settle" /\ me.extras = {} /\ run' = [run EXCEPT ![r] = n]
      /\ UNCHANGED <<server, posts, store>>
  BY DEF Settled, Become
<1> HIDE DEF me
<1>3. n \in RunStates /\ n.at = "record" /\ n.extras = {} /\ n.result = me.result
  BY <1>1, <1>2 DEF RunStates, Ats
<1> HIDE DEF n
<1> QED  BY <1>2, <1>3 DEF Moves, Tries, me

LEMMA ReguardMoves ==
    ASSUME EngTypeOK, NEW r \in Runs, Reguard(r)
    PROVE  \E n \in RunStates : Moves(r, n)
<1> DEFINE me == run[r]
           c == me.k
           fresh == [me EXCEPT !.logged = @ \ {c}]
<1>1. me \in RunStates /\ c \in Courses /\ held \subseteq Reservations
  BY DEF EngTypeOK, RunStates
<1>2. me.at = "reguard" /\ UNCHANGED <<server, posts, store>>  BY Zenon DEF Reguard
<1>3. \/ \E m \in Login(fresh, c) : run' = [run EXCEPT ![r] = Already(m, c)]
      \/ \E m \in Login(fresh, c) : run' = [run EXCEPT ![r] = [m EXCEPT !.at = "search"]]
      \/ run' = [run EXCEPT ![r] = NextCourse(fresh)]
  BY Zenon DEF Reguard, Become, Refreshed
<1>4. Result("already", c, 0) \in Results /\ Result("already", c, 0).outcome = "already"
  BY <1>1, ResultTypes DEF Courses
<1>5. fresh \in RunStates /\ fresh.result = me.result /\ fresh.extras = me.extras /\ fresh.k = me.k
  <2> HIDE DEF me, c
  <2> QED  BY <1>1 DEF RunStates
<1> HIDE DEF me, c, fresh
<1>6. \A m \in Login(fresh, c) : m \in RunStates /\ m.result = me.result /\ m.extras = me.extras
  BY <1>1, <1>5, LoginEffect
<1>7. CASE \E m \in Login(fresh, c) : run' = [run EXCEPT ![r] = Already(m, c)]
  <2>1. PICK m \in Login(fresh, c) : run' = [run EXCEPT ![r] = Already(m, c)]  BY <1>7
  <2>2. Already(m, c) \in RunStates /\ Misses(r, Already(m, c))
    BY <1>4, <1>6, RecordEffect DEF Already, Misses, me
  <2> QED  BY <1>2, <2>1, <2>2 DEF Moves, Tries, me
<1>8. CASE \E m \in Login(fresh, c) : run' = [run EXCEPT ![r] = [m EXCEPT !.at = "search"]]
  <2>1. PICK m \in Login(fresh, c) : run' = [run EXCEPT ![r] = [m EXCEPT !.at = "search"]]  BY <1>8
  <2> DEFINE n == [m EXCEPT !.at = "search"]
  <2>2. n \in RunStates /\ n.at = "search" /\ n.result = me.result /\ n.extras = me.extras
    BY <1>6 DEF RunStates, Ats
  <2>3. run' = [run EXCEPT ![r] = n]  BY <2>1
  <2> HIDE DEF n
  <2> QED  BY <1>2, <2>2, <2>3 DEF Moves, Tries, Stays, me
<1>9. CASE run' = [run EXCEPT ![r] = NextCourse(fresh)]
  <2>1. NextCourse(fresh) \in RunStates
        /\ (Misses(r, NextCourse(fresh)) \/ GoesOn(r, NextCourse(fresh)))
    <3> DEFINE n == NextCourse(fresh)
    <3>1. /\ n \in RunStates /\ n.extras = run[r].extras
          /\ \/ n.at = "record" /\ n.result \in Results /\ n.result.outcome # "booked"
             \/ n.at = "enter" /\ n.k = run[r].k + 1 /\ n.k > 1 /\ n.result = run[r].result
      BY <1>5, NextCourseIs DEF me
    <3> QED  BY <3>1 DEF Misses, GoesOn, Stays
  <2> QED  BY <1>2, <1>9, <2>1 DEF Moves, Tries, me
<1> QED  BY <1>3, <1>7, <1>8, <1>9

LEMMA SearchMoves ==
    ASSUME EngTypeOK, NEW r \in Runs, Search(r)
    PROVE  \E n \in RunStates : Moves(r, n)
<1> DEFINE me == run[r]
           c == me.k
<1>1. me \in RunStates /\ c \in Courses /\ open[c] \in SUBSET Slots
  BY DEF EngTypeOK, RunStates
<1>2. me.at = "search" /\ UNCHANGED <<server, posts>>  BY Zenon DEF Search
<1>3. \/ /\ open[c] # {} /\ UNCHANGED store
         /\ \/ run' = [run EXCEPT ![r] = Record(me, Result("dry", c, Best(open[c])))]
            \/ run' = [run EXCEPT ![r] = [me EXCEPT !.at = "book", !.todo = open[c]]]
      \/ UNCHANGED store /\ run' = [run EXCEPT ![r] = Polled(me)]
      \/ UNCHANGED store /\ run' = [run EXCEPT ![r] = NextCourse(me)]
      \/ Fail(r)
  BY Zenon DEF Search, Become
<1> HIDE DEF me, c
<1>4. CASE open[c] # {} /\ UNCHANGED store
           /\ run' = [run EXCEPT ![r] = Record(me, Result("dry", c, Best(open[c])))]
  <2>1. Best(open[c]) \in Nat /\ c \in Nat
    BY <1>1, <1>4, BestIsLeast, EngineAssumption DEF Slots, Courses
  <2> DEFINE res == Result("dry", c, Best(open[c]))
  <2>2. res \in Results /\ res.outcome = "dry"  BY <2>1, ResultTypes
  <2>3. run' = [run EXCEPT ![r] = Record(me, res)]  BY <1>4
  <2> HIDE DEF res
  <2>4. Record(me, res) \in RunStates /\ Misses(r, Record(me, res))
    BY <1>1, <2>2, RecordEffect DEF Misses, me
  <2> QED  BY <1>2, <1>4, <2>3, <2>4 DEF Moves, Tries, store, me
<1>5. CASE open[c] # {} /\ UNCHANGED store
           /\ run' = [run EXCEPT ![r] = [me EXCEPT !.at = "book", !.todo = open[c]]]
  <2> DEFINE slots == open[c]
             n == [me EXCEPT !.at = "book", !.todo = slots]
  <2>1. slots \in SUBSET Slots /\ slots # {}  BY <1>1, <1>5
  <2>2. run' = [run EXCEPT ![r] = n]  BY <1>5
  <2> HIDE DEF slots
  <2>3. n \in RunStates /\ n.at = "book" /\ n.todo # {} /\ n.result = me.result /\ n.extras = me.extras
    BY <1>1, <2>1 DEF RunStates, Ats
  <2> HIDE DEF n
  <2> QED  BY <1>2, <1>5, <2>2, <2>3 DEF Moves, Tries, Stays, store, me
<1>6. CASE UNCHANGED store /\ run' = [run EXCEPT ![r] = Polled(me)]
  <2> DEFINE n == [me EXCEPT !.polls = @ + 1]
  <2>1. run' = [run EXCEPT ![r] = n]  BY <1>6 DEF Polled
  <2>2. n \in RunStates /\ n.at = "search" /\ n.result = me.result /\ n.extras = me.extras
    BY <1>1, <1>2 DEF RunStates, me
  <2> HIDE DEF n
  <2> QED  BY <1>2, <1>6, <2>1, <2>2 DEF Moves, Tries, Stays, store, me
<1>7. CASE UNCHANGED store /\ run' = [run EXCEPT ![r] = NextCourse(me)]
  <2>1. NextCourse(me) \in RunStates /\ (Misses(r, NextCourse(me)) \/ GoesOn(r, NextCourse(me)))
    <3> DEFINE n == NextCourse(me)
    <3>1. /\ n \in RunStates /\ n.extras = run[r].extras
          /\ \/ n.at = "record" /\ n.result \in Results /\ n.result.outcome # "booked"
             \/ n.at = "enter" /\ n.k = run[r].k + 1 /\ n.k > 1 /\ n.result = run[r].result
      BY <1>1, NextCourseIs DEF me
    <3> QED  BY <3>1 DEF Misses, GoesOn, Stays
  <2> QED  BY <1>2, <1>7, <2>1 DEF Moves, Tries, store, me
<1>8. CASE Fail(r)
  <2>1. Over(me, "failed") \in RunStates /\ Fails(r, Over(me, "failed"))
    BY <1>1, <1>2, OverEffect DEF Fails, Ended, me
  <2> QED  BY <1>2, <1>8, <2>1 DEF Moves, Fail, Become, me
<1> QED  BY <1>3, <1>4, <1>5, <1>6, <1>7, <1>8

\* The slot of the next sequential POST is a slot.
LEMMA SeqPostType ==
    ASSUME EngTypeOK, PlaceOK, NEW r \in Runs, run[r].at = "book"
    PROVE  /\ SeqPost(r) \in Posts /\ SeqPost(r).run = r /\ SeqPost(r).how = "seq"
           /\ SeqPost(r).course = run[r].k /\ SeqPost(r).slot \in run[r].todo
           /\ run[r].k \in Nat /\ SeqPost(r).slot \in Nat
<1>1. run[r] \in RunStates /\ run[r].todo # {}  BY DEF EngTypeOK, PlaceOK
<1>2. run[r].todo \in SUBSET Slots /\ run[r].k \in Courses  BY <1>1 DEF RunStates
<1>3. Best(run[r].todo) \in run[r].todo  BY <1>1, <1>2, BestIsLeast
<1>4. run[r].k \in Nat /\ Best(run[r].todo) \in Nat
  BY <1>2, <1>3, EngineAssumption DEF Courses, Slots
<1> QED  BY <1>2, <1>3, <1>4 DEF SeqPost, Posts

\* A POST of the loop is sent, or the run fails before it is.
LEMMA PostMoves ==
    ASSUME EngTypeOK, NEW r \in Runs, Post(r)
    PROVE  \/ \E n \in RunStates : Moves(r, n)
           \/ /\ run[r].at = "book" /\ served[SeqPost(r)] = "unsent" /\ run[r].k \in run[r].logged
              /\ served' = [served EXCEPT ![SeqPost(r)] = "sent"]
              /\ UNCHANGED <<server, heard, run, store>>
<1>1. run[r] \in RunStates  BY DEF EngTypeOK
<1>2. run[r].at = "book" /\ served[SeqPost(r)] = "unsent" /\ UNCHANGED <<server, heard>>  BY DEF Post
<1>3. CASE Fail(r) /\ UNCHANGED served
  <2>1. Over(run[r], "failed") \in RunStates /\ Fails(r, Over(run[r], "failed"))
    BY <1>1, <1>2, OverEffect DEF Fails, Ended
  <2> QED  BY <1>2, <1>3, <2>1 DEF Moves, Fail, Become, posts
<1> QED  BY <1>2, <1>3 DEF Post

LEMMA OutcomeMoves ==
    ASSUME EngTypeOK, PlaceOK, NEW r \in Runs, Outcome(r)
    PROVE  \E n \in RunStates : Moves(r, n)
<1> DEFINE me == run[r]
           p == SeqPost(r)
           left == me.todo \ {p.slot}
<1>1. me \in RunStates /\ me.at = "book" /\ UNCHANGED <<server, posts>>
  BY DEF EngTypeOK, Outcome
<1>2. me.k \in Nat /\ p.slot \in Nat  BY <1>1, SeqPostType
<1>3. left \in SUBSET Slots  BY <1>1 DEF RunStates
<1>4. \/ /\ heard[p] = "booked" /\ UNCHANGED store
         /\ run' = [run EXCEPT ![r] = Record(me, Result("booked", me.k, p.slot))]
      \/ /\ heard[p] = "gone" /\ left # {} /\ UNCHANGED store
         /\ run' = [run EXCEPT ![r] = [me EXCEPT !.todo = left]]
      \/ /\ heard[p] \in {"gone", "busy"} /\ UNCHANGED store
         /\ run' = [run EXCEPT ![r] = NextCourse(me)]
      \/ heard[p] = "lost" /\ Fail(r)
  BY Zenon DEF Outcome, Become
<1> HIDE DEF me, p, left
<1>5. CASE /\ heard[p] = "booked" /\ UNCHANGED store
           /\ run' = [run EXCEPT ![r] = Record(me, Result("booked", me.k, p.slot))]
  <2> DEFINE res == Result("booked", me.k, p.slot)
  <2>1. res \in Results  BY <1>2, ResultTypes
  <2>2. run' = [run EXCEPT ![r] = Record(me, res)]  BY <1>5
  <2> HIDE DEF res
  <2>3. /\ Record(me, res) \in RunStates /\ Record(me, res).at = "record"
        /\ Record(me, res).result = res /\ Record(me, res).extras = me.extras
    BY <1>1, <2>1, RecordEffect
  <2> QED  BY <1>1, <1>5, <2>2, <2>3 DEF Moves, Tries, store, me, p, res
<1>6. CASE /\ heard[p] = "gone" /\ left # {} /\ UNCHANGED store
           /\ run' = [run EXCEPT ![r] = [me EXCEPT !.todo = left]]
  <2> DEFINE n == [me EXCEPT !.todo = left]
  <2>1. n \in RunStates /\ n.at = "book" /\ n.todo # {} /\ n.result = me.result /\ n.extras = me.extras
    BY <1>1, <1>3, <1>6 DEF RunStates
  <2>2. run' = [run EXCEPT ![r] = n]  BY <1>6
  <2> HIDE DEF n
  <2> QED  BY <1>1, <1>6, <2>1, <2>2 DEF Moves, Tries, Stays, store, me, p
<1>7. CASE heard[p] \in {"gone", "busy"} /\ UNCHANGED store
           /\ run' = [run EXCEPT ![r] = NextCourse(me)]
  <2>1. NextCourse(me) \in RunStates /\ (Misses(r, NextCourse(me)) \/ GoesOn(r, NextCourse(me)))
    <3> DEFINE n == NextCourse(me)
    <3>1. /\ n \in RunStates /\ n.extras = run[r].extras
          /\ \/ n.at = "record" /\ n.result \in Results /\ n.result.outcome # "booked"
             \/ n.at = "enter" /\ n.k = run[r].k + 1 /\ n.k > 1 /\ n.result = run[r].result
      BY <1>1, NextCourseIs DEF me
    <3> QED  BY <3>1 DEF Misses, GoesOn, Stays
  <2> QED  BY <1>1, <1>7, <2>1 DEF Moves, Tries, store, me, p
<1>8. CASE heard[p] = "lost" /\ Fail(r)
  <2>1. Over(me, "failed") \in RunStates /\ Fails(r, Over(me, "failed"))
    BY <1>1, <1>8, OverEffect DEF Fails, Ended, me, p
  <2> QED  BY <1>1, <1>8, <2>1 DEF Moves, Fail, Become, me
<1> QED  BY <1>4, <1>5, <1>6, <1>7, <1>8

LEMMA FinishMoves ==
    ASSUME EngTypeOK, NEW r \in Runs, Finish(r)
    PROVE  \E n \in RunStates : Moves(r, n)
<1>1. run[r] \in RunStates  BY DEF EngTypeOK
<1>2. /\ run[r].at = "record" /\ terminal' = run[r].result /\ lock' = Free /\ UNCHANGED <<server, posts>>
      /\ \E at \in {"done", "failed"} : run' = [run EXCEPT ![r] = Over(run[r], at)]
  BY Zenon DEF Finish, Become
<1>3. PICK at \in {"done", "failed"} : run' = [run EXCEPT ![r] = Over(run[r], at)]  BY <1>2
<1>4. Over(run[r], at) \in RunStates /\ Finishes(r, Over(run[r], at))
  BY <1>1, <1>2, OverEffect DEF Finishes, Ended
<1> QED  BY <1>2, <1>3, <1>4 DEF Moves

LEMMA BeginMoves ==
    ASSUME EngTypeOK, NEW r \in Runs, Begin(r)
    PROVE  \E n \in RunStates : Moves(r, n)
<1> DEFINE me == run[r]
<1>1. me \in RunStates /\ terminal \in {NoResult} \cup Results /\ me.at = "idle"
  BY Zenon DEF EngTypeOK, Begin
<1>2. UNCHANGED <<server, posts, terminal>>  BY Zenon DEF Begin, store
<1>3. \/ run' = [run EXCEPT ![r] = [me EXCEPT !.at = "refused"]] /\ lock' = lock
      \/ run' = [run EXCEPT ![r] = [me EXCEPT !.at = "done", !.result = terminal]] /\ lock' = lock
      \/ /\ lock = Free /\ lock' = r
         /\ \E dry \in BOOLEAN, at \in {"prewarm", "enter"} :
               run' = [run EXCEPT ![r] = [me EXCEPT !.at = at, !.dry = dry]]
  <2>1. \A x : x \in {FALSE} \cup {y \in {TRUE} : r \in Dry} => x \in BOOLEAN  OBVIOUS
  <2> QED  BY <2>1, Zenon DEF Begin, Become, LockTaken, store
<1>4. me \in RunStates /\ me.at = "idle"  BY <1>1
<1>5. CASE run' = [run EXCEPT ![r] = [me EXCEPT !.at = "refused"]] /\ lock' = lock
  <2> DEFINE n == [me EXCEPT !.at = "refused"]
  <2>1. run' = [run EXCEPT ![r] = n]  BY <1>5
  <2> HIDE DEF me
  <2>2. n \in RunStates /\ n.at = "refused" /\ n.result = me.result /\ n.extras = me.extras
    BY <1>4 DEF RunStates, Ats
  <2> HIDE DEF n
  <2> QED  BY <1>2, <1>5, <1>4, <2>1, <2>2 DEF Moves, Begins, Stays, me
<1>6. CASE run' = [run EXCEPT ![r] = [me EXCEPT !.at = "done", !.result = terminal]] /\ lock' = lock
  <2> DEFINE n == [me EXCEPT !.at = "done", !.result = terminal]
  <2>1. run' = [run EXCEPT ![r] = n]  BY <1>6
  <2> HIDE DEF me
  <2>2. n \in RunStates /\ n.at = "done" /\ n.result = terminal /\ n.extras = me.extras
    BY <1>1, <1>4 DEF RunStates, Ats
  <2> HIDE DEF n
  <2> QED  BY <1>2, <1>6, <1>4, <2>1, <2>2 DEF Moves, Begins, Stays, me
<1>7. CASE /\ lock = Free /\ lock' = r
           /\ \E dry \in BOOLEAN, at \in {"prewarm", "enter"} :
                 run' = [run EXCEPT ![r] = [me EXCEPT !.at = at, !.dry = dry]]
  <2>1. PICK dry \in BOOLEAN, at \in {"prewarm", "enter"} :
              run' = [run EXCEPT ![r] = [me EXCEPT !.at = at, !.dry = dry]]
    BY <1>7
  <2> DEFINE n == [me EXCEPT !.at = at, !.dry = dry]
  <2>2. run' = [run EXCEPT ![r] = n]  BY <2>1
  <2> HIDE DEF me
  <2>3. n \in RunStates /\ n.at = at /\ n.k = me.k /\ n.result = me.result /\ n.extras = me.extras
    BY <1>4 DEF RunStates, Ats
  <2> HIDE DEF n
  <2> QED  BY <1>2, <1>7, <1>4, <2>2, <2>3 DEF Moves, Begins, Stays, me
<1> QED  BY <1>3, <1>5, <1>6, <1>7

\* One surplus reservation is cancelled, or its cancellation fails.
Cancels(r, s, n) ==
    /\ run[r].at = "settle" /\ s \in run[r].extras
    /\ run' = [run EXCEPT ![r] = n]
    /\ n.at = "settle" /\ n.k = run[r].k /\ n.result = run[r].result
    /\ n.extras = run[r].extras \ {s}
    /\ \/ /\ held' = held \ {[course |-> 1, slot |-> s, by |-> "run"]}
          /\ open' = [open EXCEPT ![1] = @ \cup {s}]
       \/ UNCHANGED <<open, held>>
    /\ UNCHANGED <<due, posts, store>>

LEMMA CancelExtraMoves ==
    ASSUME EngTypeOK, NEW r \in Runs, NEW s \in Slots, CancelExtra(r, s)
    PROVE  \E n \in RunStates : Cancels(r, s, n)
<1> DEFINE me == run[r]
           left == me.extras \ {s}
           n == [me EXCEPT !.extras = left]
<1>1. me \in RunStates  BY DEF EngTypeOK
<1>2. run' = [run EXCEPT ![r] = n]  BY DEF CancelExtra, Become
<1>3. left \in SUBSET Slots  BY <1>1 DEF RunStates
<1> HIDE DEF me, left
<1>4. n \in RunStates /\ n.at = me.at /\ n.k = me.k /\ n.result = me.result /\ n.extras = left
  BY <1>1, <1>3 DEF RunStates
<1> HIDE DEF n
<1> QED  BY <1>2, <1>4 DEF CancelExtra, Cancels, me, left

\* The POSTs of a burst: a task without a session or a token raises before it sends.
Fires(r, n) ==
    /\ run[r].at = "enter" /\ run[r].k = 1
    /\ run' = [run EXCEPT ![r] = n]
    /\ n.at = "burst" /\ n.k = 1 /\ Stays(r, n)
    /\ served' \in [Posts -> {served[p] : p \in Posts} \cup {"sent", "void"}]
    /\ heard' \in [Posts -> {heard[p] : p \in Posts} \cup {"lost"}]
    /\ \A p \in Posts :
          \/ served'[p] = served[p] /\ heard'[p] = heard[p]
          \/ /\ p.run = r /\ p.how = "blind" /\ p.course = 1
             /\ \/ served'[p] = "void" /\ heard'[p] = "lost"
                \/ served'[p] = "sent" /\ heard'[p] = heard[p]
    /\ UNCHANGED <<server, store>>

LEMMA FireEffect ==
    ASSUME EngTypeOK, NEW r \in Runs, NEW me \in RunStates, Fire(r, me), Stays(r, me), me.k = 1,
           run[r].at = "enter", run[r].k = 1, UNCHANGED <<server, store>>
    PROVE  \E n \in RunStates : Fires(r, n)
<1> DEFINE n == [me EXCEPT !.at = "burst"]
           fire(k) == {BlindPost(r, s) : s \in {x \in Slots : x <= k}}
           void(k, u) == {p \in fire(k) : p.slot \in u}
<1>1. PICK k \in 0..MaxBlind, u \in SUBSET Slots :
           /\ served' = [p \in Posts |-> IF p \in void(k, u) THEN "void"
                                         ELSE IF p \in fire(k) THEN "sent" ELSE served[p]]
           /\ heard' = [p \in Posts |-> IF p \in void(k, u) THEN "lost" ELSE heard[p]]
           /\ run' = [run EXCEPT ![r] = n]
  BY Zenon DEF Fire, Become
<1>2. n \in RunStates /\ n.at = "burst" /\ n.k = 1 /\ n.result = me.result /\ n.extras = me.extras
  BY DEF RunStates, Ats
<1>3. Stays(r, n)  BY <1>2 DEF Stays
<1>4. \A p \in fire(k) : p.run = r /\ p.how = "blind" /\ p.course = 1  BY DEF BlindPost
<1>5. \A p \in void(k, u) : p \in fire(k)  OBVIOUS
<1> HIDE DEF n, fire, void
<1>6. \A p \in Posts :
          \/ served'[p] = served[p] /\ heard'[p] = heard[p]
          \/ /\ p.run = r /\ p.how = "blind" /\ p.course = 1
             /\ \/ served'[p] = "void" /\ heard'[p] = "lost"
                \/ served'[p] = "sent" /\ heard'[p] = heard[p]
  BY <1>1, <1>4, <1>5
<1>7. /\ served' \in [Posts -> {served[p] : p \in Posts} \cup {"sent", "void"}]
      /\ heard' \in [Posts -> {heard[p] : p \in Posts} \cup {"lost"}]
  BY <1>1
<1> QED  BY <1>1, <1>2, <1>3, <1>6, <1>7 DEF Fires

Sends(r) ==
    /\ run[r].at = "book" /\ served[SeqPost(r)] = "unsent" /\ run[r].k \in run[r].logged
    /\ served' = [served EXCEPT ![SeqPost(r)] = "sent"]
    /\ UNCHANGED <<server, heard, run, store>>

\* The kinds of steps, of a run and of the system.
LEMMA OwnSteps ==
    ASSUME EngTypeOK, PlaceOK, NEW r \in Runs, Begin(r) \/ RunStep(r)
    PROVE  \/ \E n \in RunStates : Moves(r, n)
           \/ \E n \in RunStates : Fires(r, n)
           \/ Sends(r)
           \/ \E s \in Slots : CancelExtra(r, s)
<1>1. ASSUME Enter(r)
      PROVE  (\E n \in RunStates : Moves(r, n)) \/ (\E n \in RunStates : Fires(r, n))
  BY <1>1, EnterMoves, FireEffect
<1>2. ASSUME Post(r)
      PROVE  (\E n \in RunStates : Moves(r, n)) \/ Sends(r)
  BY <1>2, PostMoves DEF Sends
<1>3. ASSUME Begin(r) \/ Prewarm(r) \/ Gather(r) \/ Settled(r) \/ Reguard(r) \/ Search(r) \/ Outcome(r) \/ Finish(r)
      PROVE  \E n \in RunStates : Moves(r, n)
  BY <1>3, BeginMoves, PrewarmMoves, GatherMoves, SettledMoves, ReguardMoves, SearchMoves,
     OutcomeMoves, FinishMoves
<1> QED  BY <1>1, <1>2, <1>3, Zenon DEF RunStep

LEMMA StepKinds ==
    ASSUME EngTypeOK, PlaceOK, BNext
    PROVE  \/ \E r \in Runs, n \in RunStates : Moves(r, n)
           \/ \E r \in Runs, n \in RunStates : Fires(r, n)
           \/ \E r \in Runs : Sends(r)
           \/ \E r \in Runs, s \in Slots, n \in RunStates : Cancels(r, s, n)
           \/ \E p \in Posts : Serve(p)
           \/ \E p \in Posts : Hear(p)
           \/ Environment
           \/ Crash
BY OwnSteps, CancelExtraMoves, Zenon DEF BNext

-----------------------------------------------------------------------------
(* Every kind of step preserves the invariant.                             *)

LEMMA MovesKeep ==
    ASSUME EngInv, NEW r \in Runs, NEW n \in RunStates, Moves(r, n)
    PROVE  EngInv'
<1>1. /\ EngTypeOK /\ SheetOK /\ HeardOK /\ MineHeld /\ MineOne /\ PlaceOK /\ FreshOK
      /\ WaitOK /\ ReportOK /\ SurplusOK /\ KeeperOK
  BY DEF EngInv
<1>2. /\ open' = open /\ due' = due /\ held' = held /\ served' = served /\ heard' = heard
      /\ run' = [run EXCEPT ![r] = n]
  BY DEF Moves, server, posts
<1>3. run'[r] = n /\ \A q \in Runs : q # r => run'[q] = run[q]
  BY <1>1, <1>2 DEF EngTypeOK
<1>4. /\ \/ (Tries(r, n) \/ Gathers(r, n) \/ Fails(r, n) \/ Begins(r, n)) /\ terminal' = terminal
         \/ Finishes(r, n) /\ terminal' = run[r].result
      /\ lock' \in {lock, r, Free}
  BY DEF Moves, store
<1>5. EngTypeOK'
  <2>1. run' \in [Runs -> RunStates]  BY <1>1, <1>2 DEF EngTypeOK
  <2>2. terminal' \in {NoResult} \cup Results  BY <1>1, <1>4 DEF EngTypeOK, RunStates
  <2>3. lock' \in Runs \cup {Free}  BY <1>1, <1>4 DEF EngTypeOK
  <2> QED  BY <1>1, <1>2, <2>1, <2>2, <2>3 DEF EngTypeOK
<1>6. SheetOK' /\ HeardOK'
  BY <1>1, <1>2 DEF SheetOK, HeardOK
<1>7. PlaceOK'
  <2>1. ASSUME NEW q \in Runs
        PROVE  /\ run'[q].at \in {"idle", "prewarm", "burst", "settle", "reguard"} => run'[q].k = 1
               /\ run'[q].at \in (Active \cup {"idle"}) \ {"settle", "record"} => run'[q].result = NoResult
               /\ run'[q].at = "book" => run'[q].todo # {}
               /\ run'[q].at # "settle" => run'[q].extras = {}
    <3>1. CASE q # r  BY <1>1, <1>3, <3>1 DEF PlaceOK
    <3>2. CASE q = r
      BY <1>1, <1>3, <1>4, <3>2
      DEF PlaceOK, Tries, Gathers, Fails, Begins, Finishes, Stays, Misses, GoesOn, Active, Ats, Ended
    <3> QED  BY <3>1, <3>2
  <2> QED  BY <2>1 DEF PlaceOK
<1>8. ASSUME NEW p \in Posts, Kept(p) PROVE Kept(p)'
  <2>1. p.run \in Runs /\ p.course \in Nat /\ p.slot \in Nat  BY EngineAssumption DEF Posts, Courses, Slots
  <2>2. run[p.run].result # NoResult  BY <1>8, <2>1, ResultTypes DEF Kept
  <2>3. run'[p.run].result = run[p.run].result
    <3>1. CASE p.run # r  BY <1>3, <2>1, <3>1
    <3>2. CASE p.run = r
      BY <1>1, <1>3, <1>4, <2>2, <3>2
      DEF PlaceOK, Tries, Gathers, Fails, Begins, Finishes, Stays, Misses, GoesOn, Active, Ats, Ended
    <3> QED  BY <3>1, <3>2
  <2> QED  BY <1>2, <1>8, <2>3 DEF Kept
<1>9. ASSUME NEW p \in Posts, Mine(p)' PROVE Mine(p)
  <2>1. p.run \in Runs  BY DEF Posts
  <2>2. served[p] = "landed"  BY <1>2, <1>9 DEF Mine
  <2>3. CASE p.run # r  BY <1>2, <1>3, <1>9, <2>1, <2>3 DEF Mine, Kept
  <2>4. CASE p.run = r /\ p.how # "seq"
    <3>1. run[r].at # "idle"  BY <1>1, <2>2, <2>4 DEF FreshOK, Early
    <3>2. run[r].at # "burst" => n.at \notin {"burst", "settle"}
      BY <1>4, <3>1 DEF Tries, Gathers, Fails, Begins, Finishes, Stays, Misses, GoesOn
    <3>3. ASSUME run[r].at # "burst", heard[p] = "booked", n.result = Result("booked", p.course, p.slot)
          PROVE  n.result = run[r].result
      <4>1. run[r].at = "book" => heard[SeqPost(r)] # "booked"
        BY <1>1, <2>4, <3>3 DEF WaitOK, SeqPost
      <4>2. n.result.outcome = "booked"
        <5>1. p.course \in Nat /\ p.slot \in Nat  BY EngineAssumption DEF Posts, Courses, Slots
        <5> QED  BY <3>3, <5>1, ResultTypes
      <4> QED  BY <1>4, <3>1, <3>3, <4>1, <4>2
               DEF Tries, Gathers, Fails, Begins, Finishes, Stays, Misses, GoesOn
    <3> QED  BY <1>2, <1>3, <1>9, <2>2, <2>4, <3>2, <3>3 DEF Mine, Kept
  <2> QED  BY <2>2, <2>3, <2>4 DEF Mine
<1>10. MineHeld' /\ MineOne'
  <2>1. \A p \in Posts : Mine(p)' => Mine(p)  BY <1>9
  <2> QED  BY <1>1, <1>2, <2>1 DEF MineHeld, MineOne, Reservation
<1>11. FreshOK'
  <2>1. ASSUME NEW p \in Posts, p.run = r, Early(r)' PROVE served[p] = "unsent"
    <3>1. Early(r)
      BY <1>1, <1>3, <1>4, <2>1
      DEF Early, PlaceOK, Tries, Gathers, Fails, Begins, Finishes, Stays, Misses, GoesOn
    <3> QED  BY <1>1, <2>1, <3>1 DEF FreshOK
  <2>2. ASSUME NEW p \in Posts, p.run = r, p.how = "seq", n.at \in {"burst", "settle", "reguard"}
        PROVE  served[p] = "unsent"
    <3>1. run[r].at = "burst"
      BY <1>4, <2>2 DEF Tries, Gathers, Fails, Begins, Finishes, Stays, Misses, GoesOn
    <3> QED  BY <1>1, <2>2, <3>1 DEF FreshOK
  <2>3. ASSUME NEW p \in Posts, p.run # r, Early(p.run)' PROVE Early(p.run)
    BY <1>3, <2>3 DEF Early, Posts
  <2>4. ASSUME NEW p \in Posts
        PROVE  /\ Early(p.run)' => served'[p] = "unsent"
               /\ p.how = "seq" /\ run'[p.run].at \in {"burst", "settle", "reguard"} => served'[p] = "unsent"
               /\ p.how = "blind" /\ served'[p] # "unsent" => p.course = 1
    <3>1. CASE p.run = r  BY <1>1, <1>2, <1>3, <2>1, <2>2, <3>1 DEF FreshOK
    <3>2. CASE p.run # r
      <4>1. run'[p.run] = run[p.run]  BY <1>3, <3>2 DEF Posts
      <4> QED  BY <1>1, <1>2, <2>3, <3>2, <4>1 DEF FreshOK
    <3> QED  BY <3>1, <3>2
  <2> QED  BY <2>4 DEF FreshOK
<1>12. WaitOK'
  <2>1. ASSUME NEW p \in Posts, p.run = r, heard[p] = "no" \/ heard[p] = "booked", served[p] # "unsent",
               n.at \in {"enter", "settle", "reguard", "search", "book"}
        PROVE  n.at = "settle" /\ heard[p] = "booked"
    <3>1. ~Early(r)  BY <1>1, <2>1 DEF FreshOK
    <3>2. run[r].at = "burst" => p \in Burst(r)  BY <1>1, <2>1 DEF FreshOK, Burst, Posts
    <3>3. run[r].at = "burst" => heard[p] # "no" /\ (heard[p] = "booked" => Answered(r, "booked") # {})
      BY <1>4, <2>1, <3>2 DEF Tries, Gathers, Fails, Begins, Finishes, Answered
    <3>4. run[r].at \notin {"enter", "reguard", "search"} /\ (run[r].at = "book" => p = SeqPost(r))
      BY <1>1, <2>1 DEF WaitOK
    <3> QED  BY <1>4, <2>1, <3>1, <3>3, <3>4
             DEF Early, Tries, Gathers, Fails, Begins, Finishes, Stays, Misses, GoesOn
  <2>2. ASSUME NEW p \in Posts
        PROVE  /\ heard'[p] = "no" /\ served'[p] # "unsent" =>
                      /\ run'[p.run].at \notin {"enter", "settle", "reguard", "search"}
                      /\ run'[p.run].at = "book" => p = SeqPost(p.run)'
               /\ heard'[p] = "booked" =>
                      /\ run'[p.run].at \notin {"enter", "reguard", "search"}
                      /\ run'[p.run].at = "book" => p = SeqPost(p.run)'
    <3>1. CASE p.run = r
      <4>1. heard[p] = "booked" => served[p] # "unsent"  BY <1>1 DEF HeardOK
      <4> QED  BY <1>2, <1>3, <2>1, <3>1, <4>1
    <3>2. CASE p.run # r
      <4>1. run'[p.run] = run[p.run]  BY <1>3, <3>2 DEF Posts
      <4>2. SeqPost(p.run)' = SeqPost(p.run)  BY <4>1 DEF SeqPost
      <4> QED  BY <1>1, <1>2, <4>1, <4>2 DEF WaitOK
    <3> QED  BY <3>1, <3>2
  <2> QED  BY <2>2 DEF WaitOK
<1>13. ASSUME NEW p \in Posts, p.run = r, heard[p] = "booked"
       PROVE  /\ ~Early(r) /\ run[r].at \notin {"enter", "reguard", "search"}
              /\ run[r].at = "book" => p = SeqPost(r)
              /\ run[r].at = "burst" => /\ p \in Burst(r) /\ p.course = 1
                                        /\ p.slot \in Answered(r, "booked")
  <2>1. served[p] = "landed"  BY <1>1, <1>13 DEF HeardOK
  <2>2. ~Early(r)  BY <1>1, <1>13, <2>1 DEF FreshOK
  <2>3. run[r].at = "burst" => p \in Burst(r) /\ p.course = 1
    BY <1>1, <1>13, <2>1 DEF FreshOK, Burst, Posts
  <2>4. p \in Burst(r) => p.slot \in Answered(r, "booked")  BY <1>13 DEF Answered
  <2> QED  BY <1>1, <1>13, <2>2, <2>3, <2>4 DEF WaitOK
<1>14. Answered(r, "booked") \in SUBSET Slots  BY DEF Answered, Burst, Posts
<1>15. Answered(r, "booked") # {} =>
          /\ Best(Answered(r, "booked")) \in Answered(r, "booked")
          /\ \A s \in Answered(r, "booked") : Best(Answered(r, "booked")) <= s
          /\ Best(Answered(r, "booked")) \in Nat
  BY <1>14, BestIsLeast, EngineAssumption DEF Slots
<1>16. ReportOK'
  <2>1. ASSUME NEW p \in Posts, p.run = r, heard[p] = "booked",
               n.at \in {"settle", "record", "done", "failed"}
        PROVE  Booked(n.result) /\ n.result.course = p.course /\ n.result.slot <= p.slot
    <3>1. /\ run[r].at \in {"settle", "record", "done", "failed"} =>
                /\ Booked(run[r].result)
                /\ run[r].result.course = p.course /\ run[r].result.slot <= p.slot
      BY <1>1, <2>1 DEF ReportOK
    <3>2. p.course \in Nat /\ p.slot \in Nat  BY EngineAssumption DEF Posts, Courses, Slots
    <3>3. CASE run[r].at = "burst"
      <4>1. p.course = 1 /\ p.slot \in Answered(r, "booked")  BY <1>13, <2>1, <3>3
      <4>2. n.result = Result("booked", 1, Best(Answered(r, "booked")))
        BY <1>4, <2>1, <3>3, <4>1 DEF Tries, Gathers, Fails, Begins, Finishes
      <4> QED  BY <1>15, <4>1, <4>2, ResultTypes DEF Booked
    <3>4. CASE run[r].at = "book"
      <4>1. p = SeqPost(r)  BY <1>13, <2>1, <3>4
      <4>2. served[p] # "unsent"  BY <1>1, <2>1 DEF HeardOK
      <4>3. n.result = Result("booked", run[r].k, SeqPost(r).slot)
        BY <1>4, <2>1, <3>4, <4>1, <4>2 DEF Tries, Gathers, Fails, Begins, Finishes
      <4>4. p.course = run[r].k  BY <4>1 DEF SeqPost
      <4> QED  BY <3>2, <4>1, <4>3, <4>4, ResultTypes DEF Booked
    <3>5. CASE run[r].at \notin {"burst", "book"}
      <4>1. ~Early(r) /\ run[r].at \notin {"enter", "reguard", "search"}  BY <1>13, <2>1
      <4>2. run[r].at \in {"settle", "record"} /\ n.result = run[r].result
        BY <1>4, <2>1, <3>5, <4>1 DEF Early, Tries, Gathers, Fails, Begins, Finishes, Stays
      <4> QED  BY <3>1, <4>2
    <3> QED  BY <3>3, <3>4, <3>5
  <2>2. ASSUME NEW p \in Posts,
               heard'[p] = "booked", run'[p.run].at \in {"settle", "record", "done", "failed"}
        PROVE  /\ Booked(run'[p.run].result)
               /\ run'[p.run].result.course = p.course /\ run'[p.run].result.slot <= p.slot
    <3>1. CASE p.run = r  BY <1>2, <1>3, <2>1, <2>2, <3>1
    <3>2. CASE p.run # r
      <4>1. run'[p.run] = run[p.run]  BY <1>3, <3>2 DEF Posts
      <4> QED  BY <1>1, <1>2, <2>2, <4>1 DEF ReportOK
    <3> QED  BY <3>1, <3>2
  <2> QED  BY <2>2 DEF ReportOK, Booked
<1>17. SurplusOK'
  <2>1. ASSUME n.at = "settle"
        PROVE  /\ Booked(n.result) /\ n.result.course = 1 /\ n.result.slot \notin n.extras
               /\ \A s \in n.extras : served[BlindPost(r, s)] = "landed"
    <3> DEFINE booked == Answered(r, "booked")
    <3>1. /\ run[r].at = "burst" /\ booked # {}
          /\ n.result = Result("booked", 1, Best(booked)) /\ n.extras = Surplus(booked)
      BY <1>4, <2>1 DEF Tries, Gathers, Fails, Begins, Finishes, Stays, Misses, GoesOn
    <3>2. n.extras = booked \ {Best(booked)}  BY <3>1 DEF Surplus
    <3>3. ASSUME NEW s \in n.extras PROVE served[BlindPost(r, s)] = "landed"
      <4>1. PICK p \in Burst(r) : heard[p] = "booked" /\ p.slot = s  BY <3>2, <3>3 DEF Answered
      <4>2. p \in Posts /\ p.run = r /\ p.how = "blind" /\ served[p] = "landed"
        BY <1>1, <4>1 DEF Burst, HeardOK
      <4>3. p.course = 1  BY <1>1, <4>2 DEF FreshOK
      <4>4. p = BlindPost(r, s)  BY <4>1, <4>2, <4>3 DEF Posts, BlindPost
      <4> QED  BY <4>2, <4>4
    <3> QED  BY <1>15, <3>1, <3>2, <3>3, ResultTypes DEF Booked
  <2>2. ASSUME NEW q \in Runs, run'[q].at = "settle"
        PROVE  /\ Booked(run'[q].result) /\ run'[q].result.course = 1
               /\ run'[q].result.slot \notin run'[q].extras
               /\ \A s \in run'[q].extras : served'[BlindPost(q, s)] = "landed"
    <3>1. CASE q = r  BY <1>2, <1>3, <2>1, <2>2, <3>1
    <3>2. CASE q # r  BY <1>1, <1>2, <1>3, <2>2, <3>2 DEF SurplusOK
    <3> QED  BY <3>1, <3>2
  <2> QED  BY <2>2 DEF SurplusOK, Booked, BlindPost
<1>18. KeeperOK'
  <2>1. ASSUME NEW res, Backed(res) PROVE Backed(res)'
    BY <1>8, <2>1 DEF Backed
  <2>2. ASSUME Booked(n.result) PROVE Backed(n.result)'
    <3>1. CASE n.result = run[r].result
      BY <1>1, <2>1, <2>2, <3>1 DEF KeeperOK
    <3>2. CASE n.result = terminal
      BY <1>1, <2>1, <2>2, <3>2 DEF KeeperOK
    <3>3. CASE /\ run[r].at = "burst" /\ Answered(r, "booked") # {}
               /\ n.result = Result("booked", 1, Best(Answered(r, "booked")))
      <4>1. PICK p \in Burst(r) : heard[p] = "booked" /\ p.slot = Best(Answered(r, "booked"))
        BY <1>15, <3>3 DEF Answered
      <4>2. p \in Posts /\ p.run = r  BY <4>1 DEF Burst
      <4>3. p.course = 1  BY <1>13, <3>3, <4>1, <4>2
      <4>4. Kept(p)' /\ n.result = Result("booked", p.course, p.slot)
        BY <1>2, <1>3, <3>3, <4>1, <4>2, <4>3 DEF Kept
      <4> QED  BY <4>2, <4>4 DEF Backed
    <3>4. CASE /\ run[r].at = "book" /\ heard[SeqPost(r)] = "booked"
               /\ n.result = Result("booked", run[r].k, SeqPost(r).slot)
      <4> DEFINE p == SeqPost(r)
      <4>1. p \in Posts /\ p.run = r /\ p.course = run[r].k  BY <1>1, <3>4, SeqPostType
      <4>2. heard'[p] = "booked" /\ run'[p.run].result = Result("booked", p.course, p.slot)
        BY <1>2, <1>3, <3>4, <4>1
      <4> HIDE DEF p
      <4>3. \E q \in Posts : q = p  BY <4>1
      <4>4. PICK q \in Posts : q = p  BY <4>3
      <4>5. Kept(q)' /\ n.result = Result("booked", q.course, q.slot)
        BY <3>4, <4>1, <4>2, <4>4 DEF Kept, p
      <4> QED  BY <4>5 DEF Backed
    <3>5. n.result = NoResult \/ n.result.outcome # "booked" \/ n.result = run[r].result
          \/ n.result = terminal
          \/ /\ run[r].at = "burst" /\ Answered(r, "booked") # {}
             /\ n.result = Result("booked", 1, Best(Answered(r, "booked")))
          \/ /\ run[r].at = "book" /\ heard[SeqPost(r)] = "booked"
             /\ n.result = Result("booked", run[r].k, SeqPost(r).slot)
      BY <1>4 DEF Tries, Gathers, Fails, Begins, Finishes, Stays, Misses, GoesOn
    <3> QED  BY <2>2, <3>1, <3>2, <3>3, <3>4, <3>5 DEF Booked
  <2>3. ASSUME NEW q \in Runs, NEW res, res = run'[q].result, Booked(res) PROVE Backed(res)'
    <3>1. CASE q = r
      <4>1. res = n.result  BY <1>3, <2>3, <3>1
      <4> QED  BY <2>2, <2>3, <4>1
    <3>2. CASE q # r
      <4>1. res = run[q].result  BY <1>3, <2>3, <3>2
      <4>2. Backed(res)  BY <1>1, <2>3, <4>1 DEF KeeperOK
      <4> QED  BY <2>1, <4>2
    <3> QED  BY <3>1, <3>2
  <2>4. ASSUME NEW res, res = terminal', Booked(res) PROVE Backed(res)'
    <3>1. res = terminal \/ res = run[r].result  BY <1>4, <2>4
    <3>2. Backed(res)  BY <1>1, <2>4, <3>1 DEF KeeperOK
    <3> QED  BY <2>1, <3>2
  <2> QED  BY <2>3, <2>4 DEF KeeperOK, Booked, Backed
<1> QED  BY <1>5, <1>6, <1>7, <1>10, <1>11, <1>12, <1>16, <1>17, <1>18 DEF EngInv

\* A step that changes neither the POSTs nor the runs keeps what is said of them.
LEMMA ServerKeep ==
    ASSUME EngInv, UNCHANGED <<posts, run, store>>, SheetOK', held \subseteq held',
           open' \in [Courses -> SUBSET Slots], due' \subseteq Courses, held' \subseteq Reservations
    PROVE  EngInv'
<1>1. /\ EngTypeOK /\ SheetOK /\ HeardOK /\ MineHeld /\ MineOne /\ PlaceOK /\ FreshOK
      /\ WaitOK /\ ReportOK /\ SurplusOK /\ KeeperOK
  BY DEF EngInv
<1>2. served' = served /\ heard' = heard /\ run' = run /\ lock' = lock /\ terminal' = terminal
  BY DEF posts, store
<1>3. EngTypeOK'  BY <1>1, <1>2 DEF EngTypeOK
<1>4. HeardOK' /\ PlaceOK'  BY <1>1, <1>2 DEF HeardOK, PlaceOK
<1>5. MineHeld' /\ MineOne'
  <2>1. \A p \in Posts : Mine(p)' <=> Mine(p)  BY <1>2 DEF Mine, Kept
  <2> QED  BY <1>1, <2>1 DEF MineHeld, MineOne, Reservation
<1>6. FreshOK'  BY <1>1, <1>2 DEF FreshOK, Early
<1>7. WaitOK' /\ ReportOK'  BY <1>1, <1>2 DEF WaitOK, ReportOK, SeqPost
<1>8. SurplusOK'  BY <1>1, <1>2 DEF SurplusOK
<1>9. KeeperOK'  BY <1>1, <1>2 DEF KeeperOK, Backed, Kept
<1> QED  BY <1>1, <1>3, <1>4, <1>5, <1>6, <1>7, <1>8, <1>9 DEF EngInv

LEMMA EnvironmentKeeps ==
    ASSUME EngInv, Environment
    PROVE  EngInv'
<1>1. EngTypeOK /\ SheetOK  BY DEF EngInv
<1>2. ASSUME NEW c \in Courses, Drop(c) PROVE EngInv'
  <2>1. /\ c \in due /\ due' = due \ {c} /\ held' = held /\ UNCHANGED <<posts, run, store>>
        /\ open' = [open EXCEPT ![c] = Slots]
    BY <1>2 DEF Drop
  <2>2. open' \in [Courses -> SUBSET Slots]  BY <1>1, <2>1 DEF EngTypeOK
  <2>3. \A x \in held : x.course # c  BY <1>1, <2>1 DEF SheetOK
  <2>4. \A d \in Courses : d # c => open'[d] = open[d]  BY <1>1, <2>1 DEF EngTypeOK
  <2>5. \A x \in held : x.course \in Courses  BY <1>1 DEF EngTypeOK, Reservations
  <2>6. SheetOK'  BY <1>1, <2>1, <2>3, <2>4, <2>5 DEF SheetOK, EngTypeOK
  <2> QED  BY <1>1, <2>1, <2>2, <2>6, ServerKeep DEF EngTypeOK
<1>3. ASSUME NEW c \in Courses, NEW s \in Slots, Rival(c, s) PROVE EngInv'
  <2>1. /\ s \in open[c] /\ due' = due /\ held' = held /\ UNCHANGED <<posts, run, store>>
        /\ open' = [open EXCEPT ![c] = open[c] \ {s}]
    BY <1>3 DEF Rival
  <2>2. open' \in [Courses -> SUBSET Slots] /\ \A d \in Courses : open'[d] \subseteq open[d]
    BY <1>1, <2>1 DEF EngTypeOK
  <2>3. \A x \in held : x.course \in Courses  BY <1>1 DEF EngTypeOK, Reservations
  <2>4. SheetOK'  BY <1>1, <2>1, <2>2, <2>3 DEF SheetOK, EngTypeOK
  <2> QED  BY <1>1, <2>1, <2>2, <2>4, ServerKeep DEF EngTypeOK
<1>4. ASSUME NEW c \in Courses, NEW s \in Slots, NEW by \in {"hand", "odd"}, ByHand(c, s, by) PROVE EngInv'
  <2> DEFINE new == [course |-> c, slot |-> s, by |-> by]
  <2>1. /\ s \in open[c] /\ due' = due /\ held' = held \cup {new} /\ UNCHANGED <<posts, run, store>>
        /\ open' = [open EXCEPT ![c] = open[c] \ {s}]
    BY <1>4 DEF ByHand
  <2>2. new \in Reservations /\ new.course = c /\ new.slot = s  BY DEF Reservations
  <2> HIDE DEF new
  <2>3. open' \in [Courses -> SUBSET Slots] /\ s \notin open'[c] /\ \A d \in Courses : open'[d] \subseteq open[d]
    BY <1>1, <2>1 DEF EngTypeOK
  <2>4. \A x \in held : x.course \in Courses  BY <1>1 DEF EngTypeOK, Reservations
  <2>5. c \notin due  BY <1>1, <2>1 DEF SheetOK
  <2>6. \A x \in held : ~(x.course = c /\ x.slot = s)  BY <1>1, <2>1 DEF SheetOK
  <2>7. SheetOK'
    <3>1. \A x \in held' : x.slot \notin open'[x.course]
      BY <1>1, <2>1, <2>2, <2>3, <2>4 DEF SheetOK
    <3>2. \A x, y \in held' : x.course = y.course /\ x.slot = y.slot => x = y
      BY <1>1, <2>1, <2>2, <2>6 DEF SheetOK
    <3>3. \A d \in due' : open'[d] = {} /\ \A x \in held' : x.course # d
      BY <1>1, <2>1, <2>2, <2>3, <2>5 DEF SheetOK, EngTypeOK
    <3> QED  BY <3>1, <3>2, <3>3 DEF SheetOK
  <2>8. held' \subseteq Reservations  BY <1>1, <2>1, <2>2 DEF EngTypeOK
  <2> QED  BY <1>1, <2>1, <2>3, <2>7, <2>8, ServerKeep DEF EngTypeOK
<1> QED  BY <1>2, <1>3, <1>4 DEF Environment

LEMMA FiresKeep ==
    ASSUME EngInv, NEW r \in Runs, NEW n \in RunStates, Fires(r, n)
    PROVE  EngInv'
<1>1. /\ EngTypeOK /\ SheetOK /\ HeardOK /\ MineHeld /\ MineOne /\ PlaceOK /\ FreshOK
      /\ WaitOK /\ ReportOK /\ SurplusOK /\ KeeperOK
  BY DEF EngInv
<1>2. /\ open' = open /\ due' = due /\ held' = held /\ lock' = lock /\ terminal' = terminal
      /\ run' = [run EXCEPT ![r] = n] /\ run[r].at = "enter" /\ run[r].k = 1
      /\ n.at = "burst" /\ n.k = 1 /\ n.result = run[r].result /\ n.extras = run[r].extras
  BY DEF Fires, server, store, Stays
<1>3. run'[r] = n /\ \A q \in Runs : q # r => run'[q] = run[q]
  BY <1>1, <1>2 DEF EngTypeOK
<1>4. \A p \in Posts : p.run = r => served[p] = "unsent" /\ heard[p] = "no"
  BY <1>1, <1>2 DEF FreshOK, HeardOK, Early
<1>5. \A p \in Posts :
          \/ served'[p] = served[p] /\ heard'[p] = heard[p]
          \/ /\ p.run = r /\ p.how = "blind" /\ p.course = 1
             /\ \/ served'[p] = "void" /\ heard'[p] = "lost"
                \/ served'[p] = "sent" /\ heard'[p] = "no"
  BY <1>4 DEF Fires
<1>6. EngTypeOK'
  <2>1. run' \in [Runs -> RunStates]  BY <1>1, <1>2 DEF EngTypeOK
  <2>2. served' \in [Posts -> {"unsent", "sent", "landed", "refused", "throttled", "void"}]
    BY <1>1 DEF Fires, EngTypeOK
  <2>3. heard' \in [Posts -> {"no", "booked", "gone", "busy", "lost", "died"}]
    BY <1>1 DEF Fires, EngTypeOK
  <2> QED  BY <1>1, <1>2, <2>1, <2>2, <2>3 DEF EngTypeOK
<1>7. SheetOK' /\ HeardOK'  BY <1>1, <1>2, <1>5 DEF SheetOK, HeardOK
<1>8. PlaceOK'
  <2>1. run[r].result = NoResult /\ run[r].extras = {}
    BY <1>1, <1>2 DEF PlaceOK, Active, Ats, Ended
  <2>2. ASSUME NEW q \in Runs
        PROVE  /\ run'[q].at \in {"idle", "prewarm", "burst", "settle", "reguard"} => run'[q].k = 1
               /\ run'[q].at \in (Active \cup {"idle"}) \ {"settle", "record"} => run'[q].result = NoResult
               /\ run'[q].at = "book" => run'[q].todo # {}
               /\ run'[q].at # "settle" => run'[q].extras = {}
    <3>1. CASE q = r  BY <1>2, <1>3, <2>1, <3>1
    <3>2. CASE q # r  BY <1>1, <1>3, <3>2 DEF PlaceOK
    <3> QED  BY <3>1, <3>2
  <2> QED  BY <2>2 DEF PlaceOK
<1>9. ASSUME NEW p \in Posts
      PROVE  \/ p.run # r /\ served'[p] = served[p] /\ heard'[p] = heard[p] /\ run'[p.run] = run[p.run]
             \/ p.run = r /\ heard[p] = "no" /\ heard'[p] \in {"no", "lost"} /\ served[p] = "unsent"
                /\ (p.how = "blind" \/ served'[p] = "unsent") /\ run'[p.run].at = "burst"
                /\ served'[p] # "landed" /\ (served'[p] # "unsent" => p.course = 1)
  BY <1>2, <1>3, <1>4, <1>5 DEF Posts
<1>10. MineHeld' /\ MineOne'
  <2>1. \A p \in Posts : Mine(p)' => Mine(p)  BY <1>9 DEF Mine, Kept
  <2> QED  BY <1>1, <1>2, <2>1 DEF MineHeld, MineOne, Reservation
<1>11. FreshOK'  BY <1>1, <1>9 DEF FreshOK, Early
<1>12. WaitOK' /\ ReportOK'
  <2>1. ASSUME NEW p \in Posts, p.run # r PROVE SeqPost(p.run)' = SeqPost(p.run)
    BY <1>9, <2>1 DEF SeqPost
  <2>2. WaitOK'  BY <1>1, <1>9, <2>1 DEF WaitOK
  <2>3. ReportOK'  BY <1>1, <1>9 DEF ReportOK, Booked
  <2> QED  BY <2>2, <2>3
<1>13. SurplusOK'
  <2>1. ASSUME NEW q \in Runs, run'[q].at = "settle"
        PROVE  q # r /\ run'[q] = run[q]
    BY <1>2, <1>3, <2>1
  <2>2. \A p \in Posts : served[p] = "landed" => served'[p] = "landed"  BY <1>9
  <2>3. ASSUME NEW q \in Runs, run[q].at = "settle", NEW s \in run[q].extras PROVE BlindPost(q, s) \in Posts
    <3>1. s \in Slots /\ 1 \in Courses
      BY <1>1, <2>3, EngineAssumption DEF EngTypeOK, RunStates, Courses
    <3> QED  BY <3>1 DEF BlindPost, Posts
  <2> QED  BY <1>1, <2>1, <2>2, <2>3 DEF SurplusOK, Booked
<1>14. KeeperOK'
  <2>1. \A p \in Posts : Kept(p) => Kept(p)'  BY <1>9 DEF Kept
  <2>2. \A q \in Runs : run'[q].result = run[q].result  BY <1>2, <1>3
  <2> QED  BY <1>1, <1>2, <2>1, <2>2 DEF KeeperOK, Booked, Backed
<1> QED  BY <1>6, <1>7, <1>8, <1>10, <1>11, <1>12, <1>13, <1>14 DEF EngInv

\* A POST of which something new is known, while the runs stay.
LEMMA SendsKeep ==
    ASSUME EngInv, NEW r \in Runs, Sends(r)
    PROVE  EngInv'
<1> DEFINE sp == SeqPost(r)
<1>1. /\ EngTypeOK /\ SheetOK /\ HeardOK /\ MineHeld /\ MineOne /\ PlaceOK /\ FreshOK
      /\ WaitOK /\ ReportOK /\ SurplusOK /\ KeeperOK
  BY DEF EngInv
<1>2. /\ open' = open /\ due' = due /\ held' = held /\ lock' = lock /\ terminal' = terminal
      /\ heard' = heard /\ run' = run
      /\ run[r].at = "book" /\ served[sp] = "unsent" /\ served' = [served EXCEPT ![sp] = "sent"]
  BY DEF Sends, server, store
<1>3. sp \in Posts /\ sp.run = r /\ sp.how = "seq"  BY <1>1, <1>2, SeqPostType
<1>4. heard[sp] = "no"  BY <1>1, <1>2, <1>3 DEF HeardOK
<1>5. \A p \in Posts : p # sp => served'[p] = served[p]  BY <1>1, <1>2 DEF EngTypeOK
<1>6. served'[sp] = "sent" /\ served' \in [Posts -> {"unsent", "sent", "landed", "refused", "throttled", "void"}]
  BY <1>1, <1>2, <1>3 DEF EngTypeOK
<1>7. ASSUME NEW p \in Posts, p = sp PROVE p.run = r /\ p.how = "seq"  BY <1>3, <1>7
<1>8. \A q \in Runs : SeqPost(q)' = SeqPost(q)  BY <1>2 DEF SeqPost
<1>9. \A p \in Posts : p = sp => p = SeqPost(p.run)  BY <1>3
<1> HIDE DEF sp
<1>10. EngTypeOK' /\ SheetOK' /\ PlaceOK'  BY <1>1, <1>2, <1>6 DEF EngTypeOK, SheetOK, PlaceOK
<1>11. HeardOK'  BY <1>1, <1>2, <1>4, <1>5 DEF HeardOK
<1>12. MineHeld' /\ MineOne'
  <2>1. \A p \in Posts : Mine(p)' => Mine(p)
    BY <1>2, <1>5, <1>6 DEF Mine, Kept
  <2> QED  BY <1>1, <1>2, <2>1 DEF MineHeld, MineOne, Reservation
<1>13. FreshOK'  BY <1>1, <1>2, <1>5, <1>7 DEF FreshOK, Early
<1>14. WaitOK'
  <2>1. ASSUME NEW p \in Posts
        PROVE  /\ heard'[p] = "no" /\ served'[p] # "unsent" =>
                      /\ run'[p.run].at \notin {"enter", "settle", "reguard", "search"}
                      /\ run'[p.run].at = "book" => p = SeqPost(p.run)'
               /\ heard'[p] = "booked" =>
                      /\ run'[p.run].at \notin {"enter", "reguard", "search"}
                      /\ run'[p.run].at = "book" => p = SeqPost(p.run)'
    <3>1. p.run \in Runs  BY DEF Posts
    <3>2. CASE p = sp  BY <1>2, <1>4, <1>7, <1>8, <1>9, <3>1, <3>2
    <3>3. CASE p # sp  BY <1>1, <1>2, <1>5, <1>8, <3>1, <3>3 DEF WaitOK
    <3> QED  BY <3>2, <3>3
  <2> QED  BY <2>1 DEF WaitOK
<1>15. ReportOK' /\ KeeperOK'
  BY <1>1, <1>2 DEF ReportOK, KeeperOK, Booked, Backed, Kept
<1>16. SurplusOK'
  <2>1. ASSUME NEW q \in Runs, run[q].at = "settle", NEW s \in run[q].extras
        PROVE served'[BlindPost(q, s)] = "landed"
    <3>1. s \in Slots /\ 1 \in Courses
      BY <1>1, <2>1, EngineAssumption DEF EngTypeOK, RunStates, Courses
    <3>2. BlindPost(q, s) \in Posts /\ BlindPost(q, s).how # "seq"  BY <3>1 DEF BlindPost, Posts
    <3>3. served[BlindPost(q, s)] = "landed"  BY <1>1, <2>1 DEF SurplusOK
    <3> QED  BY <1>3, <1>5, <1>7, <3>2, <3>3
  <2> QED  BY <1>1, <1>2, <2>1 DEF SurplusOK, Booked
<1> QED  BY <1>10, <1>11, <1>12, <1>13, <1>14, <1>15, <1>16 DEF EngInv

\* A surplus slot names a POST of the burst.
LEMMA SurplusPost ==
    ASSUME EngTypeOK, NEW r \in Runs, NEW s \in run[r].extras
    PROVE  BlindPost(r, s) \in Posts
<1>1. s \in Slots /\ 1 \in Courses  BY EngineAssumption DEF EngTypeOK, RunStates, Courses
<1> QED  BY <1>1 DEF BlindPost, Posts

LEMMA CancelsKeep ==
    ASSUME EngInv, NEW r \in Runs, NEW s \in Slots, NEW n \in RunStates, Cancels(r, s, n)
    PROVE  EngInv'
<1> DEFINE p0 == BlindPost(r, s)
           x0 == [course |-> 1, slot |-> s, by |-> "run"]
<1>1. /\ EngTypeOK /\ SheetOK /\ HeardOK /\ MineHeld /\ MineOne /\ PlaceOK /\ FreshOK
      /\ WaitOK /\ ReportOK /\ SurplusOK /\ KeeperOK
  BY DEF EngInv
<1>2. /\ due' = due /\ lock' = lock /\ terminal' = terminal /\ served' = served /\ heard' = heard
      /\ run' = [run EXCEPT ![r] = n] /\ run[r].at = "settle" /\ s \in run[r].extras
      /\ n.at = "settle" /\ n.k = run[r].k /\ n.result = run[r].result
      /\ n.extras = run[r].extras \ {s}
  BY DEF Cancels, posts, store
<1>3. run'[r] = n /\ \A q \in Runs : q # r => run'[q] = run[q]
  BY <1>1, <1>2 DEF EngTypeOK
<1>4. \/ held' = held \ {x0} /\ open' = [open EXCEPT ![1] = open[1] \cup {s}]
      \/ held' = held /\ open' = open
  BY DEF Cancels
<1>5. p0 \in Posts  BY <1>1, <1>2, SurplusPost
<1>6. /\ p0.run = r /\ p0.how = "blind" /\ p0.course = 1 /\ p0.slot = s
      /\ Reservation(p0) = x0 /\ x0.course = 1 /\ x0.slot = s
  BY DEF BlindPost, Reservation
<1>7. served[p0] = "landed"  BY <1>1, <1>2 DEF SurplusOK
<1> HIDE DEF p0, x0
<1>8. Mine(p0) /\ x0 \in held
  <2>1. Mine(p0)  BY <1>2, <1>6, <1>7 DEF Mine
  <2> QED  BY <1>1, <1>5, <1>6, <2>1 DEF MineHeld
<1>9. 1 \in Courses  BY EngineAssumption DEF Courses
<1>10. EngTypeOK'
  <2>1. run' \in [Runs -> RunStates]  BY <1>1, <1>2 DEF EngTypeOK
  <2>2. open' \in [Courses -> SUBSET Slots] /\ held' \subseteq Reservations
    BY <1>1, <1>4, <1>9 DEF EngTypeOK
  <2> QED  BY <1>1, <1>2, <2>1, <2>2 DEF EngTypeOK
<1>11. SheetOK'
  <2>1. CASE held' = held /\ open' = open  BY <1>1, <1>2, <2>1 DEF SheetOK
  <2>2. CASE held' = held \ {x0} /\ open' = [open EXCEPT ![1] = open[1] \cup {s}]
    <3>1. /\ open'[1] = open[1] \cup {s}
          /\ \A d \in Courses : d # 1 => open'[d] = open[d]
      BY <1>1, <1>9, <2>2 DEF EngTypeOK
    <3>2. \A x \in held' : ~(x.course = 1 /\ x.slot = s)
      BY <1>1, <1>6, <1>8, <2>2 DEF SheetOK
    <3>3. 1 \notin due  BY <1>1, <1>6, <1>8 DEF SheetOK
    <3>4. \A x \in held : x.course \in Courses  BY <1>1 DEF EngTypeOK, Reservations
    <3>5. \A x \in held' : x.slot \notin open'[x.course]
      BY <1>1, <2>2, <3>1, <3>2, <3>4 DEF SheetOK
    <3>6. \A x, y \in held' : x.course = y.course /\ x.slot = y.slot => x = y
      BY <1>1, <2>2 DEF SheetOK
    <3>7. \A d \in due' : open'[d] = {} /\ \A x \in held' : x.course # d
      BY <1>1, <1>2, <2>2, <3>1, <3>3 DEF SheetOK, EngTypeOK
    <3> QED  BY <3>5, <3>6, <3>7 DEF SheetOK
  <2> QED  BY <1>4, <2>1, <2>2
<1>12. HeardOK'  BY <1>1, <1>2 DEF HeardOK
<1>13. PlaceOK'
  <2>1. n.k = 1  BY <1>1, <1>2 DEF PlaceOK
  <2> QED  BY <1>1, <1>2, <1>3, <2>1 DEF PlaceOK
<1>14. ASSUME NEW p \in Posts, Mine(p)' PROVE Mine(p) /\ p # p0
  <2>1. p.run \in Runs  BY DEF Posts
  <2>2. CASE p.run # r  BY <1>2, <1>3, <1>6, <1>14, <2>1, <2>2 DEF Mine, Kept
  <2>3. CASE p.run = r
    <3>1. Kept(p)' => Kept(p) /\ p.slot # s
      <4>1. ASSUME Kept(p)' PROVE run[r].result.slot = p.slot /\ heard[p] = "booked"
                                  /\ run[r].result = Result("booked", p.course, p.slot)
        BY <1>2, <1>3, <2>3, <4>1 DEF Kept, Result
      <4>2. run[r].result.slot \notin run[r].extras  BY <1>1, <1>2 DEF SurplusOK
      <4> QED  BY <1>2, <2>3, <4>1, <4>2 DEF Kept
    <3> QED  BY <1>2, <1>3, <1>6, <1>14, <2>3, <3>1 DEF Mine
  <2> QED  BY <2>2, <2>3
<1>15. MineOne'  BY <1>1, <1>14 DEF MineOne
<1>16. MineHeld'
  <2>1. ASSUME NEW p \in Posts, Mine(p)' PROVE Reservation(p) \in held'
    <3>1. Mine(p) /\ p # p0 /\ Reservation(p) \in held  BY <1>1, <1>14, <2>1 DEF MineHeld
    <3>2. ~(p.course = 1 /\ p.slot = s)  BY <1>1, <1>5, <1>6, <1>8, <3>1 DEF MineOne
    <3>3. Reservation(p).course = p.course /\ Reservation(p).slot = p.slot  BY DEF Reservation
    <3>4. Reservation(p) # x0  BY <1>6, <3>2, <3>3
    <3> QED  BY <1>4, <3>1, <3>4
  <2> QED  BY <2>1 DEF MineHeld, Reservation
<1>17. \A q \in Runs : /\ run'[q].at = run[q].at /\ run'[q].result = run[q].result
                       /\ run'[q].k = run[q].k /\ run'[q].extras \subseteq run[q].extras
                       /\ (run[q].at # "settle" => run'[q].todo = run[q].todo)
  BY <1>2, <1>3
<1>18. FreshOK'  BY <1>1, <1>2, <1>17 DEF FreshOK, Early, Posts
<1>19. WaitOK'
  <2>1. \A q \in Runs : run[q].at = "book" => SeqPost(q)' = SeqPost(q)  BY <1>17 DEF SeqPost
  <2> QED  BY <1>1, <1>2, <1>17, <2>1 DEF WaitOK, Posts
<1>20. ReportOK'  BY <1>1, <1>2, <1>17 DEF ReportOK, Booked, Posts
<1>21. SurplusOK'  BY <1>1, <1>2, <1>17 DEF SurplusOK, Booked, BlindPost
<1>22. KeeperOK'
  <2>1. \A p \in Posts : Kept(p) => Kept(p)'  BY <1>2, <1>17 DEF Kept, Posts
  <2> QED  BY <1>1, <1>2, <1>17, <2>1 DEF KeeperOK, Booked, Backed
<1> QED  BY <1>10, <1>11, <1>12, <1>13, <1>15, <1>16, <1>18, <1>19, <1>20, <1>21, <1>22 DEF EngInv

LEMMA ServeKeeps ==
    ASSUME EngInv, NEW p \in Posts, Serve(p)
    PROVE  EngInv'
<1> DEFINE x0 == Reservation(p)
<1>1. /\ EngTypeOK /\ SheetOK /\ HeardOK /\ MineHeld /\ MineOne /\ PlaceOK /\ FreshOK
      /\ WaitOK /\ ReportOK /\ SurplusOK /\ KeeperOK
  BY DEF EngInv
<1>2. /\ due' = due /\ lock' = lock /\ terminal' = terminal /\ run' = run /\ heard' = heard
      /\ served[p] = "sent"
  BY DEF Serve, store
<1>3. \/ /\ p.slot \in open[p.course] /\ held' = held \cup {x0}
         /\ open' = [open EXCEPT ![p.course] = open[p.course] \ {p.slot}]
         /\ served' = [served EXCEPT ![p] = "landed"]
      \/ /\ held' = held /\ open' = open
         /\ served' = [served EXCEPT ![p] = "refused"] \/ served' = [served EXCEPT ![p] = "throttled"]
  BY Zenon DEF Serve, Reservation
<1>4. p.run \in Runs /\ p.course \in Courses /\ p.slot \in Slots  BY DEF Posts
<1>5. x0 \in Reservations /\ x0.course = p.course /\ x0.slot = p.slot
  BY <1>4 DEF Reservation, Reservations
<1> HIDE DEF x0
<1>6. \A q \in Posts : q # p => served'[q] = served[q]  BY <1>1, <1>3 DEF EngTypeOK
<1>7. served'[p] \in {"landed", "refused", "throttled"}  BY <1>1, <1>3 DEF EngTypeOK
<1>8. \A q \in Runs : SeqPost(q)' = SeqPost(q)  BY <1>2 DEF SeqPost
<1>9. EngTypeOK'
  <2>1. served' \in [Posts -> {"unsent", "sent", "landed", "refused", "throttled", "void"}]
    BY <1>1, <1>3 DEF EngTypeOK
  <2>2. held' \subseteq Reservations  BY <1>1, <1>3, <1>5 DEF EngTypeOK
  <2>3. open' \in [Courses -> SUBSET Slots]
    <3>1. open \in [Courses -> SUBSET Slots]  BY <1>1 DEF EngTypeOK
    <3> QED  BY <1>3, <1>4, <3>1
  <2> QED  BY <1>1, <1>2, <2>1, <2>2, <2>3 DEF EngTypeOK
<1>10. SheetOK' /\ (p.slot \in open[p.course] => \A x \in held : ~(x.course = p.course /\ x.slot = p.slot))
  <2>1. ASSUME p.slot \in open[p.course] PROVE \A x \in held : ~(x.course = p.course /\ x.slot = p.slot)
    BY <1>1, <2>1 DEF SheetOK
  <2>2. CASE held' = held /\ open' = open  BY <1>1, <1>2, <2>1, <2>2 DEF SheetOK
  <2>3. CASE /\ p.slot \in open[p.course] /\ held' = held \cup {x0}
             /\ open' = [open EXCEPT ![p.course] = open[p.course] \ {p.slot}]
    <3>1. /\ p.slot \notin open'[p.course] /\ \A d \in Courses : open'[d] \subseteq open[d]
      BY <1>1, <1>4, <2>3 DEF EngTypeOK
    <3>2. \A x \in held : x.course \in Courses  BY <1>1 DEF EngTypeOK, Reservations
    <3>3. p.course \notin due  BY <1>1, <2>3 DEF SheetOK
    <3>4. \A x \in held' : x.slot \notin open'[x.course]
      BY <1>1, <1>5, <2>3, <3>1, <3>2 DEF SheetOK
    <3>5. \A x, y \in held' : x.course = y.course /\ x.slot = y.slot => x = y
      BY <1>1, <1>5, <2>1, <2>3 DEF SheetOK
    <3>6. \A d \in due' : open'[d] = {} /\ \A x \in held' : x.course # d
      BY <1>1, <1>2, <1>5, <2>3, <3>1, <3>3 DEF SheetOK, EngTypeOK
    <3> QED  BY <2>1, <3>4, <3>5, <3>6 DEF SheetOK
  <2> QED  BY <1>3, <2>2, <2>3
<1>11. HeardOK'
  <2>1. heard[p] # "booked" /\ heard[p] # "gone"  BY <1>1, <1>2 DEF HeardOK
  <2> QED  BY <1>1, <1>2, <1>6, <1>7, <2>1 DEF HeardOK
<1>12. PlaceOK'  BY <1>1, <1>2 DEF PlaceOK
<1>13. ASSUME NEW q \in Posts, Mine(q)', q # p PROVE Mine(q)
  BY <1>2, <1>6, <1>13 DEF Mine, Kept
<1>14. ASSUME Mine(p)'
       PROVE  p.slot \in open[p.course] /\ held' = held \cup {x0}
  BY <1>1, <1>3, <1>14 DEF Mine, EngTypeOK
<1>15. MineHeld'
  <2>1. ASSUME NEW q \in Posts, Mine(q)' PROVE Reservation(q) \in held'
    <3>1. CASE q = p  BY <1>14, <2>1, <3>1 DEF x0
    <3>2. CASE q # p
      <4>1. Reservation(q) \in held  BY <1>1, <1>13, <2>1, <3>2 DEF MineHeld
      <4> QED  BY <1>3, <4>1
    <3> QED  BY <3>1, <3>2
  <2> QED  BY <2>1 DEF MineHeld, Reservation
<1>16. MineOne'
  <2>1. ASSUME NEW q \in Posts, Mine(q)', q # p, q.course = p.course, q.slot = p.slot, Mine(p)'
        PROVE  FALSE
    <3>1. Reservation(q) \in held  BY <1>1, <1>13, <2>1 DEF MineHeld
    <3>2. Reservation(q).course = p.course /\ Reservation(q).slot = p.slot  BY <2>1 DEF Reservation
    <3> QED  BY <1>10, <1>14, <2>1, <3>1, <3>2
  <2>2. ASSUME NEW q \in Posts, NEW z \in Posts, Mine(q)', Mine(z)', q.course = z.course, q.slot = z.slot
        PROVE  q = z
    <3>1. CASE q # p /\ z # p  BY <1>1, <1>13, <2>2, <3>1 DEF MineOne
    <3>2. CASE q = p \/ z = p  BY <2>1, <2>2, <3>2
    <3> QED  BY <3>1, <3>2
  <2> QED  BY <2>2 DEF MineOne
<1>17. FreshOK'
  <2>1. ~Early(p.run) /\ (p.how = "seq" => run[p.run].at \notin {"burst", "settle", "reguard"})
        /\ (p.how = "blind" => p.course = 1)
    BY <1>1, <1>2 DEF FreshOK
  <2>2. \A q \in Posts : Early(q.run)' <=> Early(q.run)  BY <1>2 DEF Early
  <2> QED  BY <1>1, <1>2, <1>6, <2>1, <2>2 DEF FreshOK
<1>18. WaitOK'
  <2>1. ASSUME NEW q \in Posts
        PROVE  served'[q] # "unsent" => served[q] # "unsent"
    BY <1>2, <1>6
  <2> QED  BY <1>1, <1>2, <1>8, <2>1 DEF WaitOK, Posts
<1>19. ReportOK' /\ KeeperOK'
  BY <1>1, <1>2 DEF ReportOK, KeeperOK, Booked, Backed, Kept
<1>20. SurplusOK'
  <2>1. \A q \in Posts : served[q] = "landed" => served'[q] = "landed"  BY <1>2, <1>6
  <2> QED  BY <1>1, <1>2, <2>1, SurplusPost DEF SurplusOK, Booked, BlindPost
<1> QED  BY <1>9, <1>10, <1>11, <1>12, <1>15, <1>16, <1>17, <1>18, <1>19, <1>20 DEF EngInv

LEMMA HearKeeps ==
    ASSUME EngInv, NEW p \in Posts, Hear(p)
    PROVE  EngInv'
<1>1. /\ EngTypeOK /\ SheetOK /\ HeardOK /\ MineHeld /\ MineOne /\ PlaceOK /\ FreshOK
      /\ WaitOK /\ ReportOK /\ SurplusOK /\ KeeperOK
  BY DEF EngInv
<1>2. /\ open' = open /\ due' = due /\ held' = held /\ lock' = lock /\ terminal' = terminal
      /\ run' = run /\ served' = served
      /\ served[p] # "unsent" /\ heard[p] = "no" /\ run[p.run].at \in {"burst", "book"}
  BY DEF Hear, Awaited, store, server
<1>3. \E v \in {"booked", "gone", "busy", "lost", "died"} :
          /\ heard' = [heard EXCEPT ![p] = v]
          /\ v = "booked" => served[p] = "landed"
          /\ v = "gone" => served[p] = "refused"
  BY DEF Hear, Meaning
<1>4. PICK v \in {"booked", "gone", "busy", "lost", "died"} :
          /\ heard' = [heard EXCEPT ![p] = v]
          /\ v = "booked" => served[p] = "landed"
          /\ v = "gone" => served[p] = "refused"
  BY <1>3
<1>5. heard'[p] = v /\ \A q \in Posts : q # p => heard'[q] = heard[q]
  BY <1>1, <1>4 DEF EngTypeOK
<1>6. \A q \in Runs : SeqPost(q)' = SeqPost(q)  BY <1>2 DEF SeqPost
<1>7. p.run \in Runs /\ (run[p.run].at = "book" => p = SeqPost(p.run))
  BY <1>1, <1>2 DEF WaitOK, Posts
<1>8. EngTypeOK'
  <2>1. heard' \in [Posts -> {"no", "booked", "gone", "busy", "lost", "died"}]
    BY <1>1, <1>4 DEF EngTypeOK
  <2> QED  BY <1>1, <1>2, <2>1 DEF EngTypeOK
<1>9. SheetOK' /\ PlaceOK' /\ FreshOK'
  BY <1>1, <1>2 DEF SheetOK, PlaceOK, FreshOK, Early
<1>10. HeardOK'  BY <1>1, <1>2, <1>4, <1>5 DEF HeardOK
<1>11. ASSUME NEW q \in Posts, Mine(q)' PROVE Mine(q)
  <2>1. CASE q # p  BY <1>2, <1>5, <1>11, <2>1 DEF Mine, Kept
  <2>2. CASE q = p
    <3>1. run[p.run].at = "book" => p.how = "seq"  BY <1>7 DEF SeqPost
    <3> QED  BY <1>2, <1>11, <2>2, <3>1 DEF Mine
  <2> QED  BY <2>1, <2>2
<1>12. MineHeld' /\ MineOne'
  BY <1>1, <1>2, <1>11 DEF MineHeld, MineOne, Reservation
<1>13. WaitOK'
  <2>1. ASSUME NEW q \in Posts
        PROVE  /\ heard'[q] = "no" /\ served'[q] # "unsent" =>
                      /\ run'[q.run].at \notin {"enter", "settle", "reguard", "search"}
                      /\ run'[q.run].at = "book" => q = SeqPost(q.run)'
               /\ heard'[q] = "booked" =>
                      /\ run'[q.run].at \notin {"enter", "reguard", "search"}
                      /\ run'[q.run].at = "book" => q = SeqPost(q.run)'
    <3>1. q.run \in Runs  BY DEF Posts
    <3>2. CASE q = p  BY <1>2, <1>5, <1>6, <1>7, <3>2
    <3>3. CASE q # p  BY <1>1, <1>2, <1>5, <1>6, <3>1, <3>3 DEF WaitOK
    <3> QED  BY <3>2, <3>3
  <2> QED  BY <2>1 DEF WaitOK
<1>14. ReportOK'  BY <1>1, <1>2, <1>5 DEF ReportOK, Booked
<1>15. SurplusOK'  BY <1>1, <1>2 DEF SurplusOK, Booked, BlindPost
<1>16. KeeperOK'
  <2>1. \A q \in Posts : Kept(q) => Kept(q)'  BY <1>2, <1>5 DEF Kept
  <2> QED  BY <1>1, <1>2, <2>1 DEF KeeperOK, Booked, Backed
<1> QED  BY <1>8, <1>9, <1>10, <1>12, <1>13, <1>14, <1>15, <1>16 DEF EngInv

LEMMA CrashKeeps ==
    ASSUME EngInv, Crash
    PROVE  EngInv'
<1>1. /\ EngTypeOK /\ SheetOK /\ HeardOK /\ MineHeld /\ MineOne /\ PlaceOK /\ FreshOK
      /\ WaitOK /\ ReportOK /\ SurplusOK /\ KeeperOK
  BY DEF EngInv
<1>2. /\ open' = open /\ due' = due /\ held' = held /\ served' = served /\ heard' = heard
      /\ lock' = Free /\ terminal' = NoResult
      /\ run' = [r \in Runs |-> IF run[r].at \in Active THEN Over(run[r], "crashed") ELSE run[r]]
  BY DEF Crash, server, posts
<1>3. \A r \in Runs : run[r] \in RunStates  BY <1>1 DEF EngTypeOK
<1>4. ASSUME NEW r \in Runs
      PROVE  /\ run'[r] \in RunStates
             /\ \/ run[r].at \notin Active /\ run'[r] = run[r]
                \/ /\ run'[r].at = "crashed" /\ run'[r].result = run[r].result /\ run'[r].extras = {}
  <2>1. "crashed" \in Ended  BY DEF Ended
  <2> QED  BY <1>2, <1>3, <2>1, OverEffect
<1>5. EngTypeOK'
  <2>1. run' \in [Runs -> RunStates]  BY <1>2, <1>4
  <2> QED  BY <1>1, <1>2, <2>1 DEF EngTypeOK
<1>6. SheetOK' /\ HeardOK'  BY <1>1, <1>2 DEF SheetOK, HeardOK
<1>7. PlaceOK'  BY <1>1, <1>4 DEF PlaceOK, Active, Ats, Ended
<1>8. \A p \in Posts : (Mine(p)' => Mine(p)) /\ (Kept(p) => Kept(p)')
  BY <1>2, <1>4 DEF Mine, Kept, Posts
<1>9. MineHeld' /\ MineOne'  BY <1>1, <1>2, <1>8 DEF MineHeld, MineOne, Reservation
<1>10. FreshOK'  BY <1>1, <1>2, <1>4 DEF FreshOK, Early, Posts
<1>11. WaitOK'
  <2>1. ASSUME NEW p \in Posts, run'[p.run].at # "crashed"
        PROVE  run'[p.run] = run[p.run] /\ SeqPost(p.run)' = SeqPost(p.run)
    <3>1. run'[p.run] = run[p.run]  BY <1>4, <2>1 DEF Posts
    <3> QED  BY <3>1 DEF SeqPost
  <2> QED  BY <1>1, <1>2, <2>1 DEF WaitOK
<1>12. ReportOK'  BY <1>1, <1>2, <1>4 DEF ReportOK, Booked, Posts
<1>13. SurplusOK'  BY <1>1, <1>2, <1>4 DEF SurplusOK, Booked, BlindPost
<1>14. KeeperOK'
  <2>1. \A r \in Runs : run'[r].result = run[r].result  BY <1>4
  <2> QED  BY <1>1, <1>2, <1>8, <2>1 DEF KeeperOK, Booked, Backed
<1> QED  BY <1>5, <1>6, <1>7, <1>9, <1>10, <1>11, <1>12, <1>13, <1>14 DEF EngInv

LEMMA EngInvInit == BInit => EngInv
<1> SUFFICES ASSUME BInit PROVE EngInv
  OBVIOUS
<1>1. 1 \in Courses  BY EngineAssumption DEF Courses
<1>2. Idle \in RunStates /\ Idle.at = "idle" /\ Idle.k = 1 /\ Idle.extras = {} /\ Idle.result = NoResult
  BY <1>1 DEF Idle, RunStates, Ats
<1>3. \A r \in Runs : run[r] = Idle  BY DEF BInit
<1>4. EngTypeOK  BY <1>2 DEF BInit, EngTypeOK
<1>5. \A p \in Posts : served[p] = "unsent" /\ heard[p] = "no" /\ p.run \in Runs  BY DEF BInit, Posts
<1>6. SheetOK /\ HeardOK  BY <1>5 DEF BInit, SheetOK, HeardOK
<1>7. MineHeld /\ MineOne  BY <1>5 DEF MineHeld, MineOne, Mine
<1>8. PlaceOK  BY <1>2, <1>3 DEF PlaceOK
<1>9. FreshOK /\ WaitOK /\ ReportOK  BY <1>5 DEF FreshOK, WaitOK, ReportOK
<1>10. SurplusOK  BY <1>2, <1>3 DEF SurplusOK
<1>11. KeeperOK  BY <1>2, <1>3 DEF KeeperOK, Booked, BInit
<1> QED  BY <1>4, <1>6, <1>7, <1>8, <1>9, <1>10, <1>11 DEF EngInv

LEMMA EngInvNext == EngInv /\ [BNext]_vars => EngInv'
<1> SUFFICES ASSUME EngInv, [BNext]_vars PROVE EngInv'
  OBVIOUS
<1>1. CASE BNext
  <2>1. EngTypeOK /\ PlaceOK  BY DEF EngInv
  <2> QED  BY <1>1, <2>1, StepKinds, MovesKeep, FiresKeep, SendsKeep, CancelsKeep, ServeKeeps,
              HearKeeps, EnvironmentKeeps, CrashKeeps
<1>2. CASE UNCHANGED vars
  <2>1. /\ EngTypeOK /\ SheetOK
        /\ UNCHANGED <<posts, run, store>> /\ open' = open /\ due' = due /\ held' = held
    BY <1>2 DEF EngInv, vars, posts, store
  <2>2. SheetOK'  BY <2>1 DEF SheetOK
  <2> QED  BY <2>1, <2>2, ServerKeep DEF EngTypeOK
<1> QED  BY <1>1, <1>2

\* The states of the booking engine satisfy its invariant: what the servers hold,
\* what the POSTs are known to have done and where the runs stand agree.
THEOREM EngineInvariant == BSpec => []EngInv
<1> QED  BY EngInvInit, EngInvNext, PTL DEF BSpec

\* A BOOKED result names a reservation the account holds (_settle_blind_burst keeps the
\* best of a burst and cancels the others), for every number of courses, slots and
\* runs and under every fault, late POSTs included.
THEOREM ResultsAreLive == BSpec => []KeptIsLive
<1>1. ASSUME EngInv PROVE KeptIsLive
  <2>1. /\ MineHeld /\ HeardOK /\ KeeperOK  BY <1>1 DEF EngInv
  <2>2. ASSUME NEW r \in Runs, run[r].result # NoResult, run[r].result.outcome = "booked"
        PROVE  [course |-> run[r].result.course, slot |-> run[r].result.slot, by |-> "run"] \in held
    <3>1. Backed(run[r].result)  BY <2>1, <2>2 DEF KeeperOK, Booked
    <3>2. PICK p \in Posts : Kept(p) /\ run[r].result = Result("booked", p.course, p.slot)
      BY <3>1 DEF Backed
    <3>3. Mine(p)  BY <2>1, <3>2 DEF Mine, Kept, HeardOK
    <3>4. Reservation(p) \in held  BY <2>1, <3>3 DEF MineHeld
    <3> QED  BY <3>2, <3>4 DEF Reservation, Result
  <2> QED  BY <2>2 DEF KeptIsLive
<1> QED  BY <1>1, EngineInvariant, PTL

\* A run that ends in this process and heard a server confirm a reservation reports
\* one, the best of those it heard of (_fire_blind_burst, _book_candidates), whatever fails.
THEOREM NoBookingLost == BSpec => []NothingLost
<1>1. ASSUME EngInv PROVE NothingLost
  <2>1. ReportOK  BY <1>1 DEF EngInv
  <2> QED  BY <2>1 DEF ReportOK, NothingLost, Booked
<1> QED  BY <1>1, EngineInvariant, PTL

-----------------------------------------------------------------------------
(* One course, and a server that answers in time: no double booking.       *)

LockOne == \A r \in Runs : run[r].at \in Active => lock = r

ByRun == {x \in held : x.by = "run"}
NoneSeq == \A p \in Posts : p.how = "seq" => served[p] # "landed"

\* A sequential reservation is the only one the runs hold.
AloneOK ==
    \A p \in Posts : p.how = "seq" /\ served[p] = "landed" => \A x \in ByRun : x = Reservation(p)

\* What a run with a session has seen: all that the runs hold, before it sends a
\* POST; only what that POST got, after.
SeqUnsent(r) == \A p \in Posts : p.run = r /\ p.how = "seq" => served[p] = "unsent"
CoverOK ==
    \A r \in Runs :
        /\ run[r].at \in {"idle", "prewarm"} => run[r].logged = {}
        /\ run[r].at = "enter" /\ 1 \in Cached /\ 1 \in run[r].logged => ByRun \subseteq run[r].cache[1]
        /\ run[r].at = "search" => SeqUnsent(r) /\ (1 \in run[r].logged => ByRun = {})
        /\ run[r].at = "book" =>
              IF 1 \in run[r].logged
              THEN \A x \in ByRun : served[SeqPost(r)] = "landed" /\ x = Reservation(SeqPost(r))
              ELSE SeqUnsent(r)
        /\ run[r].at = "burst" /\ (\E p \in Posts : p.run = r /\ served[p] = "sent") => NoneSeq

OneCourse == NCourses = 1 /\ "late" \notin Faults /\ "opaque" \notin Faults
OnceInv == EngInv /\ LockOne /\ AloneOK /\ CoverOK

\* What a step of a run makes it see.
Sees(r) ==
    /\ run'[r].at = "prewarm" => run'[r].logged = {}
    /\ run'[r].at = "enter" /\ 1 \in Cached /\ 1 \in run'[r].logged => ByRun \subseteq run'[r].cache[1]
    /\ run'[r].at = "search" /\ 1 \in run'[r].logged => ByRun = {}
    /\ run'[r].at = "book" => run'[r].logged = run[r].logged
    /\ run'[r].at = "burst" /\ (\E p \in Posts : p.run = r /\ served'[p] = "sent") => ByRun = {}

\* With one course every reservation is at the first.
LEMMA FirstCourse ==
    ASSUME OneCourse, EngTypeOK
    PROVE  /\ Courses = {1} /\ ByRun \subseteq Live(1) /\ \A r \in Runs : run[r].k = 1
           /\ \A me \in RunStates : NextCourse(me) = Record(me, Result("none", 0, 0))
<1>1. Courses = {1}  BY DEF OneCourse, Courses
<1>2. \A x \in held : x.course = 1  BY <1>1 DEF EngTypeOK, Reservations
<1>3. ByRun \subseteq Live(1)  BY <1>2 DEF ByRun, Live
<1>4. \A r \in Runs : run[r].k = 1  BY <1>1 DEF EngTypeOK, RunStates
<1>5. \A me \in RunStates : NextCourse(me) = Record(me, Result("none", 0, 0))
  BY <1>1 DEF NextCourse, RunStates, OneCourse
<1> QED  BY <1>1, <1>3, <1>4, <1>5

\* A list without a reservation of this party, as seen by a fresh login.
LEMMA ListedNone ==
    ASSUME OneCourse, EngTypeOK, NEW m, Listed(m, 1) = {},
           1 \notin Cached \/ ByRun \subseteq m.cache[1]
    PROVE  ByRun = {}
<1>1. \A x \in ByRun : x.by = "run"  BY DEF ByRun
<1>2. CASE 1 \notin Cached
  <2>1. \A x \in Live(1) : x.by = "odd"  BY <1>2 DEF Listed
  <2> QED  BY <1>1, <2>1, FirstCourse
<1>3. CASE 1 \in Cached
  <2>1. \A x \in m.cache[1] : x.by = "odd"  BY <1>3 DEF Listed
  <2> QED  BY <1>1, <1>3, <2>1
<1> QED  BY <1>2, <1>3

\* A login that leaves a session leaves a fresh list.
LEMMA LoginSees ==
    ASSUME OneCourse, EngTypeOK, NEW me \in RunStates, NEW m \in Login(me, 1), 1 \in m.logged,
           1 \in Cached /\ 1 \in me.logged => ByRun \subseteq me.cache[1]
    PROVE  1 \notin Cached \/ ByRun \subseteq m.cache[1]
<1>1. 1 \in Courses /\ held \subseteq Reservations  BY FirstCourse DEF EngTypeOK
<1>2. \/ 1 \in Cached /\ 1 \in me.logged /\ m = me
      \/ 1 \in m.logged /\ m.cache[1] = Live(1)
      \/ 1 \in Cached /\ 1 \notin me.logged /\ m.logged = me.logged /\ m.cache[1] = {}
  BY <1>1, LoginEffect DEF OneCourse
<1> QED  BY <1>2, FirstCourse

LEMMA PrewarmSees ==
    ASSUME OneCourse, EngTypeOK, CoverOK, NEW r \in Runs, Prewarm(r)
    PROVE  Sees(r)
<1> DEFINE me == run[r]
<1>1. me \in RunStates /\ me.at = "prewarm" /\ me.logged = {} /\ run \in [Runs -> RunStates]
  BY Zenon DEF EngTypeOK, CoverOK, Prewarm
<1>2. \/ \E m \in Login(me, 1) :
            LET warm == [m EXCEPT !.warm = 1 \in m.logged] IN
            run' = [run EXCEPT ![r] = IF warm.warm /\ Listed(warm, 1) # {}
                                      THEN Already(warm, 1) ELSE [warm EXCEPT !.at = "enter"]]
      \/ run' = [run EXCEPT ![r] = [me EXCEPT !.at = "enter"]]
      \/ /\ 1 \notin Cached
         /\ \E m \in Login([me EXCEPT !.warm = TRUE], 1) : run' = [run EXCEPT ![r] = [m EXCEPT !.at = "enter"]]
  <2>1. \A x : x \in {y \in Login([me EXCEPT !.warm = TRUE], 1) : 1 \notin Cached} =>
              1 \notin Cached /\ x \in Login([me EXCEPT !.warm = TRUE], 1)
    OBVIOUS
  <2> QED  BY <2>1, Zenon DEF Prewarm, Become
<1> HIDE DEF me
<1>3. CASE \E m \in Login(me, 1) :
            LET warm == [m EXCEPT !.warm = 1 \in m.logged] IN
            run' = [run EXCEPT ![r] = IF warm.warm /\ Listed(warm, 1) # {}
                                      THEN Already(warm, 1) ELSE [warm EXCEPT !.at = "enter"]]
  <2>1. PICK m \in Login(me, 1), w \in BOOLEAN :
            \/ run' = [run EXCEPT ![r] = Already([m EXCEPT !.warm = w], 1)]
            \/ run' = [run EXCEPT ![r] = [[m EXCEPT !.warm = w] EXCEPT !.at = "enter"]]
    <3>1. PICK m \in Login(me, 1) :
            \/ run' = [run EXCEPT ![r] = Already([m EXCEPT !.warm = 1 \in m.logged], 1)]
            \/ run' = [run EXCEPT ![r] = [[m EXCEPT !.warm = 1 \in m.logged] EXCEPT !.at = "enter"]]
      BY <1>3, Zenon
    <3>2. (1 \in m.logged) \in BOOLEAN  OBVIOUS
    <3> QED  BY <3>1, <3>2, Zenon
  <2>2. m \in RunStates  BY <1>1, LoginEffect, FirstCourse DEF EngTypeOK
  <2>3. run'[r] = Already([m EXCEPT !.warm = w], 1) \/ run'[r] = [[m EXCEPT !.warm = w] EXCEPT !.at = "enter"]
    BY <1>1, <2>1
  <2>4. \/ run'[r].at = "record"
        \/ run'[r].at = "enter" /\ run'[r].logged = m.logged /\ run'[r].cache = m.cache
    BY <2>2, <2>3 DEF Already, Record, RunStates
  <2>5. 1 \in m.logged => 1 \notin Cached \/ ByRun \subseteq m.cache[1]  BY <1>1, LoginSees
  <2> QED  BY <2>4, <2>5 DEF Sees
<1>4. CASE run' = [run EXCEPT ![r] = [me EXCEPT !.at = "enter"]]
  <2>1. run'[r].at = "enter" /\ run'[r].logged = {}  BY <1>1, <1>4 DEF RunStates
  <2> QED  BY <2>1 DEF Sees
<1>5. CASE /\ 1 \notin Cached
           /\ \E m \in Login([me EXCEPT !.warm = TRUE], 1) : run' = [run EXCEPT ![r] = [m EXCEPT !.at = "enter"]]
  <2>1. PICK m \in Login([me EXCEPT !.warm = TRUE], 1) : run' = [run EXCEPT ![r] = [m EXCEPT !.at = "enter"]]
    BY <1>5
  <2>2. [me EXCEPT !.warm = TRUE] \in RunStates  BY <1>1 DEF RunStates
  <2>3. m \in RunStates  BY <2>2, LoginEffect, FirstCourse DEF EngTypeOK
  <2>4. run'[r].at = "enter"  BY <1>1, <2>1, <2>3 DEF RunStates
  <2> QED  BY <1>5, <2>4 DEF Sees
<1> QED  BY <1>2, <1>3, <1>4, <1>5

LEMMA EnterSees ==
    ASSUME OneCourse, EngTypeOK, CoverOK, HeardOK, FreshOK, NEW r \in Runs, Enter(r)
    PROVE  Sees(r)
<1> DEFINE From == IF run[r].k = 1 /\ run[r].warm THEN {run[r]} ELSE Login(run[r], run[r].k)
<1>1. run[r] \in RunStates /\ run \in [Runs -> RunStates] /\ run[r].k = 1 /\ run[r].at = "enter"
      /\ held \subseteq Reservations
  BY FirstCourse DEF EngTypeOK, Enter
<1>2. 1 \in Cached /\ 1 \in run[r].logged => ByRun \subseteq run[r].cache[1]
  BY <1>1 DEF CoverOK
<1>3. ASSUME NEW m \in From, Listed(m, 1) = {}, 1 \in m.logged PROVE ByRun = {}
  <2>1. CASE m = run[r]  BY <1>2, <1>3, <2>1, ListedNone
  <2>2. CASE m \in Login(run[r], 1)  BY <1>1, <1>2, <1>3, <2>2, LoginSees, ListedNone
  <2> QED  BY <1>1, <1>3, <2>1, <2>2
<1>4. ASSUME NEW m \in From PROVE m \in RunStates
  BY <1>1, <1>4, LoginEffect, FirstCourse
<1>5. \/ \E m \in From : run' = [run EXCEPT ![r] = Already(m, 1)]
      \/ \E m \in From : Listed(m, 1) = {} /\ Fire(r, m)
      \/ \E m \in From : Listed(m, 1) = {} /\ run' = [run EXCEPT ![r] = [m EXCEPT !.at = "search"]]
      \/ Fail(r)
      \/ run' = [run EXCEPT ![r] = NextCourse(run[r])]
  BY <1>1, Zenon DEF Enter, Become
<1> HIDE DEF From
<1>6. CASE \E m \in From : run' = [run EXCEPT ![r] = Already(m, 1)]
  <2>1. PICK m \in From : run' = [run EXCEPT ![r] = Already(m, 1)]  BY <1>6
  <2>2. run'[r].at = "record"  BY <1>1, <1>4, <2>1 DEF Already, Record, RunStates
  <2> QED  BY <2>2 DEF Sees
<1>7. CASE \E m \in From : Listed(m, 1) = {} /\ Fire(r, m)
  <2>1. PICK m \in From : Listed(m, 1) = {} /\ Fire(r, m)  BY <1>7
  <2>2. run'[r].at = "burst"  BY <1>1, <1>4, <2>1 DEF Fire, Become, RunStates
  <2>3. ASSUME NEW p \in Posts, p.run = r, served'[p] = "sent" PROVE ByRun = {}
    <3>1. served[p] = "unsent"  BY <1>1, <2>3 DEF FreshOK, Early
    <3>2. ASSUME 1 \notin m.logged PROVE FALSE
      <4> DEFINE fire(k) == {BlindPost(r, s) : s \in {x \in Slots : x <= k}}
                 void(k, u) == {q \in fire(k) : q.slot \in u}
      <4>1. PICK k \in 0..MaxBlind, u \in SUBSET Slots :
               /\ u = Slots
               /\ served' = [q \in Posts |-> IF q \in void(k, u) THEN "void"
                                             ELSE IF q \in fire(k) THEN "sent" ELSE served[q]]
        BY <2>1, <3>2, Zenon DEF Fire
      <4>2. p \in fire(k) => p \in void(k, u)  BY <4>1 DEF BlindPost
      <4> QED  BY <2>3, <3>1, <4>1, <4>2
    <3> QED  BY <1>3, <2>1, <3>2
  <2> QED  BY <2>2, <2>3 DEF Sees
<1>8. CASE \E m \in From : Listed(m, 1) = {} /\ run' = [run EXCEPT ![r] = [m EXCEPT !.at = "search"]]
  <2>1. PICK m \in From : Listed(m, 1) = {} /\ run' = [run EXCEPT ![r] = [m EXCEPT !.at = "search"]]
    BY <1>8
  <2>2. run'[r].at = "search" /\ run'[r].logged = m.logged
    BY <1>1, <1>4, <2>1 DEF RunStates
  <2> QED  BY <1>3, <2>1, <2>2 DEF Sees
<1>9. CASE Fail(r)
  <2>1. run'[r] = Over(run[r], "failed")  BY <1>1, <1>9 DEF Fail, Become
  <2>2. run'[r].at = "failed"  BY <1>1, <2>1, OverEffect DEF Ended
  <2> QED  BY <2>2 DEF Sees
<1>10. CASE run' = [run EXCEPT ![r] = NextCourse(run[r])]
  <2>1. run'[r].at = "record"  BY <1>1, <1>10, FirstCourse DEF Record, RunStates
  <2> QED  BY <2>1 DEF Sees
<1> QED  BY <1>5, <1>6, <1>7, <1>8, <1>9, <1>10

LEMMA ReguardSees ==
    ASSUME OneCourse, EngTypeOK, NEW r \in Runs, Reguard(r)
    PROVE  Sees(r)
<1> DEFINE fresh == [run[r] EXCEPT !.logged = @ \ {1}]
<1>1. run[r] \in RunStates /\ run \in [Runs -> RunStates] /\ run[r].k = 1 /\ held \subseteq Reservations
  BY FirstCourse DEF EngTypeOK
<1>2. fresh \in RunStates /\ 1 \notin fresh.logged  BY <1>1 DEF RunStates
<1>3. \/ \E m \in Login(fresh, 1) : run' = [run EXCEPT ![r] = Already(m, 1)]
      \/ \E m \in Login(fresh, 1) : Listed(m, 1) = {} /\ run' = [run EXCEPT ![r] = [m EXCEPT !.at = "search"]]
      \/ run' = [run EXCEPT ![r] = NextCourse(fresh)]
  BY <1>1, Zenon DEF Reguard, Become, Refreshed
<1> HIDE DEF fresh
<1>4. \A m \in Login(fresh, 1) : m \in RunStates  BY <1>1, <1>2, LoginEffect, FirstCourse
<1>5. CASE \E m \in Login(fresh, 1) : run' = [run EXCEPT ![r] = Already(m, 1)]
  <2>1. PICK m \in Login(fresh, 1) : run' = [run EXCEPT ![r] = Already(m, 1)]  BY <1>5
  <2>2. run'[r].at = "record"  BY <1>1, <1>4, <2>1 DEF Already, Record, RunStates
  <2> QED  BY <2>2 DEF Sees
<1>6. CASE \E m \in Login(fresh, 1) : Listed(m, 1) = {} /\ run' = [run EXCEPT ![r] = [m EXCEPT !.at = "search"]]
  <2>1. PICK m \in Login(fresh, 1) : Listed(m, 1) = {} /\ run' = [run EXCEPT ![r] = [m EXCEPT !.at = "search"]]
    BY <1>6
  <2>2. run'[r].at = "search" /\ run'[r].logged = m.logged
    BY <1>1, <1>4, <2>1 DEF RunStates
  <2>3. 1 \in m.logged => 1 \notin Cached \/ ByRun \subseteq m.cache[1]  BY <1>2, <2>1, LoginSees
  <2>4. Listed(m, 1) = {}  BY <2>1
  <2>5. ASSUME 1 \in m.logged PROVE ByRun = {}
    <3>1. 1 \notin Cached \/ ByRun \subseteq m.cache[1]  BY <2>3, <2>5
    <3> QED  BY <2>4, <3>1, ListedNone
  <2> QED  BY <2>2, <2>5 DEF Sees
<1>7. CASE run' = [run EXCEPT ![r] = NextCourse(fresh)]
  <2>1. NextCourse(fresh) = Record(fresh, Result("none", 0, 0))  BY <1>2, FirstCourse, Zenon
  <2>2. NextCourse(fresh).at = "record"
    <3>1. Result("none", 0, 0) \in Results  BY ResultTypes
    <3> QED  BY <1>2, <2>1, <3>1, RecordEffect
  <2>3. run'[r] = NextCourse(fresh)  BY <1>1, <1>7
  <2> QED  BY <2>2, <2>3 DEF Sees
<1> QED  BY <1>3, <1>5, <1>6, <1>7

LEMMA SearchSees ==
    ASSUME OneCourse, EngTypeOK, CoverOK, NEW r \in Runs, Search(r)
    PROVE  Sees(r)
<1> DEFINE me == run[r]
<1>1. me \in RunStates /\ run \in [Runs -> RunStates] /\ me.k = 1  BY FirstCourse DEF EngTypeOK
<1>2. me.at = "search"  BY Zenon DEF Search
<1>3. \/ run' = [run EXCEPT ![r] = Record(me, Result("dry", 1, Best(open[1])))]
      \/ run' = [run EXCEPT ![r] = [me EXCEPT !.at = "book", !.todo = open[1]]]
      \/ run' = [run EXCEPT ![r] = Polled(me)]
      \/ run' = [run EXCEPT ![r] = NextCourse(me)]
      \/ run' = [run EXCEPT ![r] = Over(me, "failed")]
  BY <1>1, Zenon DEF Search, Become, Fail
<1>4. 1 \in me.logged => ByRun = {}  BY <1>2 DEF CoverOK
<1> HIDE DEF me
<1>5. \/ run'[r].at \in {"record", "failed"}
      \/ run'[r].at = "book" /\ run'[r].logged = me.logged
      \/ run'[r].at = "search" /\ run'[r].logged = me.logged
  <2>1. CASE run' = [run EXCEPT ![r] = Record(me, Result("dry", 1, Best(open[1])))]
    BY <1>1, <2>1 DEF Record, RunStates
  <2>2. CASE run' = [run EXCEPT ![r] = [me EXCEPT !.at = "book", !.todo = open[1]]]
    BY <1>1, <2>2 DEF RunStates
  <2>3. CASE run' = [run EXCEPT ![r] = Polled(me)]
    BY <1>1, <1>2, <2>3 DEF Polled, RunStates
  <2>4. CASE run' = [run EXCEPT ![r] = NextCourse(me)]
    BY <1>1, <2>4, FirstCourse DEF Record, RunStates
  <2>5. CASE run' = [run EXCEPT ![r] = Over(me, "failed")]
    BY <1>1, <2>5, OverEffect DEF Ended
  <2> QED  BY <1>3, <2>1, <2>2, <2>3, <2>4, <2>5
<1> QED  BY <1>4, <1>5 DEF Sees, me

LEMMA OutcomeSees ==
    ASSUME OneCourse, EngTypeOK, NEW r \in Runs, Outcome(r)
    PROVE  Sees(r)
<1> DEFINE me == run[r]
           p == SeqPost(r)
           left == me.todo \ {p.slot}
<1>1. me \in RunStates /\ run \in [Runs -> RunStates] /\ me.k = 1  BY FirstCourse DEF EngTypeOK
<1>2. me.at = "book"  BY Zenon DEF Outcome
<1>3. \/ run' = [run EXCEPT ![r] = Record(me, Result("booked", me.k, p.slot))]
      \/ run' = [run EXCEPT ![r] = [me EXCEPT !.todo = left]]
      \/ run' = [run EXCEPT ![r] = NextCourse(me)]
      \/ run' = [run EXCEPT ![r] = Over(me, "failed")]
  BY Zenon DEF Outcome, Become, Fail
<1> HIDE DEF me, p, left
<1>4. \/ run'[r].at \in {"record", "failed"}
      \/ run'[r].at = "book" /\ run'[r].logged = me.logged
  <2>1. CASE run' = [run EXCEPT ![r] = Record(me, Result("booked", me.k, p.slot))]
    BY <1>1, <2>1 DEF Record, RunStates
  <2>2. CASE run' = [run EXCEPT ![r] = [me EXCEPT !.todo = left]]
    BY <1>1, <1>2, <2>2 DEF RunStates
  <2>3. CASE run' = [run EXCEPT ![r] = NextCourse(me)]
    BY <1>1, <2>3, FirstCourse DEF Record, RunStates
  <2>4. CASE run' = [run EXCEPT ![r] = Over(me, "failed")]
    BY <1>1, <2>4, OverEffect DEF Ended
  <2> QED  BY <1>3, <2>1, <2>2, <2>3, <2>4
<1> QED  BY <1>4 DEF Sees, me

LEMMA BeginSees ==
    ASSUME EngTypeOK, CoverOK, NEW r \in Runs, Begin(r)
    PROVE  Sees(r)
<1> DEFINE me == run[r]
<1>0. me.at = "idle"  BY Zenon DEF Begin
<1>1. me \in RunStates /\ run \in [Runs -> RunStates] /\ me.at = "idle" /\ me.logged = {}
  BY <1>0 DEF EngTypeOK, CoverOK
<1>2. \/ run' = [run EXCEPT ![r] = [me EXCEPT !.at = "refused"]]
      \/ run' = [run EXCEPT ![r] = [me EXCEPT !.at = "done", !.result = terminal]]
      \/ \E dry \in BOOLEAN, at \in {"prewarm", "enter"} :
            run' = [run EXCEPT ![r] = [me EXCEPT !.at = at, !.dry = dry]]
  <2>1. \A x : x \in {FALSE} \cup {y \in {TRUE} : r \in Dry} => x \in BOOLEAN  OBVIOUS
  <2> QED  BY <2>1, Zenon DEF Begin, Become
<1> HIDE DEF me
<1>3. \/ run'[r].at \in {"refused", "done"}
      \/ run'[r].at \in {"prewarm", "enter"} /\ run'[r].logged = {}
  <2>1. CASE run' = [run EXCEPT ![r] = [me EXCEPT !.at = "refused"]]
    BY <1>1, <2>1 DEF RunStates
  <2>2. CASE run' = [run EXCEPT ![r] = [me EXCEPT !.at = "done", !.result = terminal]]
    BY <1>1, <2>2 DEF RunStates
  <2>3. ASSUME NEW dry \in BOOLEAN, NEW at \in {"prewarm", "enter"},
               run' = [run EXCEPT ![r] = [me EXCEPT !.at = at, !.dry = dry]]
        PROVE  run'[r].at \in {"prewarm", "enter"} /\ run'[r].logged = {}
    <3>1. run'[r] = [me EXCEPT !.at = at, !.dry = dry]  BY <1>1, <2>3
    <3> QED  BY <1>1, <3>1 DEF RunStates
  <2> QED  BY <1>2, <2>1, <2>2, <2>3, Zenon
<1> QED  BY <1>3 DEF Sees

\* Every step of a run that sends nothing, and the burst.
LEMMA RunSees ==
    ASSUME OneCourse, EngTypeOK, PlaceOK, CoverOK, HeardOK, FreshOK, NEW r \in Runs,
           Begin(r) \/ RunStep(r)
    PROVE  Sees(r) \/ Sends(r) \/ \E s \in Slots : CancelExtra(r, s)
<1>1. ASSUME NEW n \in RunStates, Moves(r, n), run[r].at \in {"burst", "settle", "record", "book"},
             n.at # "book"
      PROVE  Sees(r)
  <2>1. run'[r] = n  BY <1>1 DEF Moves, EngTypeOK
  <2>2. n.at \in {"settle", "reguard", "record", "done", "failed"} \/ GoesOn(r, n)
    BY <1>1 DEF Moves, Tries, Gathers, Fails, Begins, Finishes, Misses
  <2>3. ~GoesOn(r, n)
    <3>1. n.k = 1 /\ run[r].k = 1  BY FirstCourse DEF RunStates
    <3> QED  BY <3>1 DEF GoesOn
  <2> QED  BY <2>1, <2>2, <2>3 DEF Sees
<1>2. ASSUME Gather(r) \/ Settled(r) \/ Finish(r) PROVE Sees(r)
  <2>1. run[r].at \in {"burst", "settle", "record"}  BY <1>2, Zenon DEF Gather, Settled, Finish
  <2>2. PICK n \in RunStates : Moves(r, n)  BY <1>2, GatherMoves, SettledMoves, FinishMoves
  <2>3. n.at # "book"  BY <2>1, <2>2 DEF Moves, Tries, Gathers, Fails, Begins, Finishes, Misses
  <2> QED  BY <1>1, <2>1, <2>2, <2>3
<1>3. ASSUME Post(r) PROVE Sees(r) \/ Sends(r)
  <2>1. Sends(r) \/ Fail(r)  BY <1>3 DEF Post, Sends, server, store
  <2>2. ASSUME Fail(r) PROVE Sees(r)
    <3>1. run'[r] = Over(run[r], "failed") /\ run[r] \in RunStates  BY <2>2 DEF Fail, Become, EngTypeOK
    <3>2. run'[r].at = "failed"  BY <3>1, OverEffect DEF Ended
    <3> QED  BY <3>2 DEF Sees
  <2> QED  BY <2>1, <2>2
<1> QED  BY <1>2, <1>3, PrewarmSees, EnterSees, ReguardSees, SearchSees, OutcomeSees, BeginSees, Zenon DEF RunStep

\* What of OnceInv speaks of the posts and the runs, and never of what was heard.
LEMMA OnceStays ==
    ASSUME OnceInv, UNCHANGED <<served, run, lock>>, ByRun' \subseteq ByRun
    PROVE  LockOne' /\ AloneOK' /\ CoverOK'
<1>1. LockOne /\ AloneOK /\ CoverOK  BY DEF OnceInv
<1>2. LockOne'  BY <1>1 DEF LockOne
<1>3. AloneOK'  BY <1>1 DEF AloneOK, Reservation
<1>4. \A r \in Runs : SeqPost(r)' = SeqPost(r) /\ (SeqUnsent(r)' <=> SeqUnsent(r))
  BY DEF SeqPost, SeqUnsent
<1>5. NoneSeq' <=> NoneSeq  BY DEF NoneSeq
<1>6. CoverOK'  BY <1>1, <1>4, <1>5 DEF CoverOK, Reservation
<1> QED  BY <1>2, <1>3, <1>6

\* A run's step that sees what it should, and sends nothing outside a burst.
LEMMA SeesKeep ==
    ASSUME OneCourse, OnceInv, NEW r \in Runs, NEW n \in RunStates, Sees(r),
           Moves(r, n) \/ Fires(r, n)
    PROVE  LockOne' /\ AloneOK' /\ CoverOK'
<1>1. EngTypeOK /\ FreshOK /\ HeardOK /\ MineHeld /\ LockOne /\ AloneOK /\ CoverOK
  BY DEF OnceInv, EngInv
<1>2. held' = held /\ run' = [run EXCEPT ![r] = n]  BY DEF Moves, Fires, server
<1>3. run'[r] = n /\ \A q \in Runs : q # r => run'[q] = run[q]
  BY <1>1, <1>2 DEF EngTypeOK
<1>4. ByRun' = ByRun  BY <1>2 DEF ByRun
<1>5. \A p \in Posts :
          \/ served'[p] = served[p]
          \/ p.run = r /\ p.how = "blind" /\ served'[p] \in {"sent", "void"} /\ served[p] # "landed"
  <2>1. CASE Moves(r, n)  BY <2>1 DEF Moves, posts
  <2>2. CASE Fires(r, n)
    <3>1. \A p \in Posts : p.run = r => served[p] = "unsent"  BY <1>1, <2>2 DEF Fires, FreshOK, Early
    <3> QED  BY <2>2, <3>1 DEF Fires
  <2> QED  BY <2>1, <2>2
<1>6. (NoneSeq' <=> NoneSeq) /\ \A q \in Runs : SeqUnsent(q)' <=> SeqUnsent(q)
  BY <1>5 DEF NoneSeq, SeqUnsent
<1>7. AloneOK'  BY <1>1, <1>4, <1>5 DEF AloneOK, Reservation
<1>8. LockOne'
  <2>1. ASSUME NEW q \in Runs, run'[q].at \in Active PROVE lock' = q
    <3>1. run[r].at \in Active => \A z \in Runs : run[z].at \in Active => z = r  BY <1>1 DEF LockOne
    <3>2. run[r].at = "idle" /\ lock = Free => \A z \in Runs : run[z].at \notin Active
      BY <1>1, EngineAssumption DEF LockOne
    <3>3. CASE /\ Begins(r, n)
               /\ \/ n.at \in {"refused", "done"} /\ lock' = lock
                  \/ n.at \in {"prewarm", "enter"} /\ lock = Free /\ lock' = r
      BY <1>1, <1>3, <2>1, <3>2, <3>3 DEF Begins, LockOne, Active, Ats, Ended
    <3>4. CASE (Fails(r, n) \/ Finishes(r, n)) /\ lock' = Free
      BY <1>3, <2>1, <3>1, <3>4 DEF Fails, Finishes, Active, Ats, Ended
    <3>5. CASE (Tries(r, n) \/ Gathers(r, n) \/ Fires(r, n)) /\ lock' = lock
      <4>1. run[r].at \in Active  BY <3>5 DEF Tries, Gathers, Fires, Active, Ats, Ended
      <4> QED  BY <1>1, <1>3, <2>1, <3>1, <3>5, <4>1 DEF LockOne
    <3> QED  BY <3>3, <3>4, <3>5 DEF Moves, Fires, store
  <2> QED  BY <2>1 DEF LockOne
<1>9. CoverOK'
  <2>1. ASSUME NEW q \in Runs, q # r
        PROVE  /\ run'[q].at \in {"idle", "prewarm"} => run'[q].logged = {}
               /\ run'[q].at = "enter" /\ 1 \in Cached /\ 1 \in run'[q].logged => ByRun' \subseteq run'[q].cache[1]
               /\ run'[q].at = "search" => SeqUnsent(q)' /\ (1 \in run'[q].logged => ByRun' = {})
               /\ run'[q].at = "book" =>
                    IF 1 \in run'[q].logged
                    THEN \A x \in ByRun' : served'[SeqPost(q)'] = "landed" /\ x = Reservation(SeqPost(q)')
                    ELSE SeqUnsent(q)'
               /\ run'[q].at = "burst" /\ (\E p \in Posts : p.run = q /\ served'[p] = "sent") => NoneSeq'
    <3>1. run'[q] = run[q]  BY <1>3, <2>1
    <3>2. SeqPost(q)' = SeqPost(q)  BY <3>1 DEF SeqPost
    <3>3. run[q].at = "book" => SeqPost(q) \in Posts /\ SeqPost(q).run = q
      BY SeqPostType DEF OnceInv, EngInv
    <3>4. run[q].at = "book" => served'[SeqPost(q)] = served[SeqPost(q)]  BY <1>5, <2>1, <3>3
    <3>5. \A p \in Posts : p.run = q => served'[p] = served[p]  BY <1>5, <2>1
    <3>6. run'[q].at = "book" =>
                    IF 1 \in run'[q].logged
                    THEN \A x \in ByRun' : served'[SeqPost(q)'] = "landed" /\ x = Reservation(SeqPost(q)')
                    ELSE SeqUnsent(q)'
      BY <1>1, <1>4, <1>6, <3>1, <3>2, <3>4 DEF CoverOK
    <3> QED  BY <1>1, <1>4, <1>6, <3>1, <3>5, <3>6 DEF CoverOK
  <2>2. n.at = "search" => SeqUnsent(r)'
    <3>1. ASSUME n.at = "search" PROVE Early(r) \/ run[r].at \in {"reguard", "search"}
      <4>1. run[r].k = 1  BY FirstCourse, <1>1
      <4>2. run[r].at \in {"enter", "reguard", "search"}
        BY <3>1 DEF Moves, Fires, Tries, Gathers, Fails, Begins, Finishes, Misses, GoesOn
      <4> QED  BY <4>1, <4>2 DEF Early
    <3>2. run[r].at = "search" => SeqUnsent(r)  BY <1>1 DEF CoverOK
    <3>3. Early(r) \/ run[r].at = "reguard" => SeqUnsent(r)  BY <1>1 DEF FreshOK, SeqUnsent
    <3> QED  BY <1>6, <3>1, <3>2, <3>3
  <2>3. ASSUME n.at = "book"
        PROVE  IF 1 \in n.logged THEN ByRun = {} ELSE SeqUnsent(r)
    <3>1. n.logged = run[r].logged  BY <1>3, <2>3 DEF Sees
    <3>2. run[r].at = "search" \/ (run[r].at = "book" /\ heard[SeqPost(r)] = "gone")
      BY <2>3 DEF Moves, Fires, Tries, Gathers, Fails, Begins, Finishes, Misses, GoesOn
    <3>3. CASE run[r].at = "search"  BY <1>1, <3>1, <3>3 DEF CoverOK
    <3>4. CASE run[r].at = "book" /\ heard[SeqPost(r)] = "gone"
      <4>1. SeqPost(r) \in Posts  BY <3>4, SeqPostType DEF OnceInv, EngInv
      <4>2. served[SeqPost(r)] # "landed"  BY <1>1, <3>4, <4>1 DEF HeardOK
      <4> QED  BY <1>1, <3>1, <3>4, <4>2 DEF CoverOK
    <3> QED  BY <3>2, <3>3, <3>4
  <2>4. n.at = "burst" /\ (\E p \in Posts : p.run = r /\ served'[p] = "sent") => NoneSeq'
    <3>1. ASSUME ByRun = {} PROVE NoneSeq
      <4>1. ASSUME NEW p \in Posts, p.how = "seq", served[p] = "landed" PROVE FALSE
        <5>1. Reservation(p) \in held  BY <1>1, <4>1 DEF MineHeld, Mine
        <5>2. Reservation(p).by = "run"  BY DEF Reservation
        <5> QED  BY <3>1, <5>1, <5>2 DEF ByRun
      <4> QED  BY <4>1 DEF NoneSeq
    <3> QED  BY <1>3, <1>6, <3>1 DEF Sees
  <2>5. n.at # "idle" /\ (n.at = "prewarm" => n.logged = {})
    <3>1. n.at # "idle"
      BY DEF Moves, Fires, Tries, Gathers, Fails, Begins, Finishes, Misses, GoesOn
    <3> QED  BY <1>3, <3>1 DEF Sees
  <2>6. n.at = "enter" /\ 1 \in Cached /\ 1 \in n.logged => ByRun \subseteq n.cache[1]
    BY <1>3 DEF Sees
  <2>7. n.at = "search" /\ 1 \in n.logged => ByRun = {}  BY <1>3 DEF Sees
  <2>8. /\ run'[r].at \in {"idle", "prewarm"} => run'[r].logged = {}
        /\ run'[r].at = "enter" /\ 1 \in Cached /\ 1 \in run'[r].logged => ByRun' \subseteq run'[r].cache[1]
        /\ run'[r].at = "search" => SeqUnsent(r)' /\ (1 \in run'[r].logged => ByRun' = {})
        /\ run'[r].at = "book" =>
             IF 1 \in run'[r].logged
             THEN \A x \in ByRun' : served'[SeqPost(r)'] = "landed" /\ x = Reservation(SeqPost(r)')
             ELSE SeqUnsent(r)'
        /\ run'[r].at = "burst" /\ (\E p \in Posts : p.run = r /\ served'[p] = "sent") => NoneSeq'
    BY <1>3, <1>4, <1>6, <2>2, <2>3, <2>4, <2>5, <2>6, <2>7
  <2> QED  BY <2>1, <2>8 DEF CoverOK, Reservation
<1> QED  BY <1>7, <1>8, <1>9

LEMMA SendsOnce ==
    ASSUME OneCourse, OnceInv, NEW r \in Runs, Sends(r)
    PROVE  LockOne' /\ AloneOK' /\ CoverOK'
<1> DEFINE sp == SeqPost(r)
<1>1. EngTypeOK /\ PlaceOK /\ LockOne /\ AloneOK /\ CoverOK  BY DEF OnceInv, EngInv
<1>2. /\ held' = held /\ run' = run /\ lock' = lock /\ run[r].at = "book" /\ run[r].k \in run[r].logged
      /\ served[sp] = "unsent" /\ served' = [served EXCEPT ![sp] = "sent"]
  BY DEF Sends, server, store
<1>3. sp \in Posts /\ sp.run = r /\ sp.how = "seq"  BY <1>1, <1>2, SeqPostType
<1>4. served'[sp] = "sent" /\ \A p \in Posts : p # sp => served'[p] = served[p]
  BY <1>1, <1>2, <1>3 DEF EngTypeOK
<1>5. 1 \in run[r].logged  BY <1>1, <1>2, FirstCourse
<1>6. ByRun' = ByRun /\ \A q \in Runs : SeqPost(q)' = SeqPost(q)  BY <1>2 DEF ByRun, SeqPost
<1>7. ByRun = {}
  <2>1. \A x \in ByRun : served[SeqPost(r)] = "landed"  BY <1>1, <1>2, <1>5 DEF CoverOK
  <2> QED  BY <1>2, <2>1
<1>8. \A q \in Runs : run[q].at = "book" => SeqPost(q).run = q  BY <1>1, SeqPostType
<1>9. \A q \in Runs : q # r => (SeqUnsent(q)' <=> SeqUnsent(q))
  BY <1>3, <1>4 DEF SeqUnsent
<1>10. NoneSeq' <=> NoneSeq  BY <1>2, <1>3, <1>4 DEF NoneSeq
<1>11. \A q \in Runs : q # r => \A p \in Posts : p.run = q => served'[p] = served[p]
  BY <1>3, <1>4
<1> HIDE DEF sp
<1>12. LockOne'  BY <1>1, <1>2 DEF LockOne
<1>13. AloneOK'  BY <1>6, <1>7 DEF AloneOK
<1>14. CoverOK'
  <2>1. \A q \in Runs : run[q].at = "book" /\ 1 \in run[q].logged => ByRun' = {}  BY <1>6, <1>7
  <2>2. \A q \in Runs : run[q].at = "book" /\ 1 \notin run[q].logged => SeqUnsent(q)'
    BY <1>1, <1>5, <1>9 DEF CoverOK
  <2>3. \A q \in Runs : run[q].at = "search" => SeqUnsent(q)'
    BY <1>1, <1>2, <1>9 DEF CoverOK
  <2>4. ASSUME NEW q \in Runs
        PROVE  /\ run'[q].at \in {"idle", "prewarm"} => run'[q].logged = {}
               /\ run'[q].at = "enter" /\ 1 \in Cached /\ 1 \in run'[q].logged => ByRun' \subseteq run'[q].cache[1]
               /\ run'[q].at = "search" => SeqUnsent(q)' /\ (1 \in run'[q].logged => ByRun' = {})
               /\ run'[q].at = "burst" /\ (\E p \in Posts : p.run = q /\ served'[p] = "sent") => NoneSeq'
    BY <1>1, <1>2, <1>6, <1>7, <1>10, <1>11, <2>3 DEF CoverOK
  <2> QED  BY <1>2, <2>1, <2>2, <2>4 DEF CoverOK
<1> QED  BY <1>12, <1>13, <1>14

LEMMA CancelsOnce ==
    ASSUME OnceInv, NEW r \in Runs, NEW s \in Slots, NEW n \in RunStates, Cancels(r, s, n)
    PROVE  LockOne' /\ AloneOK' /\ CoverOK'
<1>1. EngTypeOK /\ LockOne /\ AloneOK /\ CoverOK  BY DEF OnceInv, EngInv
<1>2. /\ held' \subseteq held /\ lock' = lock /\ served' = served /\ run[r].at = "settle"
      /\ run' = [run EXCEPT ![r] = n] /\ n.at = "settle"
  BY DEF Cancels, posts, store
<1>3. run'[r].at = "settle" /\ \A q \in Runs : q # r => run'[q] = run[q]
  BY <1>1, <1>2 DEF EngTypeOK
<1>4. ByRun' \subseteq ByRun  BY <1>2 DEF ByRun
<1>5. LockOne'  BY <1>1, <1>2, <1>3 DEF LockOne
<1>6. AloneOK'  BY <1>1, <1>2, <1>4 DEF AloneOK, Reservation
<1>7. (NoneSeq' <=> NoneSeq) /\ \A q \in Runs : SeqUnsent(q)' <=> SeqUnsent(q)
  BY <1>2 DEF NoneSeq, SeqUnsent
<1>8. \A q \in Runs : q # r => SeqPost(q)' = SeqPost(q)  BY <1>3 DEF SeqPost
<1>9. CoverOK'  BY <1>1, <1>2, <1>3, <1>4, <1>7, <1>8 DEF CoverOK, Reservation
<1> QED  BY <1>5, <1>6, <1>9

LEMMA CrashOnce ==
    ASSUME OnceInv, Crash
    PROVE  LockOne' /\ AloneOK' /\ CoverOK'
<1>1. EngTypeOK /\ LockOne /\ AloneOK /\ CoverOK  BY DEF OnceInv, EngInv
<1>2. /\ held' = held /\ served' = served
      /\ run' = [r \in Runs |-> IF run[r].at \in Active THEN Over(run[r], "crashed") ELSE run[r]]
  BY DEF Crash, server, posts
<1>3. ASSUME NEW r \in Runs
      PROVE  run'[r].at = "crashed" \/ (run'[r] = run[r] /\ run[r].at \notin Active)
  BY <1>1, <1>2, OverEffect DEF EngTypeOK, Ended
<1>4. LockOne'  BY <1>3 DEF LockOne, Active, Ats, Ended
<1>5. AloneOK'  BY <1>1, <1>2 DEF AloneOK, ByRun, Reservation
<1>6. \A r \in Runs : run'[r].at \in {"idle", "prewarm", "enter", "search", "book", "burst"} =>
                         run'[r].at = "idle" /\ run'[r] = run[r]
  BY <1>3 DEF Active, Ats, Ended
<1>7. CoverOK'  BY <1>1, <1>6 DEF CoverOK
<1> QED  BY <1>4, <1>5, <1>7

\* Only the POST the run with the lock waits for is carried out.
LEMMA ServeOnce ==
    ASSUME OneCourse, OnceInv, NEW p \in Posts, Serve(p)
    PROVE  LockOne' /\ AloneOK' /\ CoverOK'
<1> DEFINE r == p.run
<1>1. EngTypeOK /\ PlaceOK /\ FreshOK /\ WaitOK /\ MineHeld /\ LockOne /\ AloneOK /\ CoverOK
  BY DEF OnceInv, EngInv
<1>2. /\ run' = run /\ lock' = lock /\ served[p] = "sent" /\ heard[p] = "no"
      /\ run[r].at \in {"burst", "book"}
  BY DEF Serve, Awaited, store, OneCourse
<1>3. \/ held' = held \cup {Reservation(p)} /\ served' = [served EXCEPT ![p] = "landed"]
      \/ held' = held /\ served' = [served EXCEPT ![p] = "refused"]
      \/ held' = held /\ served' = [served EXCEPT ![p] = "throttled"]
  BY Zenon DEF Serve, Reservation
<1>4. r \in Runs  BY DEF Posts
<1>5. \A q \in Runs : run[q].at \in Active => q = r
  BY <1>1, <1>2, <1>4 DEF LockOne, Active, Ats, Ended
<1>6. \A q \in Posts : q # p => served'[q] = served[q]  BY <1>1, <1>3 DEF EngTypeOK
<1>7. \/ served'[p] = "landed" /\ ByRun' = ByRun \cup {Reservation(p)}
      \/ served'[p] \in {"refused", "throttled"} /\ ByRun' = ByRun
  BY <1>1, <1>3 DEF EngTypeOK, ByRun, Reservation
<1>8. LockOne'  BY <1>1, <1>2 DEF LockOne
<1>9. \A q \in Runs : SeqPost(q)' = SeqPost(q)  BY <1>2 DEF SeqPost
<1> HIDE DEF r
<1>10. CASE run[r].at = "burst"
  <2>1. p.how = "blind"  BY <1>1, <1>2, <1>10 DEF FreshOK, Posts, r
  <2>2. NoneSeq  BY <1>1, <1>2, <1>4, <1>10 DEF CoverOK, r
  <2>3. NoneSeq'  BY <1>6, <2>1, <2>2 DEF NoneSeq
  <2>4. AloneOK'  BY <2>3 DEF AloneOK, NoneSeq
  <2>5. ASSUME NEW q \in Runs
        PROVE  run'[q].at \notin {"prewarm", "enter", "search", "book"}
    BY <1>2, <1>5, <1>10, <2>5 DEF Active, Ats, Ended
  <2>6. CoverOK'  BY <1>1, <1>2, <2>3, <2>5 DEF CoverOK
  <2> QED  BY <1>8, <2>4, <2>6
<1>11. CASE run[r].at = "book"
  <2>1. p = SeqPost(r) /\ p.how = "seq"  BY <1>1, <1>2, <1>11 DEF WaitOK, SeqPost, r
  <2>2. 1 \in run[r].logged
    <3>1. ~SeqUnsent(r)  BY <1>2, <2>1 DEF SeqUnsent, r
    <3> QED  BY <1>1, <1>4, <1>11, <3>1 DEF CoverOK
  <2>3. ByRun = {}
    <3>1. \A x \in ByRun : served[SeqPost(r)] = "landed"  BY <1>1, <1>4, <1>11, <2>2 DEF CoverOK
    <3> QED  BY <1>2, <2>1, <3>1
  <2>4. \A x \in ByRun' : served'[p] = "landed" /\ x = Reservation(p)  BY <1>7, <2>3
  <2>5. ASSUME NEW q \in Posts, q.how = "seq", served'[q] = "landed", q # p PROVE FALSE
    <3>1. served[q] = "landed"  BY <1>6, <2>5
    <3>2. Reservation(q) \in held  BY <1>1, <2>5, <3>1 DEF MineHeld, Mine
    <3>3. Reservation(q).by = "run"  BY DEF Reservation
    <3> QED  BY <2>3, <3>2, <3>3 DEF ByRun
  <2>6. AloneOK'  BY <2>4, <2>5 DEF AloneOK, Reservation
  <2>7. ASSUME NEW q \in Runs
        PROVE  /\ run'[q].at \notin {"prewarm", "enter", "search", "burst"}
               /\ run'[q].at = "book" => q = r
    BY <1>2, <1>5, <1>11, <2>7 DEF Active, Ats, Ended
  <2>8. run'[r] = run[r] /\ SeqPost(r)' = p  BY <1>2, <1>4, <1>9, <2>1
  <2>9. CoverOK'
    <3>1. ASSUME NEW q \in Runs, run'[q].at = "book"
          PROVE  1 \in run'[q].logged
                 /\ \A x \in ByRun' : served'[SeqPost(q)'] = "landed" /\ x = Reservation(SeqPost(q)')
      BY <2>2, <2>4, <2>7, <2>8, <3>1
    <3> QED  BY <1>1, <1>2, <2>7, <3>1 DEF CoverOK, Reservation
  <2> QED  BY <1>8, <2>6, <2>9
<1> QED  BY <1>2, <1>10, <1>11

\* "The booker can never double-book itself" (orchestrator.py:14-16), where it can be kept:
\* with one course, whose server carries out no POST after its answer was given up and
\* answers every login in JSON. With a second course an unanswered POST at the first is
\* not looked for when its listing fails (orchestrator.py:746); late POSTs and opaque
\* logins are the two ways a list can miss a reservation.
THEOREM OneReservation ==
    ASSUME NCourses = 1, "late" \notin Faults, "opaque" \notin Faults
    PROVE  BSpec => []NeverDoubleBooks
<1>1. OneCourse  BY DEF OneCourse
<1>2. BInit => OnceInv
  <2> SUFFICES ASSUME BInit PROVE OnceInv
    OBVIOUS
  <2>1. EngInv  BY EngInvInit
  <2>2. \A r \in Runs : run[r].at = "idle" /\ run[r].logged = {}  BY DEF BInit, Idle
  <2>3. LockOne /\ CoverOK  BY <2>2 DEF LockOne, CoverOK, Active, Ats, Ended
  <2>4. AloneOK  BY DEF BInit, AloneOK
  <2> QED  BY <2>1, <2>3, <2>4 DEF OnceInv
<1>3. OnceInv /\ [BNext]_vars => OnceInv'
  <2> SUFFICES ASSUME OnceInv, [BNext]_vars PROVE OnceInv'
    OBVIOUS
  <2>1. EngInv /\ EngTypeOK /\ PlaceOK /\ CoverOK /\ HeardOK /\ FreshOK  BY DEF OnceInv, EngInv
  <2>2. EngInv'  BY <2>1, EngInvNext
  <2>3. ASSUME NEW r \in Runs, Begin(r) \/ RunStep(r) PROVE LockOne' /\ AloneOK' /\ CoverOK'
    <3>1. Sees(r) \/ Sends(r) \/ \E s \in Slots : CancelExtra(r, s)  BY <1>1, <2>1, <2>3, RunSees
    <3>2. CASE Sees(r) /\ ~\E s \in Slots : CancelExtra(r, s)
      <4>1. \/ \E n \in RunStates : Moves(r, n)
            \/ \E n \in RunStates : Fires(r, n)
            \/ Sends(r)
        BY <2>1, <2>3, <3>2, OwnSteps
      <4> QED  BY <1>1, <3>2, <4>1, SeesKeep, SendsOnce
    <3>3. CASE \E s \in Slots : CancelExtra(r, s)
      BY <2>1, <3>3, CancelExtraMoves, CancelsOnce
    <3> QED  BY <1>1, <3>1, <3>2, <3>3, SendsOnce
  <2>4. ASSUME NEW p \in Posts, Hear(p) PROVE LockOne' /\ AloneOK' /\ CoverOK'
    <3>1. UNCHANGED <<served, run, lock>> /\ held' = held  BY <2>4 DEF Hear, server, store
    <3> QED  BY <3>1, OnceStays DEF ByRun
  <2>5. ASSUME Environment PROVE LockOne' /\ AloneOK' /\ CoverOK'
    <3>1. UNCHANGED <<served, run, lock>>
      BY <2>5 DEF Environment, Drop, Rival, ByHand, posts, store
    <3>2. \A x \in held' : x.by = "run" => x \in held
      BY <2>5 DEF Environment, Drop, Rival, ByHand
    <3> QED  BY <3>1, <3>2, OnceStays DEF ByRun
  <2>6. ASSUME UNCHANGED vars PROVE LockOne' /\ AloneOK' /\ CoverOK'
    <3>1. UNCHANGED <<served, run, lock>> /\ held' = held  BY <2>6 DEF vars
    <3> QED  BY <3>1, OnceStays DEF ByRun
  <2>7. LockOne' /\ AloneOK' /\ CoverOK'
    BY <1>1, <2>3, <2>4, <2>5, <2>6, ServeOnce, CrashOnce DEF BNext
  <2> QED  BY <2>2, <2>7 DEF OnceInv
<1>4. OnceInv => NeverDoubleBooks
  <2> SUFFICES ASSUME OnceInv PROVE NeverDoubleBooks
    OBVIOUS
  <2>1. AloneOK  BY DEF OnceInv
  <2> QED  BY <2>1 DEF AloneOK, ByRun, NeverDoubleBooks, Reservation
<1> QED  BY <1>2, <1>3, <1>4, PTL DEF BSpec
=============================================================================
