------------------------------- MODULE WebGroups -------------------------------
(***************************************************************************)
(* A ranked list that names several courses is ONE request of the user,    *)
(* kept as a group: one row, or one rule, per course (web/group_services.py *)
(* and the group half of web/services.py).  Each course is its own account *)
(* and its own partition, so whatever the user asks of the group is one    *)
(* store call per course, between which the job, the watcher, the tick and *)
(* the user's other tab act.                                               *)
(*                                                                         *)
(* One date is modelled, and the weekday of the rules is that date's.  The *)
(* steps inside a rule edit are Materializer's; here it is one step.       *)
(***************************************************************************)
EXTENDS Naturals, FiniteSets, FiniteSetsExt

CONSTANTS
    NGroupCourses,   \* the courses, the best ranked first
    MaxGroups,       \* bound on the groups saved, the first one included
    MaxAsked,        \* bound on the requests
    Tabs             \* the user's browser tabs

ASSUME GroupsAssumption == NGroupCourses \in Nat \ {0} /\ MaxGroups \in Nat \ {0} /\ MaxAsked \in Nat

GroupCourses == 1..NGroupCourses
Groups == 1..MaxGroups

VARIABLES
    sort,     \* sort[g]: a group of one-off rows, of rules, or not saved yet
    item,     \* item[g][c]: group g's row of the date at course c
    rule,     \* rule[g][c]: group g's rule at course c
    leased,   \* the courses whose row of the date is leased
    closed,   \* the courses past their cutoff
    request,  \* what each tab is waiting for
    asked,    \* the requests so far
    said,     \* said[g]: what the save of group g answered
    settled   \* what an answered request put away, as <<what, g, c>>

groupVars == <<sort, item, rule, leased, closed, request, asked, said, settled>>

Absent == [status |-> "absent", from |-> "none"]
LiveStatuses == {"pending", "skipped", "booked"}
Waiting == [kind |-> "none"]

\* What a tab waits for: the group, the course it was asked at, what is left to do.
Asked(kind, g, c) ==
    [kind |-> kind, group |-> g, at |-> c, step |-> "first", todo |-> {}, saved |-> {}, failed |-> {}, was |-> "none",
     fresh |-> {}, wanted |-> {c}, shaken |-> \E t \in Tabs : request[t].kind # "none"]

GroupsInit ==
    /\ sort = [g \in Groups |-> IF g = 1 THEN "rules" ELSE "none"]
    /\ item = [g \in Groups |-> [c \in GroupCourses |-> IF g = 1 THEN [Absent EXCEPT !.status = "pending"] ELSE Absent]]
    /\ rule = [g \in Groups |-> [c \in GroupCourses |-> IF g = 1 THEN "on" ELSE "none"]]
    /\ leased = {} /\ closed = {} /\ settled = {} /\ asked = 0
    /\ request = [t \in Tabs |-> Waiting]
    /\ said = [g \in Groups |-> [told |-> "none", failed |-> {}]]

-----------------------------------------------------------------------------
(* The store calls, each on one course.                                    *)

Status(g, c) == item[g][c].status
Holders(c) == {g \in Groups : Status(g, c) \in LiveStatuses}
On(g, c) == rule[g][c] = "on"
Covered(g, c) == sort[g] = "rules" => On(g, c)
Put(g, c, row) == item' = [item EXCEPT ![g][c] = row]

\* create_explicit_row: only an unbooked, unleased rule row steps aside.
CanCreate(c) ==
    /\ c \notin closed /\ c \notin leased
    /\ \A h \in Holders(c) : sort[h] = "rules" /\ Status(h, c) # "booked"
Create(g, c) ==
    item' = [h \in Groups |-> [item[h] EXCEPT
                ![c] = IF h = g THEN [Absent EXCEPT !.status = "pending"]
                       ELSE IF h \in Holders(c) THEN [status |-> "superseded", from |-> @.status] ELSE @]]

\* transition_row from the site.
MovesFrom == [skip |-> "pending", unskip |-> "skipped", withdraw |-> "pending"]
CanMove(kind, g, c) ==
    /\ Status(g, c) = MovesFrom[kind]
    /\ kind = "unskip" => c \notin closed /\ Covered(g, c)
    /\ kind = "withdraw" => sort[g] = "one_offs"
    /\ c \notin leased

\* The rule row that comes back when the one-off is withdrawn.
Restorable(c) ==
    {h \in Groups : On(h, c) /\ c \notin closed /\ Status(h, c) \in {"superseded", "withdrawn"}}
Back(row) == [status |-> IF row.from = "none" THEN "pending" ELSE row.from, from |-> "none"]

Move(kind, g, c) ==
    CASE kind = "skip"     -> Put(g, c, [Absent EXCEPT !.status = "skipped"])
      [] kind = "unskip"   -> Put(g, c, [Absent EXCEPT !.status = "pending"])
      [] kind = "withdraw" -> item' = [h \in Groups |-> [item[h] EXCEPT
                                        ![c] = IF h = g THEN [@ EXCEPT !.status = "withdrawn"]
                                               ELSE IF h \in Restorable(c) THEN Back(@) ELSE @]]

\* materialize_rule for the date: inserted, or brought back.
Materialized(g, c) ==
    IF c \in closed THEN item[g][c]
    ELSE CASE Status(g, c) = "absent" -> [Absent EXCEPT !.status = IF Holders(c) = {} THEN "pending" ELSE "superseded"]
           [] Status(g, c) = "withdrawn" /\ Holders(c) = {} -> Back(item[g][c])
           [] OTHER -> item[g][c]

\* A rule taken off withdraws its row, unless somebody acts on it.
Dropped(g, c) ==
    IF Status(g, c) = "superseded" \/ (Status(g, c) = "pending" /\ c \notin leased)
    THEN [item[g][c] EXCEPT !.status = "withdrawn"] ELSE item[g][c]

Conflict(g, c) == \E h \in Groups \ {g} : On(h, c)

-----------------------------------------------------------------------------
(* The handlers, one store call at a time.                                 *)

Becomes(t, r) == request' = [request EXCEPT ![t] = r]
\* Whoever else changes rule <<g, c>> takes its version from the pages that read it.
Renewed(t, r, g, c) ==
    request' = [u \in Tabs |-> IF u = t THEN r
                               ELSE IF request[u].kind \in {"on", "off"} /\ request[u].group = g
                                    THEN [request[u] EXCEPT !.fresh = @ \ {c}] ELSE request[u]]

\* A request overlaps with those of the other tabs.
Overlapped(t) == [u \in Tabs |-> IF u # t /\ request[u].kind # "none" THEN [request[u] EXCEPT !.shaken = TRUE] ELSE request[u]]

\* Asked again, what was put away is no longer.
Reopened(kind, g) == IF kind \in {"unskip", "on"} THEN {x \in settled : x[2] # g} ELSE settled

Ask(t) ==
    /\ request[t] = Waiting /\ asked < MaxAsked /\ asked' = asked + 1
    /\ \/ \E g \in Groups, kind \in {"one_offs", "rules"} :
            /\ sort[g] = "none" /\ \A h \in Groups : h < g => sort[h] # "none"
            /\ sort' = [sort EXCEPT ![g] = kind]
            /\ request' = [Overlapped(t) EXCEPT ![t] = [Asked(kind, g, 1) EXCEPT !.step = "save", !.todo = GroupCourses]]
            /\ UNCHANGED settled
       \/ \E g \in Groups, c \in GroupCourses, kind \in {"skip", "unskip", "withdraw"} :
            /\ Status(g, c) = MovesFrom[kind] /\ (kind = "withdraw" => sort[g] = "one_offs")
            /\ request' = [Overlapped(t) EXCEPT ![t] = [Asked(kind, g, c) EXCEPT !.was = Status(g, c)]]
            /\ settled' = Reopened(kind, g) /\ UNCHANGED sort
       \/ \E g \in Groups, c \in GroupCourses, kind \in {"on", "off"} :
            /\ rule[g][c] = IF kind = "on" THEN "off" ELSE "on"
            /\ request' = [Overlapped(t) EXCEPT ![t] = [Asked(kind, g, c) EXCEPT !.fresh = {c}]]
            /\ settled' = Reopened(kind, g) /\ UNCHANGED sort
    /\ UNCHANGED <<item, rule, leased, closed, said>>

\* Mutant: a refused sibling is passed over.
Forgotten(r, c) == [r EXCEPT !.todo = @ \ {c}]
\* A sibling that refused is named in the answer.
Refused(r, c) == [r EXCEPT !.todo = @ \ {c}, !.failed = @ \cup {c}]
Done(r, c) == [r EXCEPT !.todo = @ \ {c}]

\* Mutant: the first refusal is raised, whatever was saved before it.
GivenUp(r, c) == [r EXCEPT !.todo = {}, !.saved = {}, !.failed = {c}]
\* A course that refuses is reported, and the save goes on.
NotSaved(r, c) == [r EXCEPT !.todo = @ \ {c}, !.failed = @ \cup {c}]

\* create_group_one_off, in rank order.
SaveOneOff(t) ==
    LET r == request[t] c == Min(r.todo) IN
    /\ r.kind = "one_offs" /\ r.step = "save" /\ r.todo # {}
    /\ IF CanCreate(c) THEN Create(r.group, c) /\ Becomes(t, [Done(r, c) EXCEPT !.saved = @ \cup {c}])
                       ELSE Becomes(t, NotSaved(r, c)) /\ UNCHANGED item
    /\ UNCHANGED <<sort, rule, leased, closed, asked, said, settled>>

\* create_group_rule: the rule, then its rows.
SaveRule(t) ==
    LET r == request[t] c == Min(r.todo) IN
    /\ r.kind = "rules" /\ r.step = "save" /\ r.todo # {}
    /\ IF Conflict(r.group, c) THEN Becomes(t, NotSaved(r, c)) /\ UNCHANGED rule
                               ELSE Becomes(t, [r EXCEPT !.step = "rows", !.saved = @ \cup {c}]) /\ rule' = [rule EXCEPT ![r.group][c] = "on"]
    /\ UNCHANGED <<sort, item, leased, closed, asked, said, settled>>

\* Saved all the same if its rows were refused: the tick makes them.
SaveRows(t) ==
    LET r == request[t] c == Min(r.todo) s == [r EXCEPT !.step = "save"] IN
    /\ r.kind = "rules" /\ r.step = "rows"
    /\ IF On(r.group, c)
       THEN Put(r.group, c, Materialized(r.group, c)) /\ Becomes(t, Done(s, c))
       ELSE Becomes(t, Refused(s, c)) /\ UNCHANGED item
    /\ UNCHANGED <<sort, rule, leased, closed, asked, said, settled>>

\* The row the user clicked on; refused there, nothing more happens.
MoveFirst(t) ==
    LET r == request[t] IN
    /\ r.kind \in DOMAIN MovesFrom /\ r.step = "first"
    /\ IF CanMove(r.kind, r.group, r.at)
       THEN Move(r.kind, r.group, r.at) /\ Becomes(t, [r EXCEPT !.step = "list"])
       ELSE Becomes(t, Waiting) /\ UNCHANGED item
    /\ UNCHANGED <<sort, rule, leased, closed, asked, said, settled>>

\* The siblings in the status the first row was in.
ListRows(t) ==
    LET r == request[t] IN
    /\ r.kind \in DOMAIN MovesFrom /\ r.step = "list"
    /\ LET others == {c \in GroupCourses \ {r.at} : Status(r.group, c) = r.was} IN
       Becomes(t, [r EXCEPT !.step = "rest", !.todo = others, !.wanted = @ \cup others])
    /\ UNCHANGED <<sort, item, rule, leased, closed, asked, said, settled>>

MoveSibling(t) ==
    LET r == request[t] IN
    /\ r.kind \in DOMAIN MovesFrom /\ r.step = "rest"
    /\ \E c \in r.todo :
        IF CanMove(r.kind, r.group, c) THEN Move(r.kind, r.group, c) /\ Becomes(t, Done(r, c))
                                       ELSE Becomes(t, Refused(r, c)) /\ UNCHANGED item
    /\ UNCHANGED <<sort, rule, leased, closed, asked, said, settled>>

\* One rule edit, under the version it was read with; a rule is taken off after its rows,
\* so a stale one is refused when they are withdrawn already.
CanSwitch(r, c) == c \in r.fresh /\ (r.kind = "on" => ~Conflict(r.group, c))
Switch(t, r, c) ==
    /\ rule' = [rule EXCEPT ![r.group][c] = r.kind]
    /\ Put(r.group, c, IF r.kind = "on" THEN Materialized(r.group, c) ELSE Dropped(r.group, c))
NotSwitched(r, c) ==
    /\ UNCHANGED rule
    /\ IF r.kind = "off" THEN Put(r.group, c, Dropped(r.group, c)) ELSE UNCHANGED item

SwitchFirst(t) ==
    LET r == request[t] IN
    /\ r.kind \in {"on", "off"} /\ r.step = "first"
    /\ IF CanSwitch(r, r.at)
       THEN Switch(t, r, r.at) /\ Renewed(t, [r EXCEPT !.step = "list"], r.group, r.at)
       ELSE NotSwitched(r, r.at) /\ Becomes(t, Waiting)
    /\ UNCHANGED <<sort, leased, closed, asked, said, settled>>

\* The other rules of the group that are not so already, with their versions.
ListRules(t) ==
    LET r == request[t]
        others == {c \in GroupCourses \ {r.at} : rule[r.group][c] = IF r.kind = "on" THEN "off" ELSE "on"}
    IN
    /\ r.kind \in {"on", "off"} /\ r.step = "list"
    /\ Becomes(t, [r EXCEPT !.step = "rest", !.todo = others, !.fresh = others, !.wanted = @ \cup others])
    /\ UNCHANGED <<sort, item, rule, leased, closed, asked, said, settled>>

SwitchSibling(t) ==
    LET r == request[t] IN
    /\ r.kind \in {"on", "off"} /\ r.step = "rest"
    /\ \E c \in r.todo :
        IF CanSwitch(r, c) THEN Switch(t, r, c) /\ Renewed(t, Done(r, c), r.group, c)
                           ELSE NotSwitched(r, c) /\ Becomes(t, Refused(r, c))
    /\ UNCHANGED <<sort, leased, closed, asked, said, settled>>

\* The answer of a save; of anything else: done everywhere, or not at some course.
Answer(t) ==
    LET r == request[t] IN
    /\ r.kind # "none" /\ r.step \in {"save", "rest"} /\ r.todo = {}
    /\ Becomes(t, Waiting)
    /\ IF r.step = "save"
       THEN /\ said' = [said EXCEPT ![r.group] = [told |-> IF r.saved = {} THEN "nothing" ELSE "saved", failed |-> r.failed]]
            /\ UNCHANGED settled
       ELSE /\ settled' = IF r.failed = {} /\ ~r.shaken /\ r.kind \in {"skip", "withdraw", "off"}
                          THEN settled \cup {<<r.kind, r.group, c>> : c \in r.wanted} ELSE settled
            /\ UNCHANGED said
    /\ UNCHANGED <<sort, item, rule, leased, closed, asked>>

\* The web process goes away in the middle.
Dies(t) ==
    /\ request[t].kind # "none" /\ Becomes(t, Waiting)
    /\ UNCHANGED <<sort, item, rule, leased, closed, asked, said, settled>>

-----------------------------------------------------------------------------
(* The job, the watcher, the tick, the clock: one course each.             *)

Lease(c) ==
    /\ c \notin leased /\ \E g \in Holders(c) : Status(g, c) = "pending" /\ Covered(g, c)
    /\ leased' = leased \cup {c} /\ UNCHANGED <<sort, item, rule, closed, request, asked, said, settled>>

Unlease(c) ==
    /\ c \in leased /\ leased' = leased \ {c}
    /\ \/ UNCHANGED item
       \/ \E g \in Holders(c) : Status(g, c) = "pending" /\ Put(g, c, [Absent EXCEPT !.status = "booked"])
    /\ UNCHANGED <<sort, rule, closed, request, asked, said, settled>>

\* The tick makes the rows of active rules and withdraws the stragglers of the others.
Tick(g, c) ==
    /\ rule[g][c] # "none"
    /\ Put(g, c, IF On(g, c) THEN Materialized(g, c) ELSE Dropped(g, c)) /\ item' # item
    /\ UNCHANGED <<sort, rule, leased, closed, request, asked, said, settled>>

Closes(c) ==
    /\ c \notin closed /\ closed' = closed \cup {c}
    /\ UNCHANGED <<sort, item, rule, leased, request, asked, said, settled>>

GroupsNext ==
    \/ \E t \in Tabs : \/ Ask(t) \/ SaveOneOff(t) \/ SaveRule(t) \/ SaveRows(t) \/ MoveFirst(t) \/ ListRows(t)
                       \/ MoveSibling(t) \/ SwitchFirst(t) \/ ListRules(t) \/ SwitchSibling(t) \/ Answer(t) \/ Dies(t)
    \/ \E c \in GroupCourses : Lease(c) \/ Unlease(c) \/ Closes(c) \/ \E g \in Groups : Tick(g, c)

GroupsSpec == GroupsInit /\ [][GroupsNext]_groupVars

-----------------------------------------------------------------------------
(* Properties                                                              *)

\* "A group is ONE request, so skipping or withdrawing it at one course must not leave
\* another course booking the date" (services.py _transition): what an answer without
\* complaint put away, at every course the handler found as it had been where the user
\* clicked, stays put away until the user asks for it again, whoever held a lease, swept
\* or closed meanwhile.  Requests of two tabs that overlap are outside: each may undo the
\* other.  (A sibling booked before the handler lists them is passed over in silence.)
PutAwayEverywhere ==
    \A x \in settled : IF x[1] = "off" THEN ~On(x[2], x[3])
                       ELSE Status(x[2], x[3]) \notin {"pending", "booked"}

\* A save that raises saved nothing, at any course; one that does not raise names every
\* course it left out ("a failure on one course is REPORTED, not raised", group_services).
SavedOrTold ==
    \A g \in Groups :
        LET saved == {c \in GroupCourses : rule[g][c] # "none" \/ Status(g, c) # "absent"} IN
        /\ said[g].told = "nothing" => saved = {}
        /\ said[g].told = "saved" => saved # {} /\ GroupCourses \ saved \subseteq said[g].failed
=============================================================================
