----------------------------- MODULE TokenPool -----------------------------
(***************************************************************************)
(* The seconds before and after a drop, as the accounts of one course      *)
(* share them: the snake draft of the tee times they post blind            *)
(* (tenant/allocation.py) and the pool of captcha tokens they post them    *)
(* with (courses/foreup/token_pool.py): one fill before T0, leases handed  *)
(* out in draft order, a shared reserve, inline solves when both are dry.  *)
(*                                                                         *)
(* Tokens are numbered as they arrive.  Time is 0 until ten seconds before *)
(* T0, 1 until T0, 2 after it.                                             *)
(***************************************************************************)
EXTENDS Naturals, FiniteSets, FiniteSetsExt, Sequences, SequencesExt

CONSTANTS
    NAccounts,   \* the accounts of the course, 1..NAccounts
    Rankings,    \* the lists of tee times an account may want, best first
    Weeks,       \* the weeks of the drop
    Burst,       \* blind POSTs per account
    C,           \* solves in flight in the fill
    Reserve,     \* the shared reserve
    NFallback,   \* POSTs of an account after its burst
    Faults,      \* the faults that may occur
    MaxMishaps   \* how many of them may occur

Accounts == 1..NAccounts

\* fail: a solve fails; hang: it never returns; die: it kills the fill;
\* stale: the course refuses a pooled token
ASSUME PoolAssumption ==
    /\ NAccounts \in Nat \ {0} /\ Burst \in Nat \ {0} /\ C \in Nat \ {0}
    /\ Reserve \in Nat /\ NFallback \in Nat /\ MaxMishaps \in Nat /\ Weeks \subseteq Nat
    /\ Faults \subseteq {"fail", "hang", "die", "stale"}

VARIABLES
    phase,    \* the phase of the drop
    week,     \* its week
    ranked,   \* ranked[a]: the tee times a wants
    allow,    \* allow[a]: the tee times a may post blind
    grants,   \* the order of the grants
    fill,     \* the fill
    lease,    \* lease[a]: the tokens of a's lease, the oldest first
    reserve,  \* the shared reserve
    given,    \* given[a]: the tokens ever granted to a
    used,     \* the tokens popped
    stage,    \* stage[a]: how far a's engine is
    left,     \* left[a]: the POSTs of its burst not sent yet
    owed,     \* owed[a]: the inline solves it waits for
    fell,     \* fell[a]: its fallback POSTs so far
    mishaps   \* the faults so far

drop == <<week, ranked, allow, grants>>
pool == <<fill, lease, reserve, given, used>>
engines == <<stage, left, owed, fell>>
poolVars == <<phase, drop, pool, engines, mishaps>>

Mishap(f) == f \in Faults /\ mishaps < MaxMishaps /\ mishaps' = mishaps + 1
Fine == UNCHANGED mishaps

-----------------------------------------------------------------------------
(* The draft.                                                              *)

\* The accounts by id, rotated by the week.
DraftOrder(w) == [i \in Accounts |-> ((i - 1 + w) % NAccounts) + 1]

\* The accounts whose bursts one wave of solves can feed.
Cap == C \div Burst

Turns(order) ==
    LET drafting == SubSeq(order, 1, Min({Cap, NAccounts}))
    IN  FlattenSeq([r \in 1..Burst |-> IF r % 2 = 1 THEN drafting ELSE Reverse(drafting)])

Taken(picks) == UNION {ToSet(picks[a]) : a \in Accounts}

\* Mutant: an account only avoids what it has picked itself.
PickOwn(picks, a) ==
    LET free == SelectSeq(ranked[a], LAMBDA s : s \notin ToSet(picks[a]))
    IN  IF free = <<>> THEN picks ELSE [picks EXCEPT ![a] = Append(@, Head(free))]

\* One turn: the best tee time nobody has picked.
Pick(picks, a) ==
    LET free == SelectSeq(ranked[a], LAMBDA s : s \notin Taken(picks))
    IN  IF free = <<>> THEN picks ELSE [picks EXCEPT ![a] = Append(@, Head(free))]

Allow == FoldLeft(Pick, [a \in Accounts |-> <<>>], Turns(DraftOrder(week)))

\* An account's demand of tokens; an account with no tee time to post searches only.
Demand(a) == Len(allow[a])

-----------------------------------------------------------------------------
(* The fill.                                                               *)

\* Mutant: each lease is filled before the next.
GrantByAccount(order) ==
    FlattenSeq([i \in Accounts |-> [r \in 1..Len(Allow[order[i]]) |-> order[i]]])

\* Round robin in draft order.
GrantOrder(order) ==
    FlattenSeq([r \in 1..Burst |-> SelectSeq(order, LAMBDA a : Len(Allow[a]) >= r)])

Demanded == Len(grants) + Reserve
Unsolved == Demanded - fill.solved - fill.failed - fill.dead
InFlight == Min({C, Unsolved})

PInit ==
    /\ phase = 0 /\ week \in Weeks /\ ranked \in [Accounts -> Rankings]
    /\ allow = Allow /\ grants = GrantOrder(DraftOrder(week))
    /\ fill = [on |-> FALSE, next |-> 1, solved |-> 0, failed |-> 0, dead |-> 0, hung |-> 0, wave1 |-> FALSE]
    /\ lease = [a \in Accounts |-> <<>>] /\ given = [a \in Accounts |-> {}]
    /\ reserve = <<>> /\ used = {}
    /\ stage = [a \in Accounts |-> "new"]
    /\ left = [a \in Accounts |-> 0] /\ owed = [a \in Accounts |-> 0] /\ fell = [a \in Accounts |-> 0]
    /\ mishaps = 0

Waved(f) == [f EXCEPT !.wave1 = @ \/ f.next > Len(grants) \/ f.solved + f.failed >= Demanded]

\* An arrival goes to the next lease of the sequence whose account is still there,
\* else to the reserve.
Next0 == {i \in fill.next..Len(grants) : stage[grants[i]] # "gone"}

Arrive ==
    /\ fill.on /\ InFlight > fill.hung /\ Fine
    /\ LET t == fill.solved + 1
           i == IF Next0 = {} THEN Len(grants) ELSE Min(Next0)
       IN  /\ fill' = Waved([fill EXCEPT !.solved = t, !.next = Max({@, i + 1})])
           /\ IF Next0 = {}
              THEN reserve' = Append(reserve, t) /\ UNCHANGED <<lease, given>>
              ELSE /\ lease' = [lease EXCEPT ![grants[i]] = Append(@, t)]
                   /\ given' = [given EXCEPT ![grants[i]] = @ \cup {t}]
                   /\ UNCHANGED reserve
    /\ UNCHANGED <<phase, drop, used, engines>>

SolveFails ==
    /\ fill.on /\ InFlight > fill.hung
    /\ \/ Mishap("fail") /\ fill' = Waved([fill EXCEPT !.failed = @ + 1])
       \/ Mishap("hang") /\ fill' = [fill EXCEPT !.hung = @ + 1]
       \/ Mishap("die") /\ fill' = [fill EXCEPT !.dead = @ + 1, !.wave1 = TRUE]
    /\ UNCHANGED <<phase, drop, lease, reserve, given, used, engines>>

-----------------------------------------------------------------------------
(* An account's engine at the pool.                                        *)

\* Its prefetch starts the one fill, or joins it.
Prefetch(a) ==
    /\ stage[a] = "new" /\ phase < 2 /\ Fine
    /\ stage' = [stage EXCEPT ![a] = "wait"]
    /\ fill' = [fill EXCEPT !.on = TRUE, !.wave1 = @ \/ grants = <<>>]
    /\ UNCHANGED <<phase, drop, lease, reserve, given, used, left, owed, fell>>

\* Mutant: the wait has no deadline.
NeverUp == FALSE

DeadlineUp == phase >= 1

PrefetchReturns(a) ==
    /\ stage[a] = "wait" /\ (fill.wave1 \/ DeadlineUp) /\ Fine
    /\ stage' = [stage EXCEPT ![a] = "ready"]
    /\ UNCHANGED <<phase, drop, pool, left, owed, fell>>

BurstSize(a) == Min({Len(allow[a]), Len(lease[a])})

\* T0 (an engine that starts after it prefetches nothing).
FireBurst(a) ==
    /\ phase = 2 /\ stage[a] \in {"new", "ready"} /\ Fine
    /\ left' = [left EXCEPT ![a] = BurstSize(a)]
    /\ stage' = [stage EXCEPT ![a] = "fired"]
    /\ UNCHANGED <<phase, drop, pool, owed, fell>>

\* The oldest of the lease, else of the reserve, else a solve of its own; a pooled
\* token the course finds stale is replaced once.
Book(a) ==
    \/ /\ lease[a] # <<>> \/ reserve # <<>>
       /\ IF lease[a] # <<>>
          THEN /\ used' = used \cup {Head(lease[a])} /\ lease' = [lease EXCEPT ![a] = Tail(@)]
               /\ UNCHANGED reserve
          ELSE used' = used \cup {Head(reserve)} /\ reserve' = Tail(reserve) /\ UNCHANGED lease
       /\ \/ Fine /\ UNCHANGED owed
          \/ Mishap("stale") /\ owed' = [owed EXCEPT ![a] = @ + 1]
    \/ /\ lease[a] = <<>> /\ reserve = <<>> /\ Fine
       /\ owed' = [owed EXCEPT ![a] = @ + 1] /\ UNCHANGED <<used, lease, reserve>>

Post(a) ==
    /\ stage[a] = "fired" /\ left[a] > 0
    /\ Book(a)
    /\ left' = [left EXCEPT ![a] = @ - 1]
    /\ UNCHANGED <<phase, drop, fill, given, stage, fell>>

Fallback(a) ==
    /\ stage[a] = "fired" /\ left[a] = 0 /\ owed[a] = 0 /\ fell[a] < NFallback
    /\ Book(a)
    /\ fell' = [fell EXCEPT ![a] = @ + 1]
    /\ UNCHANGED <<phase, drop, fill, given, stage, left>>

\* An inline solve, which succeeds, fails or times out.
Inline(a) ==
    /\ owed[a] > 0 /\ Fine
    /\ owed' = [owed EXCEPT ![a] = @ - 1]
    /\ UNCHANGED <<phase, drop, pool, stage, left, fell>>

\* Mutant: the lease is copied.
HandedBack(a) == reserve' = lease[a] \o reserve /\ UNCHANGED lease

\* What is left of its lease goes to the front of the reserve.
HandBack(a) == reserve' = lease[a] \o reserve /\ lease' = [lease EXCEPT ![a] = <<>>]

Leave(a) ==
    /\ stage[a] # "gone" /\ left[a] = 0 /\ owed[a] = 0 /\ Fine
    /\ HandBack(a)
    /\ stage' = [stage EXCEPT ![a] = "gone"]
    /\ UNCHANGED <<phase, drop, fill, given, used, left, owed, fell>>

\* The end of the run: the solves still in flight are cancelled.
Close ==
    /\ fill.on /\ \A a \in Accounts : stage[a] = "gone"
    /\ fill' = [fill EXCEPT !.on = FALSE, !.wave1 = TRUE] /\ Fine
    /\ UNCHANGED <<phase, drop, lease, reserve, given, used, engines>>

NextPhase == phase < 2 /\ phase' = phase + 1 /\ Fine /\ UNCHANGED <<drop, pool, engines>>

PNext ==
    \/ Arrive \/ SolveFails \/ Close \/ NextPhase
    \/ \E a \in Accounts : \/ Prefetch(a) \/ PrefetchReturns(a) \/ FireBurst(a) \/ Post(a)
                           \/ Fallback(a) \/ Inline(a) \/ Leave(a)

\* The clock runs, and an engine whose wait is over goes on; the solves owe nothing.
PSpec == PInit /\ [][PNext]_poolVars /\ WF_poolVars(NextPhase)
         /\ \A a \in Accounts : WF_poolVars(PrefetchReturns(a))

-----------------------------------------------------------------------------
Tokens == 1..fill.solved
Pooled == FlattenSeq(lease) \o reserve

\* A token is single-use: whatever is granted, released and popped, each solved token
\* is in one lease, in the reserve or spent, once, and none is lost (token_pool.py pop).
TokensOnce == Len(Pooled) + Cardinality(used) = fill.solved /\ ToSet(Pooled) \cup used = Tokens

\* No account is a whole round ahead of another that still wants tokens: a short fill
\* is shared out (section 5.3).
FairShare ==
    \A a, b \in Accounts :
        \/ Cardinality(given[a]) <= Cardinality(given[b]) + 1
        \/ Cardinality(given[b]) >= Demand(b) \/ stage[b] = "gone"

\* No two accounts post the same tee time blind, and nobody wants a tee time that
\* nobody posts more than one of its own (section 5.4).
DraftSound ==
    /\ \A a, b \in Accounts : a # b => ToSet(allow[a]) \cap ToSet(allow[b]) = {}
    /\ \A a \in Accounts : \A i, j \in 1..Len(ranked[a]) :
           i < j /\ ranked[a][j] \in ToSet(allow[a]) => ranked[a][i] \in Taken(allow)

\* Every prefetch returns, though solves hang or kill the fill: the engine's own wait has no timeout.
PrefetchEnds == \A a \in Accounts : stage[a] = "wait" ~> stage[a] # "wait"
=============================================================================
