------------------------- MODULE TenantRunnerProofs -------------------------
(***************************************************************************)
(* The morning's booking job, for any number of accounts, POSTs and faults *)
(* and wherever the deadlines cut.  The invariant follows one outcome: the *)
(* POST on the wire, the task that sent it, the queue, the written row and *)
(* ledger, the collapse, the exit code.                                    *)
(***************************************************************************)
EXTENDS TenantRunner, TLAPS, FiniteSetTheorems, SequenceTheorems

-----------------------------------------------------------------------------
(* Orders and queues *)

\* The values of a set of numbers, least first: there is one such order, which lists each once.
LEMMA Ranks ==
    ASSUME NEW n \in Nat, NEW S \in SUBSET (1..n)
    PROVE  /\ Cardinality(S) \in Nat
           /\ InOrder(S) \in [1..Cardinality(S) -> S]
           /\ \A i, j \in 1..Cardinality(S) : i < j => InOrder(S)[i] < InOrder(S)[j]
           /\ \A x \in S : \E i \in 1..Cardinality(S) : InOrder(S)[i] = x
<1> DEFINE k == Cardinality(S)
           Upto(x) == {y \in S : y <= x}
           rank == [x \in S |-> Cardinality(Upto(x))]
<1>0. \A x \in S : x \in Int  OBVIOUS
<1>1. IsFiniteSet(S) /\ k \in Nat
  <2>1. IsFiniteSet(1..n)  BY FS_Interval
  <2> QED  BY <2>1, FS_Subset, FS_CardinalityType
<1>2. ASSUME NEW x \in S PROVE IsFiniteSet(Upto(x)) /\ Cardinality(Upto(x)) \in 1..k
  <2>1. Upto(x) \in SUBSET S  OBVIOUS
  <2>2. IsFiniteSet(Upto(x)) /\ Cardinality(Upto(x)) <= k  BY <1>1, <2>1, FS_Subset
  <2>3. x \in Upto(x)  OBVIOUS
  <2>4. Cardinality(Upto(x)) # 0  BY <2>2, <2>3, FS_EmptySet
  <2>5. Cardinality(Upto(x)) \in Nat  BY <2>2, FS_CardinalityType
  <2> QED  BY <1>1, <2>2, <2>4, <2>5
<1>3. ASSUME NEW x \in S, NEW y \in S, x < y PROVE rank[x] < rank[y]
  <2>1. Upto(x) \in SUBSET Upto(y)
    <3>1. ASSUME NEW z \in S, z <= x PROVE z <= y  BY <1>0, <1>3, <3>1
    <3> QED  BY <3>1
  <2>2. y \in Upto(y) /\ y \notin Upto(x)  BY <1>3
  <2>3. Cardinality(Upto(x)) <= Cardinality(Upto(y)) /\ Cardinality(Upto(x)) # Cardinality(Upto(y))
    BY <1>2, <2>1, <2>2, FS_Subset
  <2>4. Cardinality(Upto(x)) \in 1..k /\ Cardinality(Upto(y)) \in 1..k  BY <1>2
  <2> QED  BY <1>1, <2>3, <2>4
<1>4. rank \in [S -> 1..k]  BY <1>2
<1>5. ASSUME NEW x \in S, NEW y \in S, rank[x] = rank[y] PROVE x = y
  <2>1. x \in Int /\ y \in Int /\ rank[x] \in Int  BY <1>1, <1>4
  <2>2. CASE x < y  BY <1>3, <1>5, <2>1, <2>2
  <2>3. CASE y < x  BY <1>3, <1>5, <2>1, <2>3
  <2> QED  BY <2>1, <2>2, <2>3
<1>6. IsFiniteSet(1..k) /\ Cardinality(1..k) = k  BY <1>1, FS_Interval
<1>7. rank \in Surjection(S, 1..k)
  <2>1. rank \in Injection(S, 1..k)  BY <1>4, <1>5 DEF Injection, IsInjective
  <2> QED  BY <1>6, <2>1, FS_Injection
<1>8. \A i \in 1..k : \E x \in S : rank[x] = i  BY <1>7 DEF Surjection
<1> DEFINE up == [i \in 1..k |-> CHOOSE x \in S : rank[x] = i]
<1>9. up \in [1..k -> S] /\ \A i \in 1..k : rank[up[i]] = i  BY <1>8
<1> HIDE DEF up, rank, k
<1>10. ASSUME NEW i \in 1..k, NEW j \in 1..k, i < j PROVE up[i] < up[j]
  <2>1. up[i] \in S /\ up[j] \in S /\ rank[up[i]] = i /\ rank[up[j]] = j  BY <1>9
  <2>2. up[i] \in Int /\ up[j] \in Int  BY <1>0, <2>1
  <2>3. ASSUME up[j] < up[i] PROVE FALSE
    <3>1. rank[up[j]] < rank[up[i]]  BY <1>3, <2>1, <2>3
    <3>2. j < i  BY <2>1, <3>1
    <3> QED  BY <1>1, <1>10, <3>2
  <2>4. CASE up[j] = up[i]  BY <1>1, <1>10, <2>1, <2>4
  <2> QED  BY <2>2, <2>3, <2>4
<1> USE DEF k
<1>11. up \in SetToSeqs(S)
  <2>1. ASSUME NEW i \in 1..k, NEW j \in 1..k, i # j PROVE up[i] # up[j]
    BY <1>1, <1>9, <1>10, <2>1
  <2> QED  BY <1>9, <2>1 DEF SetToSeqs
<1>12. \A i, j \in DOMAIN up : i < j => up[i] < up[j]  BY <1>9, <1>10
<1>13. /\ InOrder(S) \in SetToSeqs(S)
       /\ \A i, j \in DOMAIN InOrder(S) : i < j => InOrder(S)[i] < InOrder(S)[j]
  BY <1>11, <1>12 DEF InOrder
<1>14. InOrder(S) \in [1..k -> S] /\ \A i, j \in 1..k : i # j => InOrder(S)[i] # InOrder(S)[j]
  BY <1>13 DEF SetToSeqs
<1>15. InOrder(S) \in Surjection(1..k, S)
  <2>1. InOrder(S) \in Injection(1..k, S)  BY <1>14 DEF Injection, IsInjective
  <2> QED  BY <1>1, <1>6, <2>1, FS_Injection
<1> QED  BY <1>1, <1>13, <1>14, <1>15 DEF Surjection
\* The outcomes of a set of accounts are emitted once each, and nothing else is.
LEMMA Ordered ==
    ASSUME NEW S \in SUBSET Accounts
    PROVE  InOrder(S) \in Seq(Accounts) /\ ToSet(InOrder(S)) = S
<1> DEFINE n == Cardinality(S)
<1>1. NAccounts \in Nat  BY RunnerAssumption
<1>2. /\ n \in Nat /\ InOrder(S) \in [1..n -> S]
      /\ \A x \in S : \E i \in 1..n : InOrder(S)[i] = x
  BY <1>1, Ranks DEF Accounts
<1> HIDE DEF n
<1>3. InOrder(S) \in [1..n -> Accounts]  BY <1>2
<1>4. InOrder(S) \in Seq(Accounts)  BY <1>2, <1>3, SeqDef
<1>5. ToSet(InOrder(S)) = S  BY <1>2 DEF ToSet
<1> QED  BY <1>4, <1>5

\* The least account of a set.
LEMMA LeastAccount ==
    ASSUME NEW S \in SUBSET Accounts, S # {}
    PROVE  Min(S) \in S
<1> DEFINE n == Cardinality(S)
<1>1. NAccounts \in Nat  BY RunnerAssumption
<1>2. /\ n \in Nat /\ InOrder(S) \in [1..n -> S]
      /\ \A i, j \in 1..n : i < j => InOrder(S)[i] < InOrder(S)[j]
      /\ \A x \in S : \E i \in 1..n : InOrder(S)[i] = x
  BY <1>1, Ranks DEF Accounts
<1>3. \A x \in S : x \in Int  BY DEF Accounts
<1> HIDE DEF n
<1>4. 1 \in 1..n  BY <1>2
<1>5. ASSUME NEW x \in S PROVE InOrder(S)[1] <= x
  <2>1. PICK i \in 1..n : InOrder(S)[i] = x  BY <1>2
  <2>2. InOrder(S)[1] \in Int  BY <1>2, <1>3, <1>4
  <2>3. CASE i = 1  BY <2>1, <2>2, <2>3
  <2>4. CASE 1 < i  BY <1>2, <1>3, <1>4, <2>1, <2>2, <2>4
  <2> QED  BY <1>2, <2>3, <2>4
<1>6. \E x \in S : \A y \in S : x =< y  BY <1>2, <1>4, <1>5
<1> QED  BY <1>6 DEF Min

\* The best of some POSTs of an account is one of them.
LEMMA BestIsOne ==
    ASSUME NEW a \in Accounts, NEW S \in SUBSET PostsOf(a), S # {}
    PROVE  Best(S) \in S
<1> DEFINE N == {p[2] : p \in S}
           n == Cardinality(N)
<1>1. NPosts \in Nat  BY RunnerAssumption
<1>2. \A p \in S : p[2] \in 1..NPosts  BY DEF PostsOf, Posts
<1>3. N \in SUBSET (1..NPosts)  BY <1>2
<1>4. /\ n \in Nat /\ InOrder(N) \in [1..n -> N]
      /\ \A i, j \in 1..n : i < j => InOrder(N)[i] < InOrder(N)[j]
      /\ \A x \in N : \E i \in 1..n : InOrder(N)[i] = x
  BY <1>1, <1>3, Ranks
<1>5. \A x \in N : x \in Int  BY <1>3
<1>6. N # {}  OBVIOUS
<1> HIDE DEF N, n
<1>7. 1 \in 1..n  BY <1>4, <1>6
<1>8. ASSUME NEW x \in N PROVE InOrder(N)[1] <= x
  <2>1. PICK i \in 1..n : InOrder(N)[i] = x  BY <1>4
  <2>2. InOrder(N)[1] \in Int  BY <1>4, <1>5, <1>7
  <2>3. CASE i = 1  BY <2>1, <2>2, <2>3
  <2>4. CASE 1 < i  BY <1>4, <1>5, <1>7, <2>1, <2>2, <2>4
  <2> QED  BY <1>4, <2>3, <2>4
<1>9. PICK p \in S : p[2] = InOrder(N)[1]
  <2>1. InOrder(N)[1] \in N  BY <1>4, <1>7
  <2> QED  BY <2>1 DEF N
<1>10. \A q \in S : p[2] <= q[2]  BY <1>8, <1>9 DEF N
<1> QED  BY <1>10 DEF Best

\* Taking the first outcome off the queue, and emitting some more.
LEMMA FirstOut ==
    ASSUME NEW q \in Seq(Accounts), q # <<>>
    PROVE  /\ Head(q) \in Accounts /\ Tail(q) \in Seq(Accounts)
           /\ ToSet(q) = {Head(q)} \cup ToSet(Tail(q))
<1>1. /\ Head(q) \in Accounts /\ Tail(q) \in Seq(Accounts)
      /\ Len(Tail(q)) = Len(q) - 1 /\ Len(q) \in Nat /\ Len(q) # 0
      /\ \A i \in 1..Len(Tail(q)) : Tail(q)[i] = q[i + 1]
  BY HeadTailProperties, LenProperties, EmptySeq
<1>2. /\ DOMAIN q = 1..Len(q) /\ DOMAIN Tail(q) = 1..Len(Tail(q)) /\ Head(q) = q[1]
  BY <1>1, LenProperties
<1>3. ASSUME NEW x \in ToSet(q) PROVE x = Head(q) \/ x \in ToSet(Tail(q))
  <2>1. PICK i \in 1..Len(q) : x = q[i]  BY <1>2 DEF ToSet
  <2>2. CASE i = 1  BY <1>2, <2>1, <2>2
  <2>3. CASE i # 1
    <3>1. i - 1 \in 1..Len(Tail(q)) /\ Tail(q)[i - 1] = q[(i - 1) + 1] /\ (i - 1) + 1 = i
      BY <1>1, <2>3
    <3> QED  BY <1>2, <2>1, <3>1 DEF ToSet
  <2> QED  BY <2>2, <2>3
<1>4. Head(q) \in ToSet(q)  BY <1>1, <1>2 DEF ToSet
<1>5. ASSUME NEW x \in ToSet(Tail(q)) PROVE x \in ToSet(q)
  <2>1. PICK i \in 1..Len(Tail(q)) : x = Tail(q)[i]  BY <1>2 DEF ToSet
  <2>2. i + 1 \in 1..Len(q) /\ x = q[i + 1]  BY <1>1, <2>1
  <2> QED  BY <1>2, <2>2 DEF ToSet
<1> QED  BY <1>1, <1>3, <1>4, <1>5

LEMMA MoreIn ==
    ASSUME NEW q \in Seq(Accounts), NEW s \in Seq(Accounts)
    PROVE  q \o s \in Seq(Accounts) /\ ToSet(q \o s) = ToSet(q) \cup ToSet(s)
<1>1. /\ q \o s \in Seq(Accounts) /\ Len(q \o s) = Len(q) + Len(s)
      /\ Len(q) \in Nat /\ Len(s) \in Nat
      /\ \A i \in 1 .. Len(q) + Len(s) : (q \o s)[i] = IF i <= Len(q) THEN q[i] ELSE s[i - Len(q)]
  BY ConcatProperties, LenProperties
<1>2. DOMAIN q = 1..Len(q) /\ DOMAIN s = 1..Len(s) /\ DOMAIN (q \o s) = 1 .. Len(q) + Len(s)
  BY <1>1, LenProperties
<1>3. ASSUME NEW x \in ToSet(q \o s) PROVE x \in ToSet(q) \cup ToSet(s)
  <2>1. PICK i \in 1 .. Len(q) + Len(s) : x = (q \o s)[i]  BY <1>2 DEF ToSet
  <2>2. CASE i <= Len(q)  BY <1>1, <1>2, <2>1, <2>2 DEF ToSet
  <2>3. CASE ~(i <= Len(q))
    <3>1. i - Len(q) \in 1..Len(s) /\ x = s[i - Len(q)]  BY <1>1, <2>1, <2>3
    <3> QED  BY <1>2, <3>1 DEF ToSet
  <2> QED  BY <2>2, <2>3
<1>4. ASSUME NEW x \in ToSet(q) PROVE x \in ToSet(q \o s)
  <2>1. PICK i \in 1..Len(q) : x = q[i]  BY <1>2 DEF ToSet
  <2>2. i \in 1 .. Len(q) + Len(s) /\ x = (q \o s)[i]  BY <1>1, <2>1
  <2> QED  BY <1>2, <2>2 DEF ToSet
<1>5. ASSUME NEW x \in ToSet(s) PROVE x \in ToSet(q \o s)
  <2>1. PICK i \in 1..Len(s) : x = s[i]  BY <1>2 DEF ToSet
  <2>2. Len(q) + i \in 1 .. Len(q) + Len(s) /\ x = (q \o s)[Len(q) + i]  BY <1>1, <2>1
  <2> QED  BY <1>2, <2>2 DEF ToSet
<1> QED  BY <1>1, <1>3, <1>4, <1>5

-----------------------------------------------------------------------------
(* The invariant *)

Before == {"read", "claim", "prepare"}
Racing == {"race", "cut"}
Draining == {"drain", "collapse", "shed"}
\* What a POST that may have made a reservation has come to.
Made == {"flying", "lost", "booked", "kept"}

Rows == [status : {"pending", "booked", "withdrawn"}, raw : 0..Prior,
         lease : {"none", "b", "x"}, reconcile : BOOLEAN]
Ledger == {"none", "held", "held_extra", "cancelled_extra", "cancelled_group"}
Heard == {"idle", "gone", "captcha", "cut"} \cup Made
Results == {"none", "decrypt", "booked", "already", "miss", "auth", "captcha", "error", "deadline"}
Jobs == [stage : Before \cup Racing \cup Draining \cup {"done", "killed"},
         todo : SUBSET Accounts, claimed : SUBSET Accounts, written : SUBSET Accounts,
         failed : SUBSET Accounts, systemic : BOOLEAN, hit : BOOLEAN,
         exit : {"none", "ok", "systemic"}, told : SUBSET Accounts]

\* The clock of a run counts from its start to the last of its deadlines.
ClockOK == started \in Starts /\ now \in started..WriterDeadline

RunTypeOK ==
    /\ ClockOK
    /\ row \in [Accounts -> Rows]
    /\ led \in [Posts -> Ledger] /\ st \in [Posts -> Heard]
    /\ live \subseteq Posts /\ served \subseteq Posts /\ prior \subseteq Accounts
    /\ task \in [Accounts -> {"none", "run", "out"}] /\ result \in [Accounts -> Results]
    /\ queue \in Seq(Accounts)
    /\ job \in Jobs /\ mishaps \in Nat

\* A POST: who may still wait for it, and what the course and the ledger may hold of it.
WireOK ==
    \A p \in Posts :
        /\ st[p] = "flying" => task[p[1]] = "run"
        /\ st[p] # "idle" => task[p[1]] # "none"
        /\ p \in live => p \in served /\ st[p] \in Made
        /\ p \in served => st[p] \notin {"idle", "gone", "captcha"}
        /\ led[p] # "none" => st[p] \in {"booked", "kept", "cut"}

\* The accounts whose outcome was emitted.
Reported == ToSet(queue) \cup job.written \cup job.failed

\* A task: only of a claimed row, over before it is reported, over before the collapse.
TasksOK ==
    /\ \A a \in Accounts :
        /\ task[a] # "none" \/ result[a] # "none" => a \in job.claimed
        /\ task[a] = "run" => result[a] = "none"
        /\ result[a] = "booked" => In(a, {"booked"}) # {}
        /\ a \in Reported => result[a] # "none"
        /\ job.stage \in Before => task[a] = "none" /\ result[a] = "none"
        /\ job.stage \in Draining \cup {"done"} => task[a] # "run"
    /\ job.stage = "read" => job.claimed = {}
    /\ job.stage = "shed" => job.todo # {}
    /\ job.stage \in {"collapse", "shed"} => queue = <<>>

\* No claimed row is forgotten: its task runs, or is over and unheard of, or its outcome is
\* on its way, written or dumped.
AllAccounted ==
    \A a \in job.claimed :
        /\ job.stage \in Racing \cup Draining =>
            /\ result[a] # "none" => a \in Reported
            /\ result[a] = "none" => task[a] # "none"
        /\ job.stage \in Draining => result[a] # "none"
        /\ job.stage = "done" /\ task[a] # "none" => a \in job.written \cup job.failed

\* What a written outcome leaves behind.
WrittenOK ==
    \A p \in Posts : p[1] \in job.written =>
        /\ st[p] \in {"booked", "kept"} /\ p \in live => led[p] \in {"held", "held_extra"}
        /\ st[p] = "lost" => row[p[1]].reconcile

\* What the collapse writes off is cancelled already.
ShedGone ==
    job.stage = "shed" =>
        /\ <<Min(job.todo), row[Min(job.todo)].raw>> \notin live
        /\ <<Min(job.todo), row[Min(job.todo)].raw>> \in Posts
              => led[<<Min(job.todo), row[Min(job.todo)].raw>>] # "none"

\* What exit 0 stands for.
ExitOK ==
    job.exit = "ok" => /\ job.stage = "done" /\ job.written = job.claimed /\ job.told = job.claimed
                       /\ \A p \in Posts : st[p] # "lost"

RunInv == RunTypeOK /\ WireOK /\ TasksOK /\ AllAccounted /\ WrittenOK /\ ShedGone /\ ExitOK

\* The lease of a row: from the claim until its outcome is written.
LeasesOK ==
    \A a \in Accounts :
        task[a] = "run" \/ (job.stage \in {"claim", "prepare"} /\ a \in job.claimed) => row[a].lease = "b"

-----------------------------------------------------------------------------
(* Types *)

LEMMA RowHelpers ==
    ASSUME NEW r \in Rows
    PROVE  /\ Unleased(r) \in Rows /\ Unleased(r).reconcile = r.reconcile
           /\ Unleased(r).raw = r.raw /\ Unleased(r).status = r.status
           /\ Flagged(r) \in Rows /\ Flagged(r).lease = r.lease /\ Flagged(r).raw = r.raw
           /\ r.reconcile => Flagged(r).reconcile
BY DEF Rows, Unleased, Flagged

\* The end of a run: nothing but its stage, its exit and what was told.
LEMMA EndingEffect ==
    ASSUME NEW j \in Jobs, mishaps \in Nat, Ending(j)
    PROVE  /\ mishaps' \in Nat /\ job' \in Jobs /\ job'.stage = "done"
           /\ job'.claimed = j.claimed /\ job'.written = j.written /\ job'.failed = j.failed
           /\ job'.exit = "ok" => ~j.systemic /\ job'.told = j.claimed
<1> DEFINE e == IF j.systemic THEN "systemic" ELSE "ok"
<1>1. e \in {"ok", "systemic"} /\ (e = "ok" => ~j.systemic)  OBVIOUS
<1>2. mishaps' \in Nat  BY DEF Ending, Fine, Mishap
<1>3. \/ job' = [j EXCEPT !.stage = "done", !.exit = e, !.told = j.claimed]
      \/ job' = [j EXCEPT !.stage = "done", !.exit = "systemic"]
  BY DEF Ending
<1> HIDE DEF e
<1> QED  BY <1>1, <1>2, <1>3 DEF Jobs

LEMMA SystemicEffect ==
    ASSUME NEW j \in Jobs
    PROVE  /\ Systemic(j) \in Jobs /\ Systemic(j).stage = "done" /\ Systemic(j).exit = "systemic"
           /\ Systemic(j).claimed = j.claimed /\ Systemic(j).written = j.written
           /\ Systemic(j).failed = j.failed
BY DEF Systemic, Jobs

\* The POST a booked row stands for is one of the account's, or the reservation of before.
LEMMA KeptTyped ==
    ASSUME RunTypeOK, TasksOK, NEW a \in Accounts
    PROVE  Kept(a) \in 0..Prior
<1>1. NPosts \in Nat /\ Prior = NPosts + 1  BY RunnerAssumption DEF Prior
<1>2. \A p \in PostsOf(a) : p[2] \in 1..NPosts  BY DEF PostsOf, Posts
<1>3. CASE result[a] = "booked"
  <2>1. In(a, {"booked"}) # {} /\ In(a, {"booked"}) \in SUBSET PostsOf(a)
    BY <1>3 DEF TasksOK, In
  <2>2. Best(In(a, {"booked"})) \in PostsOf(a)  BY <2>1, BestIsOne
  <2>3. Best(In(a, {"booked"}))[2] \in 1..NPosts  BY <1>2, <2>2
  <2>4. Kept(a) = Best(In(a, {"booked"}))[2]  BY <1>3 DEF Kept
  <2> QED  BY <1>1, <2>3, <2>4
<1>4. CASE result[a] # "booked" /\ In(a, {"lost"}) \cap live # {}
  <2>1. In(a, {"lost"}) \cap live \in SUBSET PostsOf(a)  BY DEF In
  <2>2. Best(In(a, {"lost"}) \cap live) \in PostsOf(a)  BY <1>4, <2>1, BestIsOne
  <2>3. Best(In(a, {"lost"}) \cap live)[2] \in 1..NPosts  BY <1>2, <2>2
  <2>4. Kept(a) = Best(In(a, {"lost"}) \cap live)[2]  BY <1>4 DEF Kept
  <2> QED  BY <1>1, <2>3, <2>4
<1>5. CASE result[a] # "booked" /\ ~(In(a, {"lost"}) \cap live # {})
  <2>1. Kept(a) = Prior  BY <1>5 DEF Kept
  <2> QED  BY <1>1, <2>1
<1> QED  BY <1>3, <1>4, <1>5

LEMMA OutcomeRowEffect ==
    ASSUME RunTypeOK, TasksOK, NEW a \in Accounts
    PROVE  /\ OutcomeRow(a) \in Rows
           /\ Uncertain(a) => OutcomeRow(a).reconcile
<1>1. row[a] \in Rows /\ Kept(a) \in 0..Prior  BY KeptTyped DEF RunTypeOK
<1>2. Uncertain(a) \in BOOLEAN  BY DEF Uncertain
<1> DEFINE r1 == [row[a] EXCEPT !.status = "booked", !.raw = Kept(a), !.reconcile = Uncertain(a)]
           r2 == [row[a] EXCEPT !.reconcile = row[a].reconcile \/ Uncertain(a)]
<1>3. r1 \in Rows /\ r1.reconcile = Uncertain(a)
  <2> DEFINE k == Kept(a)
             u == Uncertain(a)
  <2> HIDE DEF k, u
  <2>1. k \in 0..Prior /\ u \in BOOLEAN  BY <1>1, <1>2 DEF k, u
  <2>2. /\ [row[a] EXCEPT !.status = "booked", !.raw = k, !.reconcile = u] \in Rows
        /\ [row[a] EXCEPT !.status = "booked", !.raw = k, !.reconcile = u].reconcile = u
    BY <1>1, <2>1 DEF Rows
  <2> QED  BY <2>2 DEF k, u
<1>4. r2 \in Rows /\ (Uncertain(a) => r2.reconcile)
  <2> DEFINE u == row[a].reconcile \/ Uncertain(a)
  <2>1. u \in BOOLEAN  BY <1>1, <1>2 DEF Rows
  <2>2. Uncertain(a) => u  OBVIOUS
  <2> HIDE DEF u
  <2>3. [row[a] EXCEPT !.reconcile = u] \in Rows /\ [row[a] EXCEPT !.reconcile = u].reconcile = u
    BY <1>1, <2>1 DEF Rows
  <2> QED  BY <2>2, <2>3 DEF u
<1>5. OutcomeRow(a) = Unleased(r1) \/ OutcomeRow(a) = Unleased(r2)  BY DEF OutcomeRow
<1> HIDE DEF r1, r2
<1> QED  BY <1>3, <1>4, <1>5, RowHelpers

\* What an outcome does to the rows and to the ledger.
LEMMA Recording ==
    ASSUME RunTypeOK, TasksOK, NEW a \in Accounts
    PROVE  /\ Recorded(a) \in [Accounts -> Rows] /\ RecordedTwice(a) \in [Accounts -> Rows]
           /\ \A x \in Accounts : x # a => Recorded(a)[x] = row[x] /\ RecordedTwice(a)[x] = row[x]
           /\ Uncertain(a) /\ (Accepted(a) \/ row[a].reconcile) => Recorded(a)[a].reconcile
           /\ Uncertain(a) => RecordedTwice(a)[a].reconcile
<1>1. row \in [Accounts -> Rows] /\ row[a] \in Rows  BY DEF RunTypeOK
<1>2. /\ OutcomeRow(a) \in Rows /\ (Uncertain(a) => OutcomeRow(a).reconcile)
      /\ Flagged(row[a]) \in Rows /\ (row[a].reconcile => Flagged(row[a]).reconcile)
  BY <1>1, OutcomeRowEffect, RowHelpers
<1>3. /\ Flagged(OutcomeRow(a)) \in Rows
      /\ OutcomeRow(a).reconcile => Flagged(OutcomeRow(a)).reconcile
  BY <1>2, RowHelpers
<1> QED  BY <1>1, <1>2, <1>3 DEF Recorded, RecordedTwice

LEMMA Ledgering ==
    ASSUME RunTypeOK, NEW a \in Accounts
    PROVE  /\ Ledgered(a) \in [Posts -> Ledger]
           /\ \A p \in Posts :
                /\ p[1] = a /\ st[p] \in {"booked", "kept"} => Ledgered(a)[p] \in {"held", "held_extra"}
                /\ p[1] # a => Ledgered(a)[p] = led[p]
                /\ st[p] \notin {"booked", "kept", "cut"} => Ledgered(a)[p] = led[p]
<1>1. ASSUME NEW p \in Posts
      PROVE  /\ LedgerFor(a, p) \in Ledger
             /\ st[p] \in {"booked", "kept"} => LedgerFor(a, p) \in {"held", "held_extra"}
             /\ st[p] \notin {"booked", "kept", "cut"} => LedgerFor(a, p) = led[p]
  <2>1. led[p] \in Ledger  BY DEF RunTypeOK
  <2>2. CASE st[p] = "booked"  BY <2>2 DEF LedgerFor, Ledger
  <2>3. CASE st[p] = "kept"  BY <2>3 DEF LedgerFor, Ledger
  <2>4. CASE st[p] = "cut"  BY <2>4 DEF LedgerFor, Ledger
  <2>5. CASE st[p] \notin {"booked", "kept", "cut"}  BY <2>1, <2>5 DEF LedgerFor
  <2> QED  BY <2>2, <2>3, <2>4, <2>5
<1> QED  BY <1>1 DEF Ledgered, RunTypeOK

-----------------------------------------------------------------------------
(* What the steps before the race and around it change *)

\* Until the race nothing but the job, and by the claims the rows, changes.
LEMMA ReadEffect ==
    ASSUME RunTypeOK, ReadEvents \/ ConfigFails
    PROVE  /\ job.stage = "read" /\ UNCHANGED <<clock, row, led, engine>>
           /\ mishaps' \in Nat /\ job' \in Jobs /\ job'.stage \in {"claim", "done"}
           /\ job'.claimed = job.claimed /\ job'.written = job.written /\ job'.failed = job.failed
           /\ job'.exit = "ok" => (job'.stage = "done" /\ job'.told = job.claimed) \/ job.exit = "ok"
<1>1. job \in Jobs /\ mishaps \in Nat  BY DEF RunTypeOK
<1>2. CASE ConfigFails
  BY <1>1, <1>2, SystemicEffect DEF ConfigFails, Stage, Mishap
<1>3. CASE ReadEvents
  <2>1. job.stage = "read" /\ UNCHANGED <<clock, row, led, engine>>  BY <1>3 DEF ReadEvents, Stage
  <2>2. CASE StoreFails
    BY <1>1, <2>1, <2>2, SystemicEffect DEF StoreFails, Mishap
  <2>3. CASE Ending(job)  BY <1>1, <2>1, <2>3, EndingEffect
  <2>4. CASE \E t \in SUBSET Accounts :
                /\ job' = [job EXCEPT !.stage = "claim", !.todo = t] /\ mishaps' \in Nat
    BY <1>1, <2>1, <2>4 DEF Jobs, Before, Racing, Draining
  <2>5. StoreFails \/ Ending(job)
        \/ \E t \in SUBSET Accounts :
                /\ job' = [job EXCEPT !.stage = "claim", !.todo = t] /\ mishaps' \in Nat
    <3>1. Pending \in SUBSET Accounts  BY DEF Pending
    <3>2. ASSUME NEW f \in {Floored, {}},
                 LET todo == Pending \ f IN
                 IF todo = {} THEN f = Floored /\ Ending(job)
                 ELSE /\ IF f = Floored THEN Fine ELSE Mishap("group")
                      /\ job' = [job EXCEPT !.stage = "claim", !.todo = todo]
          PROVE  Ending(job)
                 \/ \E t \in SUBSET Accounts :
                      /\ job' = [job EXCEPT !.stage = "claim", !.todo = t] /\ mishaps' \in Nat
      <4>1. CASE Pending \ f = {}  BY <3>2, <4>1
      <4>2. CASE Pending \ f # {}
        <5>1. mishaps' \in Nat  BY <1>1, <3>2, <4>2 DEF Fine, Mishap
        <5>2. job' = [job EXCEPT !.stage = "claim", !.todo = Pending \ f]  BY <3>2, <4>2
        <5>3. Pending \ f \in SUBSET Accounts  BY <3>1
        <5> QED  BY <5>1, <5>2, <5>3
      <4> QED  BY <4>1, <4>2
    <3> QED  BY <1>3, <3>2 DEF ReadEvents
  <2> QED  BY <2>2, <2>3, <2>4, <2>5
<1> QED  BY <1>2, <1>3

\* A claim marks rows as the run's, and never one that another writer holds.
LEMMA ClaimedEffect ==
    ASSUME RunTypeOK, NEW C \in SUBSET Accounts
    PROVE  /\ ClaimedRows(C) \in [Accounts -> Rows]
           /\ \A a \in Accounts :
                /\ ClaimedRows(C)[a].reconcile = row[a].reconcile
                /\ ClaimedRows(C)[a].lease = row[a].lease \/ ClaimedRows(C)[a].lease = "b"
                /\ a \in C /\ row[a].lease # "x" => ClaimedRows(C)[a].lease = "b"
<1>1. ASSUME NEW a \in Accounts
      PROVE  /\ [row[a] EXCEPT !.lease = "b"] \in Rows /\ row[a] \in Rows
             /\ [row[a] EXCEPT !.lease = "b"].lease = "b"
             /\ [row[a] EXCEPT !.lease = "b"].reconcile = row[a].reconcile
  BY DEF RunTypeOK, Rows
<1> QED  BY <1>1 DEF ClaimedRows

LEMMA ClaimEffect ==
    ASSUME RunTypeOK, Claim
    PROVE  /\ job.stage = "claim" /\ UNCHANGED <<clock, led, engine>>
           /\ mishaps' \in Nat /\ job' \in Jobs /\ job'.stage \in {"claim", "prepare", "done"}
           /\ job'.written = job.written /\ job'.failed = job.failed
           /\ job.claimed \subseteq job'.claimed
           /\ job'.exit = "ok" => (job'.stage = "done" /\ job'.told = job'.claimed /\ job'.claimed = {})
                                     \/ job.exit = "ok"
           /\ row' \in [Accounts -> Rows]
           /\ \A a \in Accounts : row'[a].reconcile = row[a].reconcile
           /\ \A a \in Accounts : row[a].lease = "b" => row'[a].lease = "b"
           /\ job'.stage # "done" => \A a \in job'.claimed \ job.claimed : row'[a].lease = "b"
<1> DEFINE got == Claimable(job.todo)
           rest == job.todo \ got
           all == job.claimed \cup got
           j == [job EXCEPT !.claimed = all, !.todo = rest]
<1>1. job \in Jobs /\ mishaps \in Nat /\ job.todo \in SUBSET Accounts /\ job.claimed \in SUBSET Accounts
  BY DEF RunTypeOK, Jobs
<1>2. got \in SUBSET Accounts /\ \A a \in got : row[a].lease # "x"
  BY <1>1 DEF Claimable, Alive
<1>3. job.stage = "claim" /\ UNCHANGED <<clock, led, engine>>  BY DEF Claim, Stage
<1>4. /\ j \in Jobs /\ j.claimed = all /\ j.written = job.written /\ j.failed = job.failed
      /\ j.exit = job.exit /\ j.stage = "claim"
  <2> HIDE DEF got
  <2>1. rest \in SUBSET Accounts /\ all \in SUBSET Accounts  BY <1>1, <1>2
  <2> HIDE DEF rest, all
  <2> QED  BY <1>1, <1>3, <2>1 DEF Jobs
<1>5. \/ /\ row' = ClaimedRows(got)
         /\ \/ Fine /\ job' = j
            \/ Ending(j) /\ all = {}
            \/ Fine /\ job' = [j EXCEPT !.stage = "prepare"]
      \/ StoreFails /\ \E part \in SUBSET got : row' = ClaimedRows(part)
  BY DEF Claim
<1> HIDE DEF got, rest, all, j
<1>6. ASSUME StoreFails, NEW part \in SUBSET got, row' = ClaimedRows(part)
      PROVE  /\ mishaps' \in Nat /\ job' \in Jobs /\ job'.stage = "done"
             /\ job'.written = job.written /\ job'.failed = job.failed
             /\ job'.claimed = job.claimed /\ job'.exit # "ok"
             /\ row' \in [Accounts -> Rows]
             /\ \A a \in Accounts : row'[a].reconcile = row[a].reconcile
             /\ \A a \in Accounts : row[a].lease = "b" => row'[a].lease = "b"
  <2>1. part \in SUBSET Accounts  BY <1>2
  <2>2. /\ mishaps' \in Nat /\ job' \in Jobs /\ job'.stage = "done"
        /\ job'.written = job.written /\ job'.failed = job.failed
        /\ job'.claimed = job.claimed /\ job'.exit # "ok"
    BY <1>1, <1>6, SystemicEffect DEF StoreFails, Mishap
  <2> QED  BY <1>6, <2>1, <2>2, ClaimedEffect
<1>7. ASSUME row' = ClaimedRows(got)
      PROVE  /\ row' \in [Accounts -> Rows]
             /\ \A a \in Accounts : row'[a].reconcile = row[a].reconcile
             /\ \A a \in Accounts : row[a].lease = "b" => row'[a].lease = "b"
             /\ \A a \in got : row'[a].lease = "b"
  BY <1>2, <1>7, ClaimedEffect
<1>8. CASE row' = ClaimedRows(got) /\ Fine /\ job' = j
  BY <1>1, <1>3, <1>4, <1>7, <1>8 DEF all, Fine
<1>9. CASE row' = ClaimedRows(got) /\ Ending(j) /\ all = {}
  BY <1>1, <1>3, <1>4, <1>7, <1>9, EndingEffect DEF all
<1>10. CASE row' = ClaimedRows(got) /\ Fine /\ job' = [j EXCEPT !.stage = "prepare"]
  <2>1. /\ job' \in Jobs /\ job'.stage = "prepare" /\ job'.claimed = j.claimed
        /\ job'.written = j.written /\ job'.failed = j.failed /\ job'.exit = j.exit
    BY <1>4, <1>10 DEF Jobs, Before
  <2> QED  BY <1>1, <1>3, <1>4, <1>7, <1>10, <2>1 DEF all, Fine
<1> QED  BY <1>3, <1>5, <1>6, <1>8, <1>9, <1>10

LEMMA PrepareFailsEffect ==
    ASSUME RunTypeOK, PrepareFails
    PROVE  /\ job.stage = "prepare" /\ UNCHANGED <<clock, led, engine>>
           /\ mishaps' \in Nat /\ job' \in Jobs /\ job'.stage = "done"
           /\ job'.claimed = job.claimed /\ job'.written = job.written /\ job'.failed = job.failed
           /\ job'.exit # "ok"
           /\ row' \in [Accounts -> Rows]
           /\ \A a \in Accounts : row'[a].reconcile = row[a].reconcile
<1>1. job \in Jobs /\ mishaps \in Nat /\ row \in [Accounts -> Rows]  BY DEF RunTypeOK
<1>2. PICK back \in SUBSET job.claimed :
          row' = [a \in Accounts |-> IF a \in back THEN Unleased(row[a]) ELSE row[a]]
  BY DEF PrepareFails
<1>3. \A a \in Accounts : /\ Unleased(row[a]) \in Rows
                          /\ Unleased(row[a]).reconcile = row[a].reconcile
  BY <1>1, RowHelpers
<1> QED  BY <1>1, <1>2, <1>3, SystemicEffect DEF PrepareFails, Stage, Mishap

LEMMA TypesInit == RInit => RunTypeOK
<1> SUFFICES ASSUME RInit PROVE RunTypeOK  OBVIOUS
<1>1. ClockOK
  <2>1. started \in Starts /\ now = started  BY DEF RInit
  <2> QED  BY <2>1, RunnerAssumption DEF ClockOK, WriterDeadline, SelfDeadlineAt
<1>2. Job \in Jobs  BY DEF Job, Jobs, Before
<1>3. NPosts + 1 \in Nat  BY RunnerAssumption
<1>4. row \in [Accounts -> Rows]  BY <1>3 DEF RInit, Rows, Prior
<1>5. queue \in Seq(Accounts)  BY EmptySeq DEF RInit
<1> QED  BY <1>1, <1>2, <1>4, <1>5 DEF RInit, RunTypeOK, Ledger, Heard, Results

\* One emitted outcome, or several.
LEMMA EmittingEffect ==
    ASSUME RunTypeOK, NEW S \in SUBSET Accounts, NEW how \in Results, Emitting(S, how)
    PROVE  /\ queue' \in Seq(Accounts) /\ ToSet(queue') = ToSet(queue) \cup S
           /\ result' = [a \in Accounts |-> IF a \in S THEN how ELSE result[a]]
           /\ result' \in [Accounts -> Results]
<1>1. queue' = queue \o InOrder(S)  BY DEF Emitting
<1>2. InOrder(S) \in Seq(Accounts) /\ ToSet(InOrder(S)) = S  BY Ordered
<1>3. queue \in Seq(Accounts)  BY DEF RunTypeOK
<1>4. queue' \in Seq(Accounts) /\ ToSet(queue') = ToSet(queue) \cup S  BY <1>1, <1>2, <1>3, MoreIn
<1>5. result' = [a \in Accounts |-> IF a \in S THEN how ELSE result[a]]  BY DEF Emitting
<1>6. result \in [Accounts -> Results]  BY DEF RunTypeOK
<1> QED  BY <1>4, <1>5, <1>6

\* One written, dumped or failed outcome, the first of the queue.
LEMMA WriteEffect ==
    ASSUME RunTypeOK, TasksOK, Write
    PROVE  \E a \in Accounts :
             /\ job.stage \in Racing \cup {"drain"} /\ queue # <<>> /\ a \in ToSet(queue)
             /\ queue' \in Seq(Accounts) /\ ToSet(queue) = {a} \cup ToSet(queue')
             /\ UNCHANGED <<clock, st, live, served, prior, task, result>> /\ mishaps' \in Nat
             /\ job' \in Jobs /\ job'.stage = job.stage /\ job'.claimed = job.claimed
             /\ job'.exit = job.exit /\ job'.todo = job.todo
             /\ \/ /\ row' \in {Recorded(a), RecordedTwice(a)} /\ led' = Ledgered(a) /\ Accepted(a)
                   /\ job'.written = job.written \cup {a} /\ job'.failed = job.failed
                \/ /\ row' \in {row, Recorded(a), RecordedTwice(a)} /\ led' \in {led, Ledgered(a)}
                   /\ job'.written = job.written /\ job'.failed = job.failed \cup {a}
<1> DEFINE a == Head(queue)
<1>1. queue \in Seq(Accounts) /\ job \in Jobs /\ mishaps \in Nat  BY DEF RunTypeOK
<1>2. queue # <<>> /\ job.stage \in Racing \cup {"drain"}  BY DEF Write, Stage, Racing
<1>3. a \in Accounts /\ queue' \in Seq(Accounts) /\ ToSet(queue) = {a} \cup ToSet(queue')
  BY <1>1, <1>2, FirstOut DEF Write
<1>4. \/ Fine /\ row' = Recorded(a) /\ led' = Ledgered(a) /\ job' = Settled(job, a, Accepted(a))
      \/ /\ Mishap("again") /\ Accepted(a) /\ row' = RecordedTwice(a) /\ led' = Ledgered(a)
         /\ job' = Settled(job, a, ~Booked(a))
      \/ Mishap("write") /\ UNCHANGED <<row, led>> /\ job' = Settled(job, a, FALSE)
  BY DEF Write
<1>5. UNCHANGED <<clock, st, live, served, prior, task, result>>  BY DEF Write
<1> HIDE DEF a
<1>6. mishaps' \in Nat
  <2>1. mishaps' = mishaps \/ mishaps' = mishaps + 1  BY <1>4, Zenon DEF Fine, Mishap
  <2> QED  BY <1>1, <2>1
<1> DEFINE w == [job EXCEPT !.written = @ \cup {a}]
           f == [job EXCEPT !.failed = @ \cup {a}]
<1>7. /\ w \in Jobs /\ w.stage = job.stage /\ w.claimed = job.claimed /\ w.exit = job.exit
      /\ w.todo = job.todo /\ w.written = job.written \cup {a} /\ w.failed = job.failed
  BY <1>1, <1>3 DEF Jobs
<1>8. /\ f \in Jobs /\ f.stage = job.stage /\ f.claimed = job.claimed /\ f.exit = job.exit
      /\ f.todo = job.todo /\ f.written = job.written /\ f.failed = job.failed \cup {a}
  BY <1>1, <1>3 DEF Jobs
<1>9. \/ /\ row' \in {Recorded(a), RecordedTwice(a)} /\ led' = Ledgered(a) /\ Accepted(a)
         /\ job' = w
      \/ /\ row' \in {row, Recorded(a), RecordedTwice(a)} /\ led' \in {led, Ledgered(a)}
         /\ job' = f
  <2>1. CASE Fine /\ row' = Recorded(a) /\ led' = Ledgered(a) /\ job' = Settled(job, a, Accepted(a))
    <3>1. CASE Accepted(a)  BY <2>1, <3>1 DEF Settled
    <3>2. CASE ~Accepted(a)  BY <2>1, <3>2 DEF Settled
    <3> QED  BY <3>1, <3>2
  <2>2. CASE /\ Mishap("again") /\ Accepted(a) /\ row' = RecordedTwice(a) /\ led' = Ledgered(a)
             /\ job' = Settled(job, a, ~Booked(a))
    <3>1. CASE Booked(a)  BY <2>2, <3>1 DEF Settled
    <3>2. CASE ~Booked(a)  BY <2>2, <3>2 DEF Settled
    <3> QED  BY <3>1, <3>2
  <2>3. CASE Mishap("write") /\ UNCHANGED <<row, led>> /\ job' = Settled(job, a, FALSE)
    BY <2>3 DEF Settled
  <2> QED  BY <1>4, <2>1, <2>2, <2>3
<1> HIDE DEF w, f
<1> QED  BY <1>2, <1>3, <1>5, <1>6, <1>7, <1>8, <1>9

LEMMA WriterCutEffect ==
    ASSUME RunTypeOK, WriterCut
    PROVE  \E a \in Accounts :
             /\ job.stage = "drain" /\ a \in ToSet(queue) /\ queue' = <<>> /\ mishaps' = mishaps
             /\ UNCHANGED <<clock, st, live, served, prior, task, result>>
             /\ row' \in {row, Recorded(a)} /\ led' \in {led, Ledgered(a)}
             /\ job' \in Jobs /\ job'.stage = "collapse" /\ job'.claimed = job.claimed
             /\ job'.exit = job.exit
             /\ job'.written = job.written /\ job'.failed = job.failed \cup ToSet(queue)
<1>1. queue \in Seq(Accounts) /\ job \in Jobs /\ queue # <<>> /\ job.stage = "drain"
  BY DEF RunTypeOK, WriterCut, Stage
<1>2. Head(queue) \in Accounts /\ Head(queue) \in ToSet(queue)  BY <1>1, FirstOut
<1>3. ToSet(queue) \in SUBSET Accounts  BY <1>1, LenProperties DEF ToSet
<1>4. job' = [job EXCEPT !.stage = "collapse", !.todo = {}, !.failed = @ \cup ToSet(queue)]
  BY DEF WriterCut
<1>5. /\ job' \in Jobs /\ job'.stage = "collapse" /\ job'.claimed = job.claimed
      /\ job'.exit = job.exit /\ job'.written = job.written
      /\ job'.failed = job.failed \cup ToSet(queue)
  BY <1>1, <1>3, <1>4 DEF Jobs, Draining
<1> QED  BY <1>1, <1>2, <1>5 DEF WriterCut, Fine

LEMMA ShedEffect ==
    ASSUME RunTypeOK, Shed
    PROVE  /\ job.stage = "collapse" /\ UNCHANGED <<clock, led, st, served, prior, task, result, queue>>
           /\ mishaps' \in Nat /\ job' \in Jobs /\ job'.stage \in {"collapse", "shed"}
           /\ job'.claimed = job.claimed /\ job'.written = job.written /\ job'.failed = job.failed
           /\ job'.exit = job.exit /\ live' \subseteq live
           /\ row' \in [Accounts -> Rows]
           /\ \A a \in Accounts : row'[a].reconcile = row[a].reconcile
           /\ job'.stage = "shed" =>
                \E a \in Accounts : /\ Min(job'.todo) = a /\ job'.todo # {}
                                    /\ <<a, row'[a].raw>> \notin live'
                                    /\ led[<<a, row'[a].raw>>] \in {"held", "held_extra"}
<1> DEFINE a == Min(job.todo)
           p == <<a, row[a].raw>>
           free == Own(a) /\ row[a].lease # "x"
<1>1. job \in Jobs /\ row \in [Accounts -> Rows] /\ mishaps \in Nat /\ job.todo \in SUBSET Accounts
  BY DEF RunTypeOK, Jobs
<1>2. /\ job.stage = "collapse" /\ job.todo # {}
      /\ UNCHANGED <<clock, led, st, served, prior, task, result, queue>>
  BY DEF Shed, Stage
<1>3. a \in job.todo  BY <1>1, <1>2, LeastAccount
<1>4. \/ /\ free /\ Fine /\ live' = live \ {p} /\ row' = [row EXCEPT ![a].lease = "b"]
         /\ job' = [job EXCEPT !.stage = "shed"]
      \/ /\ \/ Mishap("cancel") /\ job' = [job EXCEPT !.todo = @ \ {a}] /\ live' \in {live, live \ {p}}
            \/ Mishap("throttle") /\ job' = [job EXCEPT !.todo = {}] /\ UNCHANGED live
         /\ row' = [row EXCEPT ![a] = Unleased(row[a])]
      \/ /\ Fine /\ job' = [job EXCEPT !.todo = @ \ {a}] /\ UNCHANGED <<live, row>>
  BY DEF Shed
<1>5. a \in Accounts /\ row[a] \in Rows /\ Unleased(row[a]) \in Rows
      /\ Unleased(row[a]).reconcile = row[a].reconcile
  BY <1>1, <1>3, RowHelpers
<1>6. free => led[p] \in {"held", "held_extra"}  BY DEF Own
<1> HIDE DEF a, free
<1>7. CASE /\ free /\ Fine /\ live' = live \ {p} /\ row' = [row EXCEPT ![a].lease = "b"]
           /\ job' = [job EXCEPT !.stage = "shed"]
  <2>1. /\ row' \in [Accounts -> Rows] /\ row'[a].raw = row[a].raw
        /\ \A x \in Accounts : row'[x].reconcile = row[x].reconcile
    BY <1>1, <1>5, <1>7 DEF Rows
  <2>2. /\ job' \in Jobs /\ job'.stage = "shed" /\ job'.todo = job.todo
        /\ job'.claimed = job.claimed /\ job'.written = job.written /\ job'.failed = job.failed
        /\ job'.exit = job.exit
    BY <1>1, <1>7 DEF Jobs, Draining
  <2>3. Min(job'.todo) = a  BY <2>2 DEF a
  <2>4. <<a, row'[a].raw>> \notin live' /\ led[<<a, row'[a].raw>>] \in {"held", "held_extra"}
    BY <1>6, <1>7, <2>1
  <2>5. mishaps' \in Nat /\ live' \subseteq live  BY <1>1, <1>7 DEF Fine
  <2> HIDE DEF p
  <2> QED  BY <1>2, <1>5, <2>1, <2>2, <2>3, <2>4, <2>5
<1>8. CASE /\ \/ Mishap("cancel") /\ job' = [job EXCEPT !.todo = @ \ {a}] /\ live' \in {live, live \ {p}}
              \/ Mishap("throttle") /\ job' = [job EXCEPT !.todo = {}] /\ UNCHANGED live
           /\ row' = [row EXCEPT ![a] = Unleased(row[a])]
  <2>1. /\ row' \in [Accounts -> Rows]
        /\ \A x \in Accounts : row'[x].reconcile = row[x].reconcile
    BY <1>1, <1>5, <1>8
  <2>2. mishaps' \in Nat /\ live' \subseteq live  BY <1>1, <1>8 DEF Mishap
  <2>3. /\ job' \in Jobs /\ job'.stage = job.stage
        /\ job'.claimed = job.claimed /\ job'.written = job.written /\ job'.failed = job.failed
        /\ job'.exit = job.exit
    BY <1>1, <1>8 DEF Jobs
  <2> QED  BY <1>2, <2>1, <2>2, <2>3
<1>9. CASE Fine /\ job' = [job EXCEPT !.todo = @ \ {a}] /\ UNCHANGED <<live, row>>
  <2>1. /\ job' \in Jobs /\ job'.stage = job.stage
        /\ job'.claimed = job.claimed /\ job'.written = job.written /\ job'.failed = job.failed
        /\ job'.exit = job.exit
    BY <1>1, <1>9 DEF Jobs
  <2> QED  BY <1>1, <1>2, <1>9, <2>1 DEF Fine
<1> QED  BY <1>4, <1>7, <1>8, <1>9

LEMMA ShedWriteEffect ==
    ASSUME RunTypeOK, TasksOK, ShedGone, ShedWrite
    PROVE  /\ job.stage = "shed" /\ UNCHANGED <<clock, engine>>
           /\ mishaps' \in Nat /\ job' \in Jobs /\ job'.stage = "collapse"
           /\ job'.claimed = job.claimed /\ job'.written = job.written /\ job'.failed = job.failed
           /\ job'.exit = job.exit
           /\ row' \in [Accounts -> Rows]
           /\ \A a \in Accounts : row'[a].reconcile = row[a].reconcile
           /\ led' \in [Posts -> Ledger]
           /\ \A p \in Posts : led'[p] = led[p] \/ (p \notin live /\ led[p] # "none")
<1> DEFINE a == Min(job.todo)
           q == <<a, row[a].raw>>
<1>1. /\ job \in Jobs /\ row \in [Accounts -> Rows] /\ mishaps \in Nat /\ job.todo \in SUBSET Accounts
      /\ led \in [Posts -> Ledger]
  BY DEF RunTypeOK, Jobs
<1>2. /\ job.stage = "shed" /\ job.todo # {} /\ UNCHANGED <<clock, engine>>
  BY DEF ShedWrite, Stage, TasksOK
<1>3. a \in Accounts  BY <1>1, <1>2, LeastAccount
<1>4. q \notin live /\ (q \in Posts => led[q] # "none")  BY <1>2 DEF ShedGone
<1>5. /\ \/ /\ Fine /\ row' = [row EXCEPT ![a] = [Unleased(row[a]) EXCEPT !.status = "pending", !.raw = 0]]
            /\ led' = [led EXCEPT ![q] = "cancelled_group"]
         \/ /\ Mishap("write") /\ UNCHANGED led
            /\ row' \in {row, [row EXCEPT ![a] = Unleased(row[a])]}
      /\ job' = [job EXCEPT !.stage = "collapse", !.todo = @ \ {a}]
  BY DEF ShedWrite
<1>6. Unleased(row[a]) \in Rows /\ Unleased(row[a]).reconcile = row[a].reconcile
  BY <1>1, <1>3, RowHelpers
<1> DEFINE u == Unleased(row[a])
           v == [u EXCEPT !.status = "pending", !.raw = 0]
<1>7. v \in Rows /\ v.reconcile = row[a].reconcile
  <2> HIDE DEF u
  <2>1. u \in Rows /\ u.reconcile = row[a].reconcile  BY <1>6 DEF u
  <2>2. 0 \in 0..Prior  BY RunnerAssumption DEF Prior
  <2> QED  BY <2>1, <2>2 DEF Rows
<1>8. /\ job' \in Jobs /\ job'.stage = "collapse"
      /\ job'.claimed = job.claimed /\ job'.written = job.written /\ job'.failed = job.failed
      /\ job'.exit = job.exit
  <2> HIDE DEF a, q, u, v
  <2> QED  BY <1>1, <1>5 DEF Jobs, Draining
<1>9. \/ Fine /\ row' = [row EXCEPT ![a] = v] /\ led' = [led EXCEPT ![q] = "cancelled_group"]
      \/ Mishap("write") /\ UNCHANGED led /\ row' \in {row, [row EXCEPT ![a] = u]}
  BY <1>5
<1>10. u \in Rows /\ u.reconcile = row[a].reconcile  BY <1>6
<1> HIDE DEF a, q, u, v
<1>11. /\ row' \in [Accounts -> Rows]
       /\ \A x \in Accounts : row'[x].reconcile = row[x].reconcile
  <2>1. row' \in {row, [row EXCEPT ![a] = u], [row EXCEPT ![a] = v]}  BY <1>9
  <2> QED  BY <1>1, <1>3, <1>7, <1>10, <2>1
<1>12. mishaps' \in Nat
  <2>1. mishaps' = mishaps \/ mishaps' = mishaps + 1  BY <1>9, Zenon DEF Fine, Mishap
  <2> QED  BY <1>1, <2>1
<1>13. led' \in [Posts -> Ledger] /\ \A p \in Posts : led'[p] = led[p] \/ p = q
  <2>1. led' \in {led, [led EXCEPT ![q] = "cancelled_group"]}  BY <1>9
  <2> QED  BY <1>1, <2>1 DEF Ledger
<1> QED  BY <1>2, <1>4, <1>8, <1>11, <1>12, <1>13

\* Another writer of the rows, and the user at the site.
LEMMA OtherEffect ==
    ASSUME RunTypeOK, NEW a \in Accounts, OtherLease(a) \/ OtherEnd(a) \/ Withdraw(a)
    PROVE  /\ UNCHANGED <<clock, led, engine, job, mishaps>>
           /\ row' \in [Accounts -> Rows]
           /\ \A x \in Accounts :
                /\ row'[x].reconcile = row[x].reconcile
                /\ row'[x].raw = row[x].raw \/ row'[x].raw = Prior
                /\ row[x].lease = "b" /\ now < Until => row'[x].lease = "b"
<1>1. row \in [Accounts -> Rows] /\ row[a] \in Rows  BY DEF RunTypeOK
<1>2. Prior \in 0..Prior  BY RunnerAssumption DEF Prior
<1>3. CASE OtherLease(a)
  <2>1. row' = [row EXCEPT ![a].lease = "x"] /\ UNCHANGED <<clock, led, engine, job, mishaps>>
    BY <1>3 DEF OtherLease, Fine
  <2>2. ~(row[a].lease = "b" /\ now < Until)  BY <1>3 DEF OtherLease, Alive
  <2> QED  BY <1>1, <2>1, <2>2 DEF Rows
<1>4. CASE OtherEnd(a)
  <2>1. /\ UNCHANGED <<clock, led, engine, job, mishaps>> /\ row[a].lease = "x"
        /\ row' \in {[row EXCEPT ![a].lease = "none"],
                     [row EXCEPT ![a].lease = "none", ![a].status = "booked", ![a].raw = Prior]}
    BY <1>4 DEF OtherEnd, Fine
  <2>2. CASE row' = [row EXCEPT ![a].lease = "none"]  BY <1>1, <2>1, <2>2 DEF Rows
  <2>3. CASE row' = [row EXCEPT ![a].lease = "none", ![a].status = "booked", ![a].raw = Prior]
    BY <1>1, <1>2, <2>1, <2>3 DEF Rows
  <2> QED  BY <2>1, <2>2, <2>3
<1>5. CASE Withdraw(a)
  <2>1. row' = [row EXCEPT ![a].status = "withdrawn"] /\ UNCHANGED <<clock, led, engine, job, mishaps>>
    BY <1>5 DEF Withdraw, Fine
  <2> QED  BY <1>1, <2>1 DEF Rows
<1> QED  BY <1>3, <1>4, <1>5

LEMMA PrepareEffect ==
    ASSUME RunTypeOK, Prepare
    PROVE  \E sealed \in SUBSET job.claimed :
             /\ job.stage = "prepare" /\ UNCHANGED <<clock, row, led, st, live, served, prior>>
             /\ mishaps' \in Nat
             /\ task' = [a \in Accounts |-> IF a \in job.claimed \ sealed THEN "run" ELSE "none"]
             /\ result' = [a \in Accounts |-> IF a \in sealed THEN "decrypt" ELSE "none"]
             /\ queue' \in Seq(Accounts) /\ ToSet(queue') = sealed
             /\ job' \in Jobs /\ job'.stage = "race" /\ job'.claimed = job.claimed
             /\ job'.written = job.written /\ job'.failed = job.failed /\ job'.exit = job.exit
<1>1. job \in Jobs /\ mishaps \in Nat /\ job.claimed \in SUBSET Accounts  BY DEF RunTypeOK, Jobs
<1>2. PICK sealed \in SUBSET job.claimed :
          /\ IF sealed = {} THEN Fine ELSE Mishap("decrypt")
          /\ task' = [a \in Accounts |-> IF a \in job.claimed \ sealed THEN "run" ELSE "none"]
          /\ result' = [a \in Accounts |-> IF a \in sealed THEN "decrypt" ELSE "none"]
          /\ queue' = InOrder(sealed)
  BY DEF Prepare
<1>3. queue' \in Seq(Accounts) /\ ToSet(queue') = sealed  BY <1>1, <1>2, Ordered
<1>4. mishaps' \in Nat  BY <1>1, <1>2 DEF Fine, Mishap
<1>5. /\ job.stage = "prepare" /\ UNCHANGED <<clock, row, led, st, live, served, prior>>
      /\ job' = [job EXCEPT !.stage = "race"]
  BY DEF Prepare, Stage
<1>6. /\ job' \in Jobs /\ job'.stage = "race" /\ job'.claimed = job.claimed
      /\ job'.written = job.written /\ job'.failed = job.failed /\ job'.exit = job.exit
  BY <1>1, <1>5 DEF Jobs, Racing
<1> QED  BY <1>2, <1>3, <1>4, <1>5, <1>6

LEMMA FinishEffect ==
    ASSUME RunTypeOK, Finish
    PROVE  /\ job.stage = "collapse" /\ UNCHANGED <<clock, row, led, engine>>
           /\ mishaps' \in Nat /\ job' \in Jobs /\ job'.stage = "done"
           /\ job'.claimed = job.claimed /\ job'.written = job.written /\ job'.failed = job.failed
           /\ job'.exit = "ok" => ~SystemicCause /\ job'.told = job.claimed
<1> DEFINE j == [job EXCEPT !.systemic = SystemicCause]
<1>1. job \in Jobs /\ mishaps \in Nat  BY DEF RunTypeOK
<1>2. Ending(j) /\ job.stage = "collapse" /\ UNCHANGED <<clock, row, led, engine>>
  BY DEF Finish, Stage
<1>3. j \in Jobs /\ j.systemic = SystemicCause /\ j.claimed = job.claimed
      /\ j.written = job.written /\ j.failed = job.failed
  <2> DEFINE s == SystemicCause
  <2>1. s \in BOOLEAN  BY <1>1 DEF SystemicCause, Jobs
  <2> HIDE DEF s
  <2> QED  BY <1>1, <2>1 DEF Jobs, s
<1> HIDE DEF j
<1> QED  BY <1>1, <1>2, <1>3, EndingEffect

LEMMA RaceOverEffect ==
    ASSUME RunTypeOK, RaceOver
    PROVE  /\ job.stage \in Racing /\ \A a \in Accounts : task[a] # "run"
           /\ UNCHANGED <<clock, row, led, st, live, served, prior, task, mishaps>>
           /\ queue' \in Seq(Accounts) /\ ToSet(queue') = ToSet(queue) \cup Unheard
           /\ result' = [a \in Accounts |-> IF a \in Unheard THEN "deadline" ELSE result[a]]
           /\ result' \in [Accounts -> Results]
           /\ job' \in Jobs /\ job'.stage = "drain" /\ job'.claimed = job.claimed
           /\ job'.written = job.written /\ job'.failed = job.failed /\ job'.exit = job.exit
<1>1. job \in Jobs /\ Unheard \in SUBSET Accounts  BY DEF RunTypeOK, Unheard
<1>2. "deadline" \in Results  BY DEF Results
<1>3. Emitting(Unheard, "deadline")  BY DEF RaceOver
<1>4. job' = [job EXCEPT !.stage = "drain"]  BY DEF RaceOver
<1>5. /\ job' \in Jobs /\ job'.stage = "drain" /\ job'.claimed = job.claimed
      /\ job'.written = job.written /\ job'.failed = job.failed /\ job'.exit = job.exit
  BY <1>1, <1>4 DEF Jobs, Draining
<1>6. /\ job.stage \in Racing /\ \A a \in Accounts : task[a] # "run"
      /\ UNCHANGED <<clock, row, led, st, live, served, prior, task, mishaps>>
  BY DEF RaceOver, Stage, Racing, Fine
<1> QED  BY <1>1, <1>2, <1>3, <1>5, <1>6, EmittingEffect

LEMMA ReturnEffect ==
    ASSUME RunTypeOK, NEW a \in Accounts, Return(a)
    PROVE  /\ job.stage \in Racing /\ task[a] = "run" /\ In(a, {"flying"}) = {}
           /\ UNCHANGED <<clock, row, led, st, live, served, prior, job>> /\ mishaps' \in Nat
           /\ queue' \in Seq(Accounts) /\ ToSet(queue') = ToSet(queue) \cup {a}
           /\ task' = [task EXCEPT ![a] = "out"]
           /\ \E how \in Results \ {"none"} :
                /\ result' = [result EXCEPT ![a] = how]
                /\ how = "booked" => In(a, {"booked"}) # {}
<1>1. PICK how \in {"booked", "already", "miss", "auth", "captcha", "error"} :
          /\ how = "booked" <=> In(a, {"booked"}) # {} /\ how # "error"
          /\ IF how \in {"auth", "captcha", "error"} THEN Mishap("engine") ELSE Fine
          /\ Emitting({a}, how)
  BY DEF Return
<1>2. how \in Results \ {"none"}  BY DEF Results
<1>3. mishaps' \in Nat  BY <1>1 DEF RunTypeOK, Mishap, Fine
<1>4. /\ queue' \in Seq(Accounts) /\ ToSet(queue') = ToSet(queue) \cup {a}
      /\ result' = [x \in Accounts |-> IF x \in {a} THEN how ELSE result[x]]
  <2>1. how \in Results /\ Emitting({a}, how) /\ {a} \in SUBSET Accounts  BY <1>1, <1>2
  <2> HIDE DEF Results
  <2> QED  BY <2>1, EmittingEffect
<1>5. result' = [result EXCEPT ![a] = how]  BY <1>4 DEF RunTypeOK
<1>6. /\ job.stage \in Racing /\ task[a] = "run" /\ In(a, {"flying"}) = {}
      /\ UNCHANGED <<clock, row, led, st, live, served, prior, job>> /\ task' = [task EXCEPT ![a] = "out"]
  BY DEF Return, Running, Stage, Racing
<1> QED  BY <1>1, <1>2, <1>3, <1>4, <1>5, <1>6

\* The race up to the self-deadline, the drained queue and a death change the stage only.
LEMMA StageEffect ==
    ASSUME RunTypeOK, SelfDeadline \/ Drained \/ Crash
    PROVE  /\ UNCHANGED <<clock, row, led, engine>> /\ mishaps' \in Nat
           /\ job' \in Jobs /\ job'.claimed = job.claimed /\ job'.written = job.written
           /\ job'.failed = job.failed /\ job'.exit = job.exit
           /\ \/ job.stage = "race" /\ job'.stage = "cut"
              \/ job.stage = "drain" /\ queue = <<>> /\ job'.stage = "collapse"
              \/ job.stage # "done" /\ job'.stage = "killed"
<1>1. job \in Jobs /\ mishaps \in Nat  BY DEF RunTypeOK
<1>2. CASE SelfDeadline
  <2>1. /\ job.stage = "race" /\ job' = [job EXCEPT !.stage = "cut", !.hit = TRUE]
        /\ UNCHANGED <<clock, row, led, engine, mishaps>>
    BY <1>2 DEF SelfDeadline, Stage, Fine
  <2> QED  BY <1>1, <2>1 DEF Jobs, Racing
<1>3. CASE Drained
  <2>1. /\ job.stage = "drain" /\ queue = <<>>
        /\ job' = [job EXCEPT !.stage = "collapse", !.todo = Worse]
        /\ UNCHANGED <<clock, row, led, engine, mishaps>>
    BY <1>3 DEF Drained, Stage, Fine
  <2>2. Worse \in SUBSET Accounts  BY <1>1 DEF Worse, Decrypted, Jobs
  <2> QED  BY <1>1, <2>1, <2>2 DEF Jobs, Draining
<1>4. CASE Crash
  <2>1. /\ job.stage # "done" /\ job' = [job EXCEPT !.stage = "killed"] /\ mishaps' = mishaps + 1
        /\ UNCHANGED <<clock, row, led, engine>>
    BY <1>4 DEF Crash, Stage, Mishap
  <2> QED  BY <1>1, <2>1 DEF Jobs
<1> QED  BY <1>2, <1>3, <1>4

-----------------------------------------------------------------------------
(* The steps *)

\* One POST of the race.
LEMMA SendingEffect ==
    ASSUME RunTypeOK, NEW a \in Accounts, Fire(a)
    PROVE  /\ task[a] = "run" /\ UNCHANGED <<clock, row, led, live, served, prior, task, result, queue, job, mishaps>>
           /\ st' \in [Posts -> Heard]
           /\ \A p \in Posts : st'[p] = st[p] \/ (p[1] = a /\ st[p] = "idle" /\ st'[p] = "flying")
<1>1. PICK sent \in SUBSET In(a, {"idle"}) : st' = [p \in Posts |-> IF p \in sent THEN "flying" ELSE st[p]]
  BY DEF Fire
<1>2. \A p \in sent : p[1] = a /\ st[p] = "idle"  BY <1>1 DEF In, PostsOf
<1> QED  BY <1>1, <1>2 DEF Fire, Running, Fine, RunTypeOK, Heard, Made

LEMMA AnswerEffect ==
    ASSUME RunTypeOK, NEW p \in Posts, Answer(p)
    PROVE  /\ st[p] = "flying" /\ task[p[1]] = "run" /\ mishaps' \in Nat
           /\ UNCHANGED <<clock, row, led, live, served, prior, task, result, queue, job>>
           /\ \E how \in {"booked", "gone", "lost", "captcha"} :
                /\ st' = [st EXCEPT ![p] = how] /\ st' \in [Posts -> Heard]
                /\ how = "booked" => p \in served
                /\ how \in {"gone", "captcha"} => p \notin served
<1>1. mishaps' \in Nat  BY DEF RunTypeOK, Answer, Fine, Mishap
<1>2. PICK how \in {"booked", "gone", "lost", "captcha"} :
          /\ st' = [st EXCEPT ![p] = how]
          /\ how = "booked" => p \in served
          /\ how \in {"gone", "captcha"} => p \notin served
  BY DEF Answer
<1>3. st' \in [Posts -> Heard]  BY <1>2 DEF RunTypeOK, Heard, Made
<1> QED  BY <1>1, <1>2, <1>3 DEF Answer, Running

LEMMA CancelEffect ==
    ASSUME RunTypeOK, NEW a \in Accounts, CancelExtra(a)
    PROVE  /\ task[a] = "run" /\ mishaps' \in Nat
           /\ UNCHANGED <<clock, row, led, served, prior, task, result, queue, job>>
           /\ \E p \in Posts :
                /\ p[1] = a /\ st[p] = "booked" /\ st' \in [Posts -> Heard]
                /\ \/ st' = [st EXCEPT ![p] = "cut"] /\ live' = live \ {p}
                   \/ st' = [st EXCEPT ![p] = "kept"] /\ live' \in {live, live \ {p}}
<1>1. PICK p \in In(a, {"booked"}) :
          \/ Fine /\ st' = [st EXCEPT ![p] = "cut"] /\ live' = live \ {p}
          \/ Mishap("cancel") /\ st' = [st EXCEPT ![p] = "kept"] /\ live' \in {live, live \ {p}}
  BY DEF CancelExtra
<1>2. p \in Posts /\ p[1] = a /\ st[p] = "booked"  BY DEF In, PostsOf
<1>3. mishaps' \in Nat  BY <1>1 DEF RunTypeOK, Fine, Mishap
<1>4. \/ st' = [st EXCEPT ![p] = "cut"] /\ live' = live \ {p}
      \/ st' = [st EXCEPT ![p] = "kept"] /\ live' \in {live, live \ {p}}
  BY <1>1
<1>5. st' \in [Posts -> Heard]  BY <1>4 DEF RunTypeOK, Heard, Made
<1> QED  BY <1>2, <1>3, <1>4, <1>5 DEF CancelExtra, Running

LEMMA CancelledEffect ==
    ASSUME RunTypeOK, NEW a \in Accounts, Cancelled(a)
    PROVE  /\ job.stage = "cut" /\ task[a] = "run"
           /\ UNCHANGED <<clock, row, led, live, served, prior, result, queue, job, mishaps>>
           /\ task' = [task EXCEPT ![a] = "out"]
           /\ st' \in [Posts -> Heard]
           /\ \A p \in Posts : st'[p] = IF p[1] = a /\ st[p] = "flying" THEN "lost" ELSE st[p]
<1>1. st' = [p \in Posts |-> IF p \in In(a, {"flying"}) THEN "lost" ELSE st[p]]  BY DEF Cancelled
<1>2. \A p \in Posts : p \in In(a, {"flying"}) <=> p[1] = a /\ st[p] = "flying"  BY DEF In, PostsOf
<1> QED  BY <1>1, <1>2 DEF Cancelled, Stage, Fine, RunTypeOK, Heard, Made

LEMMA TypesStep ==
    ASSUME RunTypeOK, TasksOK, ShedGone, [RNext]_vars
    PROVE  RunTypeOK'
<1>0. UNCHANGED clock => ClockOK'
  BY DEF RunTypeOK, ClockOK, clock, WriterDeadline, SelfDeadlineAt
<1>1. CASE ReadEvents \/ ConfigFails  BY <1>0, <1>1, ReadEffect DEF RunTypeOK, engine
<1>2. CASE Claim  BY <1>0, <1>2, ClaimEffect DEF RunTypeOK, engine
<1>3. CASE PrepareFails  BY <1>0, <1>3, PrepareFailsEffect DEF RunTypeOK, engine
<1>4. CASE Prepare
  <2>1. PICK sealed \in SUBSET job.claimed :
             /\ UNCHANGED <<clock, row, led, st, live, served, prior>> /\ mishaps' \in Nat
             /\ task' = [a \in Accounts |-> IF a \in job.claimed \ sealed THEN "run" ELSE "none"]
             /\ result' = [a \in Accounts |-> IF a \in sealed THEN "decrypt" ELSE "none"]
             /\ queue' \in Seq(Accounts) /\ job' \in Jobs
    BY <1>4, PrepareEffect
  <2>2. task' \in [Accounts -> {"none", "run", "out"}] /\ result' \in [Accounts -> Results]
    BY <2>1 DEF Results
  <2> QED  BY <1>0, <2>1, <2>2 DEF RunTypeOK
<1>5. CASE SelfDeadline \/ Drained \/ Crash  BY <1>0, <1>5, StageEffect DEF RunTypeOK, engine
<1>6. CASE RaceOver  BY <1>0, <1>6, RaceOverEffect DEF RunTypeOK
<1>7. CASE WriterCut
  <2>1. PICK a \in Accounts :
             /\ queue' = <<>> /\ mishaps' = mishaps
             /\ UNCHANGED <<clock, st, live, served, prior, task, result>>
             /\ row' \in {row, Recorded(a)} /\ led' \in {led, Ledgered(a)} /\ job' \in Jobs
    BY <1>7, WriterCutEffect
  <2>2. row' \in [Accounts -> Rows] /\ led' \in [Posts -> Ledger]
    BY <2>1, Recording, Ledgering DEF RunTypeOK
  <2>3. queue' \in Seq(Accounts)  BY <2>1, EmptySeq
  <2> QED  BY <1>0, <2>1, <2>2, <2>3 DEF RunTypeOK
<1>8. CASE Finish  BY <1>0, <1>8, FinishEffect DEF RunTypeOK, engine
<1>9. ASSUME NEW a \in Accounts, Cancelled(a) PROVE RunTypeOK'
  BY <1>0, <1>9, CancelledEffect DEF RunTypeOK
<1>10. CASE Shed  BY <1>0, <1>10, ShedEffect DEF RunTypeOK
<1>11. CASE ShedWrite  BY <1>0, <1>11, ShedWriteEffect DEF RunTypeOK, engine
<1>12. CASE Write
  <2>1. PICK a \in Accounts :
             /\ queue' \in Seq(Accounts) /\ mishaps' \in Nat /\ job' \in Jobs
             /\ UNCHANGED <<clock, st, live, served, prior, task, result>>
             /\ row' \in {row, Recorded(a), RecordedTwice(a)} /\ led' \in {led, Ledgered(a)}
    BY <1>12, WriteEffect
  <2>2. row' \in [Accounts -> Rows] /\ led' \in [Posts -> Ledger]
    BY <2>1, Recording, Ledgering DEF RunTypeOK
  <2> QED  BY <1>0, <2>1, <2>2 DEF RunTypeOK
<1>13. CASE Tick
  <2>1. ClockOK'
    <3>1. /\ now < WriterDeadline /\ now' = now + 1 /\ started' = started
          /\ started \in Starts /\ now \in started..WriterDeadline
      BY <1>13 DEF Tick, RunTypeOK, ClockOK
    <3>2. WriterDeadline \in Int /\ WriterDeadline' = WriterDeadline
      BY <3>1, RunnerAssumption DEF WriterDeadline, SelfDeadlineAt
    <3>3. now' \in started..WriterDeadline  BY <3>1, <3>2, RunnerAssumption
    <3> QED  BY <3>1, <3>2, <3>3 DEF ClockOK
  <2> QED  BY <1>13, <2>1 DEF Tick, Fine, RunTypeOK, engine
<1>14. ASSUME NEW a \in Accounts, Fire(a) PROVE RunTypeOK'
  BY <1>0, <1>14, SendingEffect DEF RunTypeOK
<1>15. ASSUME NEW a \in Accounts, CancelExtra(a) PROVE RunTypeOK'
  <2>1. /\ UNCHANGED <<clock, row, led, served, prior, task, result, queue, job>> /\ mishaps' \in Nat
        /\ st' \in [Posts -> Heard] /\ live' \subseteq live
    BY <1>15, CancelEffect
  <2> QED  BY <1>0, <2>1 DEF RunTypeOK
<1>16. ASSUME NEW a \in Accounts, Return(a) PROVE RunTypeOK'
  <2>1. PICK how \in Results : result' = [result EXCEPT ![a] = how]  BY <1>16, ReturnEffect
  <2>2. result' \in [Accounts -> Results]  BY <2>1 DEF RunTypeOK
  <2>3. task' \in [Accounts -> {"none", "run", "out"}]  BY <1>16, ReturnEffect DEF RunTypeOK
  <2> QED  BY <1>0, <1>16, <2>2, <2>3, ReturnEffect DEF RunTypeOK
<1>17. ASSUME NEW a \in Accounts, OtherLease(a) \/ OtherEnd(a) \/ Withdraw(a) PROVE RunTypeOK'
  BY <1>0, <1>17, OtherEffect DEF RunTypeOK, engine
<1>18. ASSUME NEW p \in Posts, Serve(p) PROVE RunTypeOK'
  BY <1>0, <1>18 DEF Serve, Fine, RunTypeOK
<1>19. ASSUME NEW p \in Posts, Answer(p) PROVE RunTypeOK'
  BY <1>0, <1>19, AnswerEffect DEF RunTypeOK
<1>20. CASE UNCHANGED vars  BY <1>0, <1>20 DEF vars, engine, RunTypeOK
<1> QED
  BY <1>0, <1>1, <1>2, <1>3, <1>4, <1>5, <1>6, <1>7, <1>8, <1>9, <1>10, <1>11, <1>12, <1>13, <1>14,
     <1>15, <1>16, <1>17, <1>18, <1>19, <1>20 DEF RNext, Runs, Sheds

LEMMA WireStep ==
    ASSUME RunTypeOK, WireOK, TasksOK, ShedGone, [RNext]_vars
    PROVE  WireOK'
<1>0. st \in [Posts -> Heard] /\ \A p \in Posts : p[1] \in Accounts  BY DEF RunTypeOK, Posts
<1>1. CASE UNCHANGED <<led, st, live, served, task>>  BY <1>1 DEF WireOK
<1>2. CASE ReadEvents \/ ConfigFails  BY <1>1, <1>2, ReadEffect DEF engine
<1>3. CASE Claim  BY <1>1, <1>3, ClaimEffect DEF engine
<1>4. CASE PrepareFails  BY <1>1, <1>4, PrepareFailsEffect DEF engine
<1>5. CASE Prepare
  <2>1. job.stage = "prepare" /\ UNCHANGED <<led, st, live, served>>  BY <1>5, PrepareEffect DEF RunTypeOK
  <2>2. \A p \in Posts : st[p] = "idle"  BY <1>0, <2>1 DEF TasksOK, WireOK, Before
  <2> QED  BY <2>1, <2>2 DEF WireOK, Made
<1>6. CASE SelfDeadline \/ Drained \/ Crash  BY <1>1, <1>6, StageEffect DEF engine
<1>7. CASE RaceOver  BY <1>1, <1>7, RaceOverEffect
<1>8. CASE WriterCut
  <2>1. PICK a \in Accounts : /\ UNCHANGED <<st, live, served, task>>
                              /\ led' \in {led, Ledgered(a)}
    BY <1>8, WriterCutEffect
  <2>2. \A p \in Posts : led'[p] = led[p] \/ st[p] \in {"booked", "kept", "cut"}
    BY <2>1, Ledgering
  <2> QED  BY <2>1, <2>2 DEF WireOK
<1>9. CASE Finish  BY <1>1, <1>9, FinishEffect DEF engine
<1>10. ASSUME NEW a \in Accounts, Cancelled(a) PROVE WireOK'
  <2>1. /\ UNCHANGED <<led, live, served>> /\ task' = [task EXCEPT ![a] = "out"]
        /\ \A p \in Posts : st'[p] = IF p[1] = a /\ st[p] = "flying" THEN "lost" ELSE st[p]
    BY <1>10, CancelledEffect
  <2>2. task \in [Accounts -> {"none", "run", "out"}]  BY DEF RunTypeOK
  <2>3. \A p \in Posts : task'[p[1]] = IF p[1] = a THEN "out" ELSE task[p[1]]  BY <1>0, <2>1, <2>2
  <2> QED  BY <2>1, <2>3 DEF WireOK, Made
<1>11. CASE Shed
  <2>1. UNCHANGED <<led, st, served, task>> /\ live' \subseteq live  BY <1>11, ShedEffect
  <2> QED  BY <2>1 DEF WireOK
<1>12. CASE ShedWrite
  <2>1. /\ UNCHANGED <<st, live, served, task>>
        /\ \A p \in Posts : led'[p] = led[p] \/ led[p] # "none"
    BY <1>12, ShedWriteEffect DEF engine
  <2> QED  BY <2>1 DEF WireOK
<1>13. CASE Write
  <2>1. PICK a \in Accounts : /\ UNCHANGED <<st, live, served, task>>
                              /\ led' \in {led, Ledgered(a)}
    BY <1>13, WriteEffect
  <2>2. \A p \in Posts : led'[p] = led[p] \/ st[p] \in {"booked", "kept", "cut"}
    BY <2>1, Ledgering
  <2> QED  BY <2>1, <2>2 DEF WireOK
<1>14. CASE Tick  BY <1>1, <1>14 DEF Tick, engine
<1>15. ASSUME NEW a \in Accounts, Fire(a) PROVE WireOK'
  <2>1. /\ task[a] = "run" /\ UNCHANGED <<led, live, served, task>>
        /\ \A p \in Posts : st'[p] = st[p] \/ (p[1] = a /\ st[p] = "idle" /\ st'[p] = "flying")
    BY <1>15, SendingEffect
  <2> QED  BY <2>1 DEF WireOK, Made
<1>16. ASSUME NEW a \in Accounts, CancelExtra(a) PROVE WireOK'
  <2>1. task[a] = "run" /\ UNCHANGED <<led, served, task>>  BY <1>16, CancelEffect
  <2>2. PICK p \in Posts : /\ p[1] = a /\ st[p] = "booked"
                           /\ \/ st' = [st EXCEPT ![p] = "cut"] /\ live' = live \ {p}
                              \/ st' = [st EXCEPT ![p] = "kept"] /\ live' \in {live, live \ {p}}
    BY <1>16, CancelEffect
  <2>3. /\ live' \subseteq live /\ (st'[p] = "cut" => p \notin live')
        /\ st'[p] \in {"cut", "kept"} /\ \A q \in Posts : q # p => st'[q] = st[q]
    BY <1>0, <2>2
  <2> QED  BY <2>1, <2>2, <2>3 DEF WireOK, Made
<1>17. ASSUME NEW a \in Accounts, Return(a) PROVE WireOK'
  <2>1. /\ In(a, {"flying"}) = {} /\ UNCHANGED <<led, st, live, served>>
        /\ task' = [task EXCEPT ![a] = "out"]
    BY <1>17, ReturnEffect
  <2>2. \A p \in Posts : p[1] = a => st[p] # "flying"  BY <2>1 DEF In, PostsOf
  <2>3. task \in [Accounts -> {"none", "run", "out"}]  BY DEF RunTypeOK
  <2>4. \A p \in Posts : task'[p[1]] = IF p[1] = a THEN "out" ELSE task[p[1]]  BY <1>0, <2>1, <2>3
  <2> QED  BY <2>1, <2>2, <2>4 DEF WireOK
<1>18. ASSUME NEW a \in Accounts, OtherLease(a) \/ OtherEnd(a) \/ Withdraw(a) PROVE WireOK'
  BY <1>1, <1>18, OtherEffect DEF engine
<1>19. ASSUME NEW p \in Posts, Serve(p) PROVE WireOK'
  BY <1>19 DEF Serve, WireOK, Made
<1>20. ASSUME NEW p \in Posts, Answer(p) PROVE WireOK'
  <2>1. st[p] = "flying" /\ task[p[1]] = "run" /\ UNCHANGED <<led, live, served, task>>
    BY <1>20, AnswerEffect
  <2>2. PICK how \in {"booked", "gone", "lost", "captcha"} :
                /\ st' = [st EXCEPT ![p] = how]
                /\ how \in {"gone", "captcha"} => p \notin served
    BY <1>20, AnswerEffect
  <2>3. st'[p] = how /\ \A q \in Posts : q # p => st'[q] = st[q]  BY <1>0, <2>2
  <2> QED  BY <2>1, <2>2, <2>3 DEF WireOK, Made
<1>21. CASE UNCHANGED vars  BY <1>1, <1>21 DEF vars, engine
<1> QED
  BY <1>2, <1>3, <1>4, <1>5, <1>6, <1>7, <1>8, <1>9, <1>10, <1>11, <1>12, <1>13, <1>14,
     <1>15, <1>16, <1>17, <1>18, <1>19, <1>20, <1>21 DEF RNext, Runs, Sheds

LEMMA TasksStep ==
    ASSUME RunTypeOK, WireOK, TasksOK, ShedGone, [RNext]_vars
    PROVE  TasksOK'
<1>0. /\ st \in [Posts -> Heard] /\ task \in [Accounts -> {"none", "run", "out"}]
      /\ result \in [Accounts -> Results] /\ job \in Jobs /\ queue \in Seq(Accounts)
  BY DEF RunTypeOK
<1>1. ASSUME UNCHANGED <<st, task, result, queue>>,
             job'.claimed = job.claimed, job'.written = job.written, job'.failed = job.failed,
             job'.stage \in Draining \cup {"done"} =>
                job.stage \in Draining \/ \A a \in Accounts : task[a] # "run",
             job'.stage \in Before => job.stage \in Before,
             job'.stage = "read" => job.stage = "read",
             job'.stage = "shed" => job'.todo # {},
             job'.stage \in {"collapse", "shed"} => queue = <<>>
      PROVE  TasksOK'
  BY <1>1 DEF TasksOK, Reported, In, PostsOf, ToSet, Before
<1>2. CASE ReadEvents \/ ConfigFails
  BY <1>1, <1>2, ReadEffect DEF engine, TasksOK, Before, Draining
<1>3. CASE Claim
  <2>1. /\ job.stage = "claim" /\ UNCHANGED <<st, task, result, queue>>
        /\ job.claimed \subseteq job'.claimed /\ job'.written = job.written /\ job'.failed = job.failed
        /\ job'.stage \in {"claim", "prepare", "done"}
    BY <1>3, ClaimEffect DEF engine
  <2> QED  BY <2>1 DEF TasksOK, Reported, In, PostsOf, ToSet, Before, Draining
<1>4. CASE PrepareFails
  BY <1>1, <1>4, PrepareFailsEffect DEF engine, TasksOK, Before, Draining
<1>5. CASE Prepare
  <2>1. PICK sealed \in SUBSET job.claimed :
             /\ job.stage = "prepare" /\ UNCHANGED st
             /\ task' = [a \in Accounts |-> IF a \in job.claimed \ sealed THEN "run" ELSE "none"]
             /\ result' = [a \in Accounts |-> IF a \in sealed THEN "decrypt" ELSE "none"]
             /\ ToSet(queue') = sealed
             /\ job'.stage = "race" /\ job'.claimed = job.claimed
             /\ job'.written = job.written /\ job'.failed = job.failed
    BY <1>5, PrepareEffect
  <2>2. \A a \in Accounts : a \notin job.written /\ a \notin job.failed
    BY <2>1 DEF TasksOK, Reported, Before
  <2> QED  BY <2>1, <2>2 DEF TasksOK, Reported, Before, Draining
<1>6. CASE SelfDeadline \/ Drained \/ Crash
  <2>1. /\ UNCHANGED <<st, task, result, queue>> /\ job'.claimed = job.claimed
        /\ job'.written = job.written /\ job'.failed = job.failed
        /\ \/ job.stage = "race" /\ job'.stage = "cut"
           \/ job.stage = "drain" /\ queue = <<>> /\ job'.stage = "collapse"
           \/ job.stage # "done" /\ job'.stage = "killed"
    BY <1>6, StageEffect DEF engine
  <2> QED  BY <1>1, <2>1 DEF Before, Draining
<1>7. CASE RaceOver
  <2>1. /\ \A a \in Accounts : task[a] # "run"
        /\ UNCHANGED <<st, task>>
        /\ ToSet(queue') = ToSet(queue) \cup Unheard
        /\ result' = [a \in Accounts |-> IF a \in Unheard THEN "deadline" ELSE result[a]]
        /\ job'.stage = "drain" /\ job'.claimed = job.claimed
        /\ job'.written = job.written /\ job'.failed = job.failed
    BY <1>7, RaceOverEffect
  <2> QED  BY <2>1 DEF TasksOK, Reported, Unheard, In, PostsOf, Before, Draining
<1>8. CASE WriterCut
  <2>1. /\ job.stage = "drain" /\ queue' = <<>> /\ UNCHANGED <<st, task, result>>
        /\ job'.stage = "collapse" /\ job'.claimed = job.claimed
        /\ job'.written = job.written /\ job'.failed = job.failed \cup ToSet(queue)
    BY <1>8, WriterCutEffect
  <2>2. ToSet(queue') = {}  BY <2>1 DEF ToSet
  <2> QED  BY <2>1, <2>2 DEF TasksOK, Reported, In, PostsOf, Before, Draining
<1>9. CASE Finish
  BY <1>1, <1>9, FinishEffect DEF engine, TasksOK, Before, Draining
<1>10. ASSUME NEW a \in Accounts, Cancelled(a) PROVE TasksOK'
  <2>1. /\ task[a] = "run" /\ UNCHANGED <<result, queue, job>> /\ task' = [task EXCEPT ![a] = "out"]
        /\ \A p \in Posts : st'[p] = IF p[1] = a /\ st[p] = "flying" THEN "lost" ELSE st[p]
    BY <1>10, CancelledEffect
  <2>2. \A x \in Accounts : task'[x] = IF x = a THEN "out" ELSE task[x]  BY <1>0, <2>1
  <2>3. \A x \in Accounts : In(x, {"booked"})' = In(x, {"booked"})  BY <2>1 DEF In, PostsOf
  <2> QED  BY <2>1, <2>2, <2>3 DEF TasksOK, Reported, ToSet
<1>11. CASE Shed
  <2>1. /\ job.stage = "collapse" /\ UNCHANGED <<st, task, result, queue>>
        /\ job'.claimed = job.claimed /\ job'.written = job.written /\ job'.failed = job.failed
        /\ job'.stage \in {"collapse", "shed"} /\ (job'.stage = "shed" => job'.todo # {})
    BY <1>11, ShedEffect
  <2> QED  BY <1>1, <2>1 DEF TasksOK, Before, Draining
<1>12. CASE ShedWrite
  <2>1. /\ job.stage = "shed" /\ UNCHANGED <<st, task, result, queue>>
        /\ job'.claimed = job.claimed /\ job'.written = job.written /\ job'.failed = job.failed
        /\ job'.stage = "collapse"
    BY <1>12, ShedWriteEffect DEF engine
  <2> QED  BY <1>1, <2>1 DEF TasksOK, Before, Draining
<1>13. CASE Write
  <2>1. PICK a \in Accounts :
             /\ job.stage \in Racing \cup {"drain"} /\ a \in ToSet(queue)
             /\ ToSet(queue) = {a} \cup ToSet(queue') /\ UNCHANGED <<st, task, result>>
             /\ job'.stage = job.stage /\ job'.claimed = job.claimed
             /\ job'.written \cup job'.failed = job.written \cup job.failed \cup {a}
    BY <1>13, WriteEffect
  <2>2. Reported' = Reported  BY <2>1 DEF Reported
  <2>3. job.stage \notin {"read", "collapse", "shed"}  BY <2>1 DEF Racing
  <2> QED  BY <2>1, <2>2, <2>3 DEF TasksOK, In, PostsOf
<1>14. CASE Tick  BY <1>14 DEF Tick, engine, TasksOK, Reported, In, PostsOf, ToSet
<1>15. ASSUME NEW a \in Accounts, Fire(a) PROVE TasksOK'
  <2>1. /\ task[a] = "run" /\ UNCHANGED <<task, result, queue, job>>
        /\ \A p \in Posts : st'[p] = st[p] \/ (p[1] = a /\ st[p] = "idle" /\ st'[p] = "flying")
    BY <1>15, SendingEffect
  <2>2. \A x \in Accounts : In(x, {"booked"})' = In(x, {"booked"})  BY <2>1 DEF In, PostsOf
  <2> QED  BY <2>1, <2>2 DEF TasksOK, Reported, ToSet
<1>16. ASSUME NEW a \in Accounts, CancelExtra(a) PROVE TasksOK'
  <2>1. task[a] = "run" /\ UNCHANGED <<task, result, queue, job>>  BY <1>16, CancelEffect
  <2>2. PICK p \in Posts : p[1] = a /\ (st' = [st EXCEPT ![p] = "cut"] \/ st' = [st EXCEPT ![p] = "kept"])
    BY <1>16, CancelEffect
  <2>3. \A x \in Accounts : x # a => In(x, {"booked"})' = In(x, {"booked"})
    BY <1>0, <2>2 DEF In, PostsOf
  <2>4. result[a] = "none"  BY <2>1 DEF TasksOK
  <2> QED  BY <2>1, <2>3, <2>4 DEF TasksOK, Reported, ToSet
<1>17. ASSUME NEW a \in Accounts, Return(a) PROVE TasksOK'
  <2>1. /\ job.stage \in Racing /\ task[a] = "run" /\ UNCHANGED <<st, job>>
        /\ ToSet(queue') = ToSet(queue) \cup {a} /\ task' = [task EXCEPT ![a] = "out"]
    BY <1>17, ReturnEffect
  <2>2. PICK how \in Results \ {"none"} : /\ result' = [result EXCEPT ![a] = how]
                                          /\ how = "booked" => In(a, {"booked"}) # {}
    BY <1>17, ReturnEffect
  <2>3. \A x \in Accounts : /\ task'[x] = IF x = a THEN "out" ELSE task[x]
                            /\ result'[x] = IF x = a THEN how ELSE result[x]
    BY <1>0, <2>1, <2>2
  <2>4. \A x \in Accounts : In(x, {"booked"})' = In(x, {"booked"})  BY <2>1 DEF In, PostsOf
  <2>5. Reported' = Reported \cup {a}  BY <2>1 DEF Reported
  <2>6. job.stage \notin Before \cup Draining  BY <2>1 DEF Racing, Before, Draining
  <2> QED  BY <2>1, <2>2, <2>3, <2>4, <2>5, <2>6 DEF TasksOK, Draining
<1>18. ASSUME NEW a \in Accounts, OtherLease(a) \/ OtherEnd(a) \/ Withdraw(a) PROVE TasksOK'
  BY <1>18, OtherEffect DEF engine, TasksOK, Reported, In, PostsOf, ToSet
<1>19. ASSUME NEW p \in Posts, Serve(p) PROVE TasksOK'
  BY <1>19 DEF Serve, TasksOK, Reported, In, PostsOf, ToSet
<1>20. ASSUME NEW p \in Posts, Answer(p) PROVE TasksOK'
  <2>1. st[p] = "flying" /\ task[p[1]] = "run" /\ UNCHANGED <<task, result, queue, job>>
    BY <1>20, AnswerEffect
  <2>2. PICK how \in {"booked", "gone", "lost", "captcha"} : st' = [st EXCEPT ![p] = how]
    BY <1>20, AnswerEffect
  <2>3. \A x \in Accounts : In(x, {"booked"}) \subseteq In(x, {"booked"})'
    BY <1>0, <2>1, <2>2 DEF In, PostsOf
  <2> QED  BY <2>1, <2>3 DEF TasksOK, Reported, ToSet
<1>21. CASE UNCHANGED vars
  BY <1>21 DEF vars, engine, TasksOK, Reported, In, PostsOf, ToSet
<1> QED
  BY <1>2, <1>3, <1>4, <1>5, <1>6, <1>7, <1>8, <1>9, <1>10, <1>11, <1>12, <1>13, <1>14,
     <1>15, <1>16, <1>17, <1>18, <1>19, <1>20, <1>21 DEF RNext, Runs, Sheds

LEMMA AccountedStep ==
    ASSUME RunTypeOK, TasksOK, ShedGone, AllAccounted, [RNext]_vars
    PROVE  AllAccounted'
<1>0. /\ task \in [Accounts -> {"none", "run", "out"}] /\ result \in [Accounts -> Results]
      /\ job \in Jobs /\ job.claimed \in SUBSET Accounts
  BY DEF RunTypeOK, Jobs
<1>1. CASE UNCHANGED <<task, result, queue, job>>  BY <1>1 DEF AllAccounted, Reported, ToSet
<1>2. CASE ReadEvents \/ ConfigFails
  <2>1. job.stage = "read" /\ job'.claimed = job.claimed  BY <1>2, ReadEffect
  <2>2. job'.claimed = {}  BY <2>1 DEF TasksOK
  <2> QED  BY <2>2 DEF AllAccounted
<1>3. CASE Claim
  <2>1. /\ job.stage = "claim" /\ UNCHANGED task
        /\ job'.stage \in {"claim", "prepare", "done"} /\ job' \in Jobs
    BY <1>3, ClaimEffect DEF engine
  <2>2. \A a \in Accounts : task[a] = "none"  BY <2>1 DEF TasksOK, Before
  <2>3. job'.claimed \in SUBSET Accounts  BY <2>1 DEF Jobs
  <2> QED  BY <2>1, <2>2, <2>3 DEF AllAccounted, Racing, Draining
<1>4. CASE PrepareFails
  <2>1. job.stage = "prepare" /\ UNCHANGED task /\ job'.stage = "done" /\ job'.claimed = job.claimed
    BY <1>4, PrepareFailsEffect DEF engine
  <2>2. \A a \in Accounts : task[a] = "none"  BY <2>1 DEF TasksOK, Before
  <2> QED  BY <1>0, <2>1, <2>2 DEF AllAccounted, Racing, Draining
<1>5. CASE Prepare
  <2>1. PICK sealed \in SUBSET job.claimed :
             /\ task' = [a \in Accounts |-> IF a \in job.claimed \ sealed THEN "run" ELSE "none"]
             /\ result' = [a \in Accounts |-> IF a \in sealed THEN "decrypt" ELSE "none"]
             /\ ToSet(queue') = sealed
             /\ job'.stage = "race" /\ job'.claimed = job.claimed
    BY <1>5, PrepareEffect
  <2> QED  BY <1>0, <2>1 DEF AllAccounted, Reported, Racing, Draining
<1>6. CASE SelfDeadline \/ Drained \/ Crash
  <2>1. /\ UNCHANGED <<task, result, queue>> /\ job'.claimed = job.claimed
        /\ job'.written = job.written /\ job'.failed = job.failed
        /\ \/ job.stage = "race" /\ job'.stage = "cut"
           \/ job.stage = "drain" /\ queue = <<>> /\ job'.stage = "collapse"
           \/ job.stage # "done" /\ job'.stage = "killed"
    BY <1>6, StageEffect DEF engine
  <2>2. Reported' = Reported  BY <2>1 DEF Reported, ToSet
  <2> QED  BY <2>1, <2>2 DEF AllAccounted, Racing, Draining
<1>7. CASE RaceOver
  <2>1. /\ job.stage \in Racing /\ \A a \in Accounts : task[a] # "run"
        /\ UNCHANGED task
        /\ ToSet(queue') = ToSet(queue) \cup Unheard
        /\ result' = [a \in Accounts |-> IF a \in Unheard THEN "deadline" ELSE result[a]]
        /\ job'.stage = "drain" /\ job'.claimed = job.claimed
        /\ job'.written = job.written /\ job'.failed = job.failed
    BY <1>7, RaceOverEffect
  <2>2. Reported' = Reported \cup Unheard  BY <2>1 DEF Reported
  <2>3. \A a \in job.claimed : a \notin Unheard => result[a] # "none"
    BY <1>0, <2>1 DEF AllAccounted, Unheard
  <2> QED  BY <1>0, <2>1, <2>2, <2>3 DEF AllAccounted
<1>8. CASE WriterCut
  <2>1. /\ job.stage = "drain" /\ UNCHANGED <<task, result>>
        /\ job'.stage = "collapse" /\ job'.claimed = job.claimed
        /\ job'.written = job.written /\ job'.failed = job.failed \cup ToSet(queue)
    BY <1>8, WriterCutEffect
  <2>2. Reported \subseteq Reported'  BY <2>1 DEF Reported
  <2> QED  BY <2>1, <2>2 DEF AllAccounted, Draining
<1>9. CASE Finish
  <2>1. /\ job.stage = "collapse" /\ UNCHANGED <<task, result, queue>> /\ job'.stage = "done"
        /\ job'.claimed = job.claimed /\ job'.written = job.written /\ job'.failed = job.failed
    BY <1>9, FinishEffect DEF engine
  <2>2. queue = <<>>  BY <2>1 DEF TasksOK
  <2>3. Reported = job.written \cup job.failed  BY <2>2 DEF Reported, ToSet
  <2> QED  BY <2>1, <2>3 DEF AllAccounted, Racing, Draining
<1>10. ASSUME NEW a \in Accounts, Cancelled(a) PROVE AllAccounted'
  <2>1. /\ job.stage = "cut" /\ UNCHANGED <<result, queue, job>> /\ task' = [task EXCEPT ![a] = "out"]
    BY <1>10, CancelledEffect
  <2>2. \A x \in Accounts : task'[x] = IF x = a THEN "out" ELSE task[x]  BY <1>0, <2>1
  <2> QED  BY <1>0, <2>1, <2>2 DEF AllAccounted, Reported, ToSet, Racing, Draining
<1>11. CASE Shed
  <2>1. /\ job.stage = "collapse" /\ UNCHANGED <<task, result, queue>>
        /\ job'.claimed = job.claimed /\ job'.written = job.written /\ job'.failed = job.failed
        /\ job'.stage \in {"collapse", "shed"}
    BY <1>11, ShedEffect
  <2>2. Reported' = Reported  BY <2>1 DEF Reported, ToSet
  <2> QED  BY <2>1, <2>2 DEF AllAccounted, Racing, Draining
<1>12. CASE ShedWrite
  <2>1. /\ job.stage = "shed" /\ UNCHANGED <<task, result, queue>>
        /\ job'.claimed = job.claimed /\ job'.written = job.written /\ job'.failed = job.failed
        /\ job'.stage = "collapse"
    BY <1>12, ShedWriteEffect DEF engine
  <2>2. Reported' = Reported  BY <2>1 DEF Reported, ToSet
  <2> QED  BY <2>1, <2>2 DEF AllAccounted, Racing, Draining
<1>13. CASE Write
  <2>1. PICK a \in Accounts :
             /\ job.stage \in Racing \cup {"drain"}
             /\ ToSet(queue) = {a} \cup ToSet(queue') /\ UNCHANGED <<task, result>>
             /\ job'.stage = job.stage /\ job'.claimed = job.claimed
             /\ job'.written \cup job'.failed = job.written \cup job.failed \cup {a}
    BY <1>13, WriteEffect
  <2>2. Reported \subseteq Reported'  BY <2>1 DEF Reported
  <2> QED  BY <2>1, <2>2 DEF AllAccounted, Racing
<1>14. CASE Tick  BY <1>1, <1>14 DEF Tick, engine
<1>15. ASSUME NEW a \in Accounts, Fire(a) PROVE AllAccounted'  BY <1>1, <1>15, SendingEffect
<1>16. ASSUME NEW a \in Accounts, CancelExtra(a) PROVE AllAccounted'  BY <1>1, <1>16, CancelEffect
<1>17. ASSUME NEW a \in Accounts, Return(a) PROVE AllAccounted'
  <2>1. /\ job.stage \in Racing /\ UNCHANGED job
        /\ ToSet(queue') = ToSet(queue) \cup {a} /\ task' = [task EXCEPT ![a] = "out"]
    BY <1>17, ReturnEffect
  <2>2. PICK how \in Results \ {"none"} : result' = [result EXCEPT ![a] = how]
    BY <1>17, ReturnEffect
  <2>3. \A x \in Accounts : /\ task'[x] = IF x = a THEN "out" ELSE task[x]
                            /\ result'[x] = IF x = a THEN how ELSE result[x]
    BY <1>0, <2>1, <2>2
  <2>4. Reported' = Reported \cup {a}  BY <2>1 DEF Reported
  <2> QED  BY <1>0, <2>1, <2>3, <2>4 DEF AllAccounted, Racing, Draining
<1>18. ASSUME NEW a \in Accounts, OtherLease(a) \/ OtherEnd(a) \/ Withdraw(a) PROVE AllAccounted'
  BY <1>1, <1>18, OtherEffect DEF engine
<1>19. ASSUME NEW p \in Posts, Serve(p) PROVE AllAccounted'  BY <1>1, <1>19 DEF Serve
<1>20. ASSUME NEW p \in Posts, Answer(p) PROVE AllAccounted'  BY <1>1, <1>20, AnswerEffect
<1>21. CASE UNCHANGED vars  BY <1>1, <1>21 DEF vars, engine
<1> QED
  BY <1>2, <1>3, <1>4, <1>5, <1>6, <1>7, <1>8, <1>9, <1>10, <1>11, <1>12, <1>13, <1>14,
     <1>15, <1>16, <1>17, <1>18, <1>19, <1>20, <1>21 DEF RNext, Runs, Sheds

LEMMA WrittenStep ==
    ASSUME RunTypeOK, WireOK, TasksOK, ShedGone, WrittenOK, [RNext]_vars
    PROVE  WrittenOK'
<1>0. /\ st \in [Posts -> Heard] /\ row \in [Accounts -> Rows] /\ \A p \in Posts : p[1] \in Accounts
  BY DEF RunTypeOK, Posts
\* Whoever's outcome is written has no task any more.
<1>1. \A a \in Accounts : a \in job.written => task[a] # "run"  BY DEF TasksOK, Reported
<1>2. ASSUME job'.written = job.written, UNCHANGED <<led, st>>, live' \subseteq live,
             \A a \in Accounts : row'[a].reconcile = row[a].reconcile
      PROVE  WrittenOK'
  BY <1>0, <1>2 DEF WrittenOK
<1>3. CASE ReadEvents \/ ConfigFails  BY <1>2, <1>3, ReadEffect DEF engine
<1>4. CASE Claim  BY <1>2, <1>4, ClaimEffect DEF engine
<1>5. CASE PrepareFails  BY <1>2, <1>5, PrepareFailsEffect DEF engine
<1>6. CASE Prepare  BY <1>2, <1>6, PrepareEffect
<1>7. CASE SelfDeadline \/ Drained \/ Crash  BY <1>2, <1>7, StageEffect DEF engine
<1>8. CASE RaceOver  BY <1>2, <1>8, RaceOverEffect
<1>9. CASE Finish  BY <1>2, <1>9, FinishEffect DEF engine
\* A lost POST makes its account's outcome an uncertain one.
<1>10. ASSUME NEW p \in Posts, st[p] = "lost" PROVE Uncertain(p[1])
  BY <1>10 DEF Uncertain, In, PostsOf
<1>11. CASE WriterCut
  <2>1. PICK a \in Accounts :
             /\ UNCHANGED <<st, live>> /\ row' \in {row, Recorded(a)} /\ led' \in {led, Ledgered(a)}
             /\ job'.written = job.written
    BY <1>11, WriterCutEffect
  <2>2. ASSUME NEW p \in Posts, p[1] \in job'.written, st'[p] \in {"booked", "kept"}, p \in live'
        PROVE  led'[p] \in {"held", "held_extra"}
    BY <2>1, <2>2, Ledgering DEF WrittenOK
  <2>3. ASSUME NEW p \in Posts, p[1] \in job'.written, st'[p] = "lost"
        PROVE  row'[p[1]].reconcile
    <3>1. row[p[1]].reconcile /\ Uncertain(p[1])  BY <1>10, <2>1, <2>3 DEF WrittenOK
    <3>2. CASE p[1] = a  BY <2>1, <3>1, <3>2, Recording
    <3>3. CASE p[1] # a  BY <1>0, <2>1, <3>1, <3>3, Recording
    <3> QED  BY <3>2, <3>3
  <2> QED  BY <2>2, <2>3 DEF WrittenOK
<1>12. ASSUME NEW a \in Accounts, Cancelled(a) PROVE WrittenOK'
  <2>1. /\ task[a] = "run" /\ UNCHANGED <<row, led, live, job>>
        /\ \A p \in Posts : st'[p] = IF p[1] = a /\ st[p] = "flying" THEN "lost" ELSE st[p]
    BY <1>12, CancelledEffect
  <2> QED  BY <1>1, <2>1 DEF WrittenOK
<1>13. CASE Shed  BY <1>2, <1>13, ShedEffect
<1>14. CASE ShedWrite
  <2>1. /\ UNCHANGED <<st, live>> /\ job'.written = job.written
        /\ \A a \in Accounts : row'[a].reconcile = row[a].reconcile
        /\ \A p \in Posts : led'[p] = led[p] \/ (p \notin live /\ led[p] # "none")
    BY <1>14, ShedWriteEffect DEF engine
  <2> QED  BY <1>0, <2>1 DEF WrittenOK
<1>15. CASE Write
  <2>1. PICK a \in Accounts :
             /\ UNCHANGED <<st, live>>
             /\ \/ /\ row' \in {Recorded(a), RecordedTwice(a)} /\ led' = Ledgered(a) /\ Accepted(a)
                   /\ job'.written = job.written \cup {a}
                \/ /\ row' \in {row, Recorded(a), RecordedTwice(a)} /\ led' \in {led, Ledgered(a)}
                   /\ job'.written = job.written
    BY <1>15, WriteEffect
  <2>2. ASSUME NEW p \in Posts, p[1] \in job'.written, st'[p] \in {"booked", "kept"}, p \in live'
        PROVE  led'[p] \in {"held", "held_extra"}
    <3>1. CASE p[1] \in job.written  BY <2>1, <2>2, <3>1, Ledgering DEF WrittenOK
    <3>2. CASE p[1] \notin job.written  BY <2>1, <2>2, <3>2, Ledgering
    <3> QED  BY <3>1, <3>2
  <2>3. ASSUME NEW p \in Posts, p[1] \in job'.written, st'[p] = "lost"
        PROVE  row'[p[1]].reconcile
    <3>1. Uncertain(p[1]) /\ (p[1] \in job.written => row[p[1]].reconcile)
      BY <1>10, <2>1, <2>3 DEF WrittenOK
    <3>2. CASE p[1] = a  BY <2>1, <2>3, <3>1, <3>2, Recording
    <3>3. CASE p[1] # a  BY <1>0, <2>1, <2>3, <3>1, <3>3, Recording
    <3> QED  BY <3>2, <3>3
  <2> QED  BY <2>2, <2>3 DEF WrittenOK
<1>16. CASE Tick  BY <1>2, <1>16 DEF Tick, engine
<1>17. ASSUME NEW a \in Accounts, Fire(a) PROVE WrittenOK'
  <2>1. /\ UNCHANGED <<row, led, live, job>>
        /\ \A p \in Posts : st'[p] = st[p] \/ st'[p] = "flying"
    BY <1>17, SendingEffect
  <2> QED  BY <2>1 DEF WrittenOK
<1>18. ASSUME NEW a \in Accounts, CancelExtra(a) PROVE WrittenOK'
  <2>1. task[a] = "run" /\ UNCHANGED <<row, led, job>>  BY <1>18, CancelEffect
  <2>2. PICK p \in Posts : /\ p[1] = a /\ live' \subseteq live
                           /\ (st' = [st EXCEPT ![p] = "cut"] \/ st' = [st EXCEPT ![p] = "kept"])
    BY <1>18, CancelEffect
  <2>3. \A q \in Posts : q[1] # a => st'[q] = st[q]  BY <1>0, <2>2
  <2> QED  BY <1>1, <2>1, <2>2, <2>3 DEF WrittenOK
<1>19. ASSUME NEW a \in Accounts, Return(a) PROVE WrittenOK'  BY <1>2, <1>19, ReturnEffect
<1>20. ASSUME NEW a \in Accounts, OtherLease(a) \/ OtherEnd(a) \/ Withdraw(a) PROVE WrittenOK'
  BY <1>2, <1>20, OtherEffect DEF engine
<1>21. ASSUME NEW p \in Posts, Serve(p) PROVE WrittenOK'
  BY <1>21 DEF Serve, WrittenOK
<1>22. ASSUME NEW p \in Posts, Answer(p) PROVE WrittenOK'
  <2>1. task[p[1]] = "run" /\ UNCHANGED <<row, led, live, job>>  BY <1>22, AnswerEffect
  <2>2. PICK how \in {"booked", "gone", "lost", "captcha"} : st' = [st EXCEPT ![p] = how]
    BY <1>22, AnswerEffect
  <2>3. \A q \in Posts : q # p => st'[q] = st[q]  BY <1>0, <2>2
  <2> QED  BY <1>0, <1>1, <2>1, <2>3 DEF WrittenOK
<1>23. CASE UNCHANGED vars  BY <1>2, <1>23 DEF vars, engine
<1> QED
  BY <1>3, <1>4, <1>5, <1>6, <1>7, <1>8, <1>9, <1>11, <1>12, <1>13, <1>14,
     <1>15, <1>16, <1>17, <1>18, <1>19, <1>20, <1>21, <1>22, <1>23 DEF RNext, Runs, Sheds

LEMMA ShedGoneStep ==
    ASSUME RunTypeOK, WireOK, TasksOK, ShedGone, [RNext]_vars
    PROVE  ShedGone'
<1>0. /\ row \in [Accounts -> Rows] /\ job \in Jobs /\ job.todo \in SUBSET Accounts
      /\ \A p \in Posts : p[2] \in 1..NPosts
  BY DEF RunTypeOK, Jobs, Posts
<1>1. CASE job'.stage # "shed"  BY <1>1 DEF ShedGone
<1>2. ASSUME job.stage = "shed", UNCHANGED <<job, led>>,
             \A a \in Accounts : row'[a].raw = row[a].raw \/ row'[a].raw = Prior,
             \A p \in Posts : p \in live' => p \in live \/ led[p] = "none",
             live' \subseteq Posts
      PROVE  ShedGone'
  <2> DEFINE a == Min(job.todo)
  <2>1. a \in Accounts  BY <1>0, <1>2, LeastAccount DEF TasksOK
  <2>2. Min(job'.todo) = a  BY <1>2
  <2>3. \A x : <<x, Prior>> \notin Posts  BY RunnerAssumption DEF Posts, Prior
  <2> HIDE DEF a
  <2>4. CASE row'[a].raw = Prior  BY <1>2, <2>2, <2>3, <2>4 DEF ShedGone
  <2>5. CASE row'[a].raw = row[a].raw
    <3>1. <<a, row[a].raw>> \notin live /\ (<<a, row[a].raw>> \in Posts => led[<<a, row[a].raw>>] # "none")
      BY <1>2 DEF ShedGone, a
    <3> QED  BY <1>2, <2>2, <2>5, <3>1 DEF ShedGone
  <2> QED  BY <1>2, <2>1, <2>4, <2>5
<1>3. CASE ReadEvents \/ ConfigFails  BY <1>1, <1>3, ReadEffect
<1>4. CASE Claim  BY <1>1, <1>4, ClaimEffect
<1>5. CASE PrepareFails  BY <1>1, <1>5, PrepareFailsEffect
<1>6. CASE Prepare  BY <1>1, <1>6, PrepareEffect
<1>7. CASE SelfDeadline \/ Drained \/ Crash  BY <1>1, <1>7, StageEffect
<1>8. CASE RaceOver  BY <1>1, <1>8, RaceOverEffect
<1>9. CASE WriterCut  BY <1>1, <1>9, WriterCutEffect
<1>10. CASE Finish  BY <1>1, <1>10, FinishEffect
<1>11. ASSUME NEW a \in Accounts, Cancelled(a) PROVE ShedGone'
  BY <1>1, <1>11, CancelledEffect
<1>12. CASE Shed
  <2>1. CASE job'.stage = "shed"
    <3>1. PICK a \in Accounts : /\ Min(job'.todo) = a
                                /\ <<a, row'[a].raw>> \notin live'
                                /\ led[<<a, row'[a].raw>>] \in {"held", "held_extra"}
      BY <1>12, <2>1, ShedEffect
    <3>2. led' = led  BY <1>12, ShedEffect
    <3> QED  BY <3>1, <3>2 DEF ShedGone
  <2> QED  BY <1>1, <2>1
<1>13. CASE ShedWrite  BY <1>1, <1>13, ShedWriteEffect
<1>14. CASE Write
  <2>1. job.stage \in Racing \cup {"drain"} /\ job'.stage = job.stage  BY <1>14, WriteEffect
  <2> QED  BY <1>1, <2>1 DEF Racing
<1>15. ASSUME NEW a \in Accounts, Fire(a) \/ CancelExtra(a) \/ Return(a) PROVE ShedGone'
  <2>1. job.stage \in Racing /\ job' = job
    BY <1>15 DEF Fire, CancelExtra, Return, Running, Stage, Racing
  <2> QED  BY <1>1, <2>1 DEF Racing
<1>16. CASE job.stage # "shed" /\ UNCHANGED job  BY <1>1, <1>16
<1>17. CASE Tick
  <2>1. UNCHANGED <<row, led, live, job>>  BY <1>17 DEF Tick, engine
  <2> QED  BY <1>2, <1>16, <2>1 DEF RunTypeOK
<1>18. ASSUME NEW a \in Accounts, OtherLease(a) \/ OtherEnd(a) \/ Withdraw(a) PROVE ShedGone'
  <2>1. UNCHANGED <<led, live, job>> /\ \A x \in Accounts : row'[x].raw = row[x].raw \/ row'[x].raw = Prior
    BY <1>18, OtherEffect DEF engine
  <2> QED  BY <1>2, <1>16, <2>1 DEF RunTypeOK
<1>19. ASSUME NEW p \in Posts, Serve(p) PROVE ShedGone'
  <2>1. /\ UNCHANGED <<row, led, job>> /\ live' = live \cup {p} /\ st[p] \in {"flying", "lost"}
    BY <1>19 DEF Serve
  <2>2. led[p] = "none"  BY <2>1 DEF WireOK
  <2> QED  BY <1>2, <1>16, <2>1, <2>2 DEF RunTypeOK
<1>20. ASSUME NEW p \in Posts, Answer(p) PROVE ShedGone'
  <2>1. UNCHANGED <<row, led, live, job>>  BY <1>20 DEF Answer
  <2> QED  BY <1>2, <1>16, <2>1 DEF RunTypeOK
<1>21. CASE UNCHANGED vars
  <2>1. UNCHANGED <<row, led, live, job>>  BY <1>21 DEF vars, engine
  <2> QED  BY <1>2, <1>16, <2>1 DEF RunTypeOK
<1> QED
  BY <1>3, <1>4, <1>5, <1>6, <1>7, <1>8, <1>9, <1>10, <1>11, <1>12, <1>13, <1>14,
     <1>15, <1>17, <1>18, <1>19, <1>20, <1>21 DEF RNext, Runs, Sheds

LEMMA ExitStep ==
    ASSUME RunTypeOK, WireOK, TasksOK, AllAccounted, ShedGone, ExitOK, [RNext]_vars
    PROVE  ExitOK'
<1>0. /\ job \in Jobs /\ job.claimed \in SUBSET Accounts /\ job.written \in SUBSET Accounts
      /\ job.failed \in SUBSET Accounts /\ \A p \in Posts : p[1] \in Accounts
  BY DEF RunTypeOK, Jobs, Posts
<1>1. job.written \subseteq job.claimed  BY <1>0 DEF TasksOK, Reported
<1>2. job.stage \in Before => job.written = {} /\ \A p \in Posts : st[p] = "idle"
  BY <1>0 DEF TasksOK, Reported, WireOK
\* Only a run that is over has an exit, and then nothing of it changes any more.
<1>3. CASE job'.exit # "ok"  BY <1>3 DEF ExitOK
<1>4. ASSUME job.stage # "done", job'.exit = job.exit PROVE ExitOK'
  BY <1>3, <1>4 DEF ExitOK
<1>5. ASSUME UNCHANGED <<job, st>> PROVE ExitOK'  BY <1>5 DEF ExitOK
<1>6. CASE ReadEvents \/ ConfigFails
  <2>1. /\ job.stage = "read" /\ UNCHANGED st
        /\ job'.claimed = job.claimed /\ job'.written = job.written
        /\ job'.exit = "ok" => (job'.stage = "done" /\ job'.told = job.claimed) \/ job.exit = "ok"
    BY <1>6, ReadEffect DEF engine
  <2>2. job.exit # "ok" /\ job.claimed = {}  BY <2>1 DEF ExitOK, TasksOK
  <2> QED  BY <1>2, <2>1, <2>2 DEF ExitOK, Before
<1>7. CASE Claim
  <2>1. /\ job.stage = "claim" /\ UNCHANGED st /\ job'.written = job.written
        /\ job'.exit = "ok" => (job'.stage = "done" /\ job'.told = job'.claimed /\ job'.claimed = {})
                                     \/ job.exit = "ok"
    BY <1>7, ClaimEffect DEF engine
  <2>2. job.exit # "ok"  BY <2>1 DEF ExitOK
  <2> QED  BY <1>2, <2>1, <2>2 DEF ExitOK, Before
<1>8. CASE PrepareFails  BY <1>3, <1>8, PrepareFailsEffect
<1>9. CASE Prepare  BY <1>4, <1>9, PrepareEffect
<1>10. CASE SelfDeadline \/ Drained \/ Crash
  <2>1. job.stage # "done" /\ job'.exit = job.exit  BY <1>10, StageEffect
  <2> QED  BY <1>4, <2>1
<1>11. CASE RaceOver
  <2>1. job.stage \in Racing /\ job'.exit = job.exit  BY <1>11, RaceOverEffect
  <2> QED  BY <1>4, <2>1 DEF Racing
<1>12. CASE WriterCut  BY <1>4, <1>12, WriterCutEffect
\* Nothing failed and nothing is uncertain: every claimed row is reported, hence written.
<1>13. CASE Finish
  <2>1. /\ job.stage = "collapse" /\ UNCHANGED st /\ job'.stage = "done"
        /\ job'.claimed = job.claimed /\ job'.written = job.written
        /\ job'.exit = "ok" => ~SystemicCause /\ job'.told = job.claimed
    BY <1>13, FinishEffect DEF engine
  <2>2. CASE job'.exit = "ok"
    <3>1. ~SystemicCause  BY <2>1, <2>2
    <3>2. job.failed = {} /\ \A a \in job.claimed : ~Uncertain(a)  BY <3>1 DEF SystemicCause
    <3>3. queue = <<>>  BY <2>1 DEF TasksOK
    <3>4. Reported = job.written  BY <3>2, <3>3 DEF Reported, ToSet
    <3>5. job.claimed \subseteq job.written  BY <2>1, <3>4 DEF AllAccounted, Draining
    <3>6. ASSUME NEW p \in Posts, st[p] = "lost" PROVE FALSE
      <4>1. p[1] \in job.claimed  BY <1>0, <3>6 DEF WireOK, TasksOK
      <4>2. Uncertain(p[1])  BY <3>6 DEF Uncertain, In, PostsOf
      <4> QED  BY <3>2, <4>1, <4>2
    <3>7. job'.written = job'.claimed /\ job'.told = job'.claimed /\ job'.stage = "done"
      <4>1. job'.stage = "done" /\ job'.claimed = job.claimed /\ job'.written = job.written
            /\ job'.told = job.claimed
        BY <2>1, <2>2, Zenon
      <4>2. job.written = job.claimed  BY <1>1, <3>5, Zenon
      <4> QED  BY <4>1, <4>2, Zenon
    <3>8. ASSUME NEW p \in Posts PROVE st'[p] # "lost"
      BY <2>1, <3>6, <3>8
    <3> QED  BY <3>7, <3>8 DEF ExitOK
  <2> QED  BY <1>3, <2>2
<1>14. ASSUME NEW a \in Accounts, Cancelled(a) PROVE ExitOK'
  BY <1>4, <1>14, CancelledEffect
<1>15. CASE Shed  BY <1>4, <1>15, ShedEffect
<1>16. CASE ShedWrite  BY <1>4, <1>16, ShedWriteEffect
<1>17. CASE Write
  <2>1. job.stage \in Racing \cup {"drain"} /\ job'.exit = job.exit  BY <1>17, WriteEffect
  <2> QED  BY <1>4, <2>1 DEF Racing
<1>18. CASE Tick  BY <1>5, <1>18 DEF Tick, engine
<1>19. ASSUME NEW a \in Accounts, Fire(a) \/ CancelExtra(a) \/ Return(a) PROVE ExitOK'
  <2>1. job.stage \in Racing /\ job' = job
    BY <1>19 DEF Fire, CancelExtra, Return, Running, Stage, Racing
  <2> QED  BY <1>4, <2>1 DEF Racing
<1>20. ASSUME NEW a \in Accounts, OtherLease(a) \/ OtherEnd(a) \/ Withdraw(a) PROVE ExitOK'
  BY <1>5, <1>20, OtherEffect DEF engine
<1>21. ASSUME NEW p \in Posts, Serve(p) PROVE ExitOK'  BY <1>5, <1>21 DEF Serve
<1>22. ASSUME NEW p \in Posts, Answer(p) PROVE ExitOK'
  <2>1. job.stage \in Racing /\ job' = job  BY <1>22 DEF Answer, Running, Stage, Racing
  <2> QED  BY <1>4, <2>1 DEF Racing
<1>23. CASE UNCHANGED vars  BY <1>5, <1>23 DEF vars, engine
<1> QED
  BY <1>6, <1>7, <1>8, <1>9, <1>10, <1>11, <1>12, <1>13, <1>14, <1>15, <1>16,
     <1>17, <1>18, <1>19, <1>20, <1>21, <1>22, <1>23 DEF RNext, Runs, Sheds

\* The leases of the claimed rows outlast a run in time, which ends by the writer's deadline.
LEMMA LeasesLast ==
    ASSUME RunTypeOK, InTime
    PROVE  now < Until
<1>1. started \in Nat /\ now \in started..WriterDeadline
  BY RunnerAssumption DEF RunTypeOK, ClockOK
<1> QED  BY <1>1, RunnerAssumption DEF InTime, Until, WriterDeadline, SelfDeadlineAt

\* The run starts once.
LEMMA StartStays ==
    ASSUME [RNext]_vars
    PROVE  started' = started
BY DEF RNext, Runs, Sheds, vars, clock, ReadEvents, ConfigFails, Claim, Prepare, PrepareFails,
       Fire, Serve, Answer, CancelExtra, Return, SelfDeadline, Cancelled, RaceOver, Write,
       WriterCut, Drained, Shed, ShedWrite, Finish, Crash, Tick, OtherLease, OtherEnd, Withdraw

LEMMA LeasesStep ==
    ASSUME InTime, RunTypeOK, TasksOK, ShedGone, LeasesOK, [RNext]_vars
    PROVE  LeasesOK'
<1>0. /\ task \in [Accounts -> {"none", "run", "out"}] /\ job.claimed \in SUBSET Accounts
      /\ row \in [Accounts -> Rows]
  BY DEF RunTypeOK, Jobs
<1>1. now < Until  BY LeasesLast
<1>2. ASSUME \A a \in Accounts : task'[a] = "run" => task[a] = "run" /\ (row[a].lease = "b" => row'[a].lease = "b"),
             job'.stage \notin {"claim", "prepare"}
      PROVE  LeasesOK'
  BY <1>2 DEF LeasesOK
<1>3. CASE ReadEvents \/ ConfigFails
  <2>1. /\ job.stage = "read" /\ job'.claimed = job.claimed /\ UNCHANGED <<row, task>>
    BY <1>3, ReadEffect DEF engine
  <2> QED  BY <2>1 DEF LeasesOK, TasksOK, Before
<1>4. CASE Claim
  <2>1. /\ job.stage = "claim" /\ UNCHANGED task /\ job'.stage \in {"claim", "prepare", "done"}
        /\ \A a \in Accounts : row[a].lease = "b" => row'[a].lease = "b"
        /\ job'.stage # "done" => \A a \in job'.claimed \ job.claimed : row'[a].lease = "b"
    BY <1>4, ClaimEffect DEF engine
  <2>2. \A a \in Accounts : task'[a] = "none"  BY <2>1 DEF TasksOK, Before
  <2> QED  BY <2>1, <2>2 DEF LeasesOK
<1>5. CASE PrepareFails
  <2>1. job.stage = "prepare" /\ UNCHANGED task /\ job'.stage = "done"
    BY <1>5, PrepareFailsEffect DEF engine
  <2>2. \A a \in Accounts : task'[a] = "none"  BY <2>1 DEF TasksOK, Before
  <2> QED  BY <2>1, <2>2 DEF LeasesOK
<1>6. CASE Prepare
  <2>1. PICK sealed \in SUBSET job.claimed :
             /\ job.stage = "prepare" /\ UNCHANGED row /\ job'.stage = "race"
             /\ task' = [a \in Accounts |-> IF a \in job.claimed \ sealed THEN "run" ELSE "none"]
    BY <1>6, PrepareEffect
  <2> QED  BY <2>1 DEF LeasesOK
<1>7. CASE SelfDeadline \/ Drained \/ Crash
  <2>1. UNCHANGED <<row, task>> /\ job'.stage \in {"cut", "collapse", "killed"}
    BY <1>7, StageEffect DEF engine
  <2> QED  BY <1>2, <2>1
<1>8. CASE RaceOver  BY <1>2, <1>8, RaceOverEffect
<1>9. CASE WriterCut
  <2>1. job.stage = "drain" /\ UNCHANGED task /\ job'.stage = "collapse"  BY <1>9, WriterCutEffect
  <2> QED  BY <1>2, <2>1 DEF TasksOK, Draining
<1>10. CASE Finish
  <2>1. UNCHANGED <<row, task>> /\ job'.stage = "done"  BY <1>10, FinishEffect DEF engine
  <2> QED  BY <1>2, <2>1
<1>11. ASSUME NEW a \in Accounts, Cancelled(a) PROVE LeasesOK'
  <2>1. /\ job.stage = "cut" /\ UNCHANGED <<row, job>> /\ task' = [task EXCEPT ![a] = "out"]
    BY <1>11, CancelledEffect
  <2> QED  BY <1>0, <1>2, <2>1
<1>12. CASE Shed
  <2>1. job.stage = "collapse" /\ UNCHANGED task /\ job'.stage \in {"collapse", "shed"}
    BY <1>12, ShedEffect
  <2> QED  BY <1>2, <2>1 DEF TasksOK, Draining
<1>13. CASE ShedWrite
  <2>1. job.stage = "shed" /\ UNCHANGED task /\ job'.stage = "collapse"
    BY <1>13, ShedWriteEffect DEF engine
  <2> QED  BY <1>2, <2>1 DEF TasksOK, Draining
\* Only the row of an outcome is written, and its task is over.
<1>14. CASE Write
  <2>1. PICK a \in Accounts :
             /\ job.stage \in Racing \cup {"drain"} /\ job'.stage = job.stage /\ a \in ToSet(queue)
             /\ UNCHANGED task /\ row' \in {row, Recorded(a), RecordedTwice(a)}
    BY <1>14, WriteEffect
  <2>2. task[a] # "run"  BY <2>1 DEF TasksOK, Reported
  <2>3. \A x \in Accounts : x # a => row'[x] = row[x]  BY <2>1, Recording
  <2> QED  BY <1>2, <2>1, <2>2, <2>3 DEF Racing
<1>15. ASSUME NEW a \in Accounts, OtherLease(a) \/ OtherEnd(a) \/ Withdraw(a) PROVE LeasesOK'
  <2>1. UNCHANGED <<task, job>> /\ \A x \in Accounts : row[x].lease = "b" => row'[x].lease = "b"
    BY <1>1, <1>15, OtherEffect DEF engine
  <2> QED  BY <2>1 DEF LeasesOK
<1>16. ASSUME NEW a \in Accounts, Return(a) PROVE LeasesOK'
  <2>1. /\ job.stage \in Racing /\ UNCHANGED <<row, job>> /\ task' = [task EXCEPT ![a] = "out"]
    BY <1>16, ReturnEffect
  <2> QED  BY <1>0, <1>2, <2>1 DEF Racing
<1>17. CASE UNCHANGED <<row, task, job>>  BY <1>17 DEF LeasesOK
<1>18. ASSUME NEW a \in Accounts, Fire(a) \/ CancelExtra(a) PROVE LeasesOK'
  BY <1>17, <1>18 DEF Fire, CancelExtra
<1>19. ASSUME NEW p \in Posts, Serve(p) \/ Answer(p) PROVE LeasesOK'
  BY <1>17, <1>19 DEF Serve, Answer
<1>20. CASE Tick \/ UNCHANGED vars  BY <1>17, <1>20 DEF Tick, vars, engine
<1> QED
  BY <1>3, <1>4, <1>5, <1>6, <1>7, <1>8, <1>9, <1>10, <1>11, <1>12, <1>13, <1>14,
     <1>15, <1>16, <1>18, <1>19, <1>20 DEF RNext, Runs, Sheds

-----------------------------------------------------------------------------
(* What follows *)

LEMMA RunInvInit == RInit => RunInv /\ LeasesOK
<1> SUFFICES ASSUME RInit PROVE RunInv /\ LeasesOK  OBVIOUS
<1>1. RunTypeOK  BY TypesInit
<1>2. /\ st = [p \in Posts |-> "idle"] /\ led = [p \in Posts |-> "none"] /\ live = {} /\ served = {}
      /\ task = [a \in Accounts |-> "none"] /\ result = [a \in Accounts |-> "none"]
      /\ queue = <<>> /\ job = Job
  BY DEF RInit
<1>3. /\ job.stage = "read" /\ job.claimed = {} /\ job.written = {} /\ job.failed = {}
      /\ job.exit = "none"
  BY <1>2 DEF Job
<1>4. \A p \in Posts : p[1] \in Accounts  BY DEF Posts
<1>5. ToSet(queue) = {}  BY <1>2 DEF ToSet
<1>6. WireOK  BY <1>2, <1>4 DEF WireOK
<1>7. TasksOK  BY <1>2, <1>3, <1>5 DEF TasksOK, Reported, Before, Draining
<1>8. AllAccounted /\ WrittenOK /\ ShedGone /\ ExitOK
  BY <1>3 DEF AllAccounted, WrittenOK, ShedGone, ExitOK
<1>9. LeasesOK  BY <1>2, <1>3 DEF LeasesOK
<1> QED  BY <1>1, <1>6, <1>7, <1>8, <1>9 DEF RunInv

\* The types of the booking job and what its outcomes, its ledger and its exit code rest on,
\* for any number of accounts, POSTs and faults: the inductive invariant of tenant/runner.py.
THEOREM RunnerInvariant == RSpec => []RunInv
<1>1. RInit => RunInv  BY RunInvInit
<1>2. RunInv /\ [RNext]_vars => RunInv'
  <2> SUFFICES ASSUME RunInv, [RNext]_vars PROVE RunInv'  OBVIOUS
  <2>1. /\ RunTypeOK /\ WireOK /\ TasksOK /\ AllAccounted /\ WrittenOK /\ ShedGone /\ ExitOK
    BY DEF RunInv
  <2>2. RunTypeOK' /\ WireOK' /\ TasksOK'  BY <2>1, TypesStep, WireStep, TasksStep
  <2>3. AllAccounted' /\ WrittenOK'  BY <2>1, AccountedStep, WrittenStep
  <2>4. ShedGone' /\ ExitOK'  BY <2>1, ShedGoneStep, ExitStep
  <2> QED  BY <2>2, <2>3, <2>4 DEF RunInv
<1> QED  BY <1>1, <1>2, PTL DEF RSpec

\* NothingUntold (section 4.5 of the plan, runner.py _finish and _write_outcome): once the run
\* is over, each reservation it made is in the ledger, flagged or dumped, wherever the two
\* deadlines cut and whichever answers were lost.
THEOREM NothingIsUntold == RSpec => []NothingUntold
<1>1. RunInv => NothingUntold
  <2> SUFFICES ASSUME RunInv, job.stage = "done", NEW p \in live
               PROVE  \/ led[p] \in {"held", "held_extra"}
                      \/ row[p[1]].reconcile \/ p[1] \in job.failed
    BY DEF NothingUntold, Stage
  <2>1. /\ RunTypeOK /\ WireOK /\ TasksOK /\ AllAccounted /\ WrittenOK  BY DEF RunInv
  <2>2. p \in Posts /\ p[1] \in Accounts  BY <2>1 DEF RunTypeOK, Posts
  <2>3. st[p] \in Made /\ task[p[1]] # "none" /\ task[p[1]] # "run"
    BY <2>1, <2>2 DEF WireOK, TasksOK, Made
  <2>4. p[1] \in job.written \/ p[1] \in job.failed
    BY <2>1, <2>2, <2>3 DEF TasksOK, AllAccounted
  <2>5. st[p] # "flying"  BY <2>1, <2>2, <2>3 DEF WireOK
  <2> QED  BY <2>1, <2>2, <2>3, <2>4, <2>5 DEF WrittenOK, Made
<1> QED  BY <1>1, RunnerInvariant, PTL

\* ExitHonest (RunReport and finish_run): exit 0 is only given when every claimed row was
\* written and told, and every reservation is in the ledger.
THEOREM ExitIsHonest == RSpec => []ExitHonest
<1>1. RunInv => ExitHonest
  <2> SUFFICES ASSUME RunInv, job.exit = "ok"
               PROVE  /\ job.written = job.claimed /\ job.told = job.claimed
                      /\ \A p \in live : led[p] \in {"held", "held_extra"}
    BY DEF ExitHonest
  <2>1. /\ RunTypeOK /\ WireOK /\ TasksOK /\ WrittenOK /\ ExitOK  BY DEF RunInv
  <2>2. /\ job.stage = "done" /\ job.written = job.claimed /\ job.told = job.claimed
        /\ \A p \in Posts : st[p] # "lost"
    BY <2>1 DEF ExitOK
  <2>3. ASSUME NEW p \in live PROVE led[p] \in {"held", "held_extra"}
    <3>1. p \in Posts /\ p[1] \in Accounts  BY <2>1 DEF RunTypeOK, Posts
    <3>2. st[p] \in Made /\ task[p[1]] # "none" /\ task[p[1]] # "run"
      BY <2>1, <2>2, <2>3, <3>1 DEF WireOK, TasksOK, Made
    <3>3. p[1] \in job.written  BY <2>1, <2>2, <3>1, <3>2 DEF TasksOK
    <3>4. st[p] \in {"booked", "kept"}  BY <2>1, <2>2, <3>1, <3>2 DEF WireOK, Made
    <3> QED  BY <2>1, <2>3, <3>1, <3>3, <3>4 DEF WrittenOK
  <2> QED  BY <2>2, <2>3
<1> QED  BY <1>1, RunnerInvariant, PTL

\* LeasedWhilePosting ("its lease is held from the claim"): no POST of a run that starts before
\* T0, or after it by less than the margin leaves of the grace, is on the wire without the
\* run's own live lease.  The leases end 1200 s after T0 (runner.py:452), the deadlines are
\* 1110 and 1140 s after the start (runner.py:490): "less" is a minute there.
THEOREM PostsAreLeased == RSpec => []LeasedWhilePosting
<1> DEFINE Leased == InTime => LeasesOK
<1>1. RInit => Leased  BY RunInvInit
<1>2. RunInv /\ Leased /\ [RNext]_vars => Leased'
  <2> SUFFICES ASSUME RunInv, Leased, [RNext]_vars, InTime' PROVE LeasesOK'  OBVIOUS
  <2>1. started' = started  BY StartStays
  <2>2. InTime  BY <2>1 DEF InTime
  <2> QED  BY <2>2, LeasesStep DEF RunInv
<1>3. RunInv /\ Leased => LeasedWhilePosting
  <2> SUFFICES ASSUME RunInv, LeasesOK, InTime, NEW p \in Posts, st[p] = "flying"
               PROVE  row[p[1]].lease = "b" /\ Alive(row[p[1]])
    BY DEF LeasedWhilePosting, HeldFromTheClaim
  <2>1. RunTypeOK /\ WireOK  BY DEF RunInv
  <2>2. p[1] \in Accounts  BY DEF Posts
  <2>3. row[p[1]].lease = "b"  BY <2>1, <2>2 DEF WireOK, LeasesOK
  <2>4. now < Until  BY <2>1, LeasesLast
  <2> QED  BY <2>3, <2>4 DEF Alive
<1> HIDE DEF Leased
<1> QED  BY <1>1, <1>2, <1>3, RunnerInvariant, PTL DEF RSpec

=============================================================================
