------------------------- MODULE CosmosClaimsProofs -------------------------
(* Theorems about the claims of the Cosmos store (CosmosClaims) for any    *)
(* users, accounts, keys and requests, wherever their calls are cut short. *)
EXTENDS CosmosClaims, TLAPS

-----------------------------------------------------------------------------
(* Types.                                                                  *)

DocStates ==
    {d \in [state : {"absent", "invited", "live"}, key : Keys \cup {NoKey}] :
        d.state = "live" <=> d.key # NoKey}

ClaimStates ==
    {c \in [state : {"absent", "pending", "bound"}, owner : Holders \cup {Nobody}, old : BOOLEAN] :
        c.state = "absent" <=> c.owner = Nobody}

DocNames == ({"owner"} \X Holders) \cup ({"claim"} \X Keys)

Steps == {"claim", "stake", "takeover", "count", "uncount", "lastcount", "write",
          "bind", "rollback", "release", "drop", "remove"}

Requests ==
    [kind : {"connect", "operator", "join", "uninvite"}, h : Holders, key : Keys \cup {NoKey},
     step : Steps, was : DocStates, bound : BOOLEAN, mine : BOOLEAN, counted : BOOLEAN,
     made : BOOLEAN, fresh : SUBSET DocNames]

ClaimsTypeOK ==
    /\ docs \in [Holders -> DocStates]
    /\ claims \in [Keys -> ClaimStates]
    /\ act \in [Clients -> {Resting} \cup Requests]
    /\ answered \subseteq Holders \X Keys
    /\ removed \subseteq Users
    /\ shaken \subseteq Holders

\* A request is about an owner of its kind; only a withdrawn invitation is about no key.
KindFor(a) ==
    /\ a.kind = "uninvite" <=> a.step = "remove"
    /\ a.kind # "uninvite" => a.key \in Keys
    /\ a.kind = "connect" <=> a.h \in Accounts
    /\ a.step = "count" => a.kind = "connect" /\ a.was.state = "absent"
    /\ a.counted => a.kind = "connect"
    /\ a.step = "release" => Renamed(a)

KindOK == \A p \in Clients : act[p] # Resting => KindFor(act[p])

-----------------------------------------------------------------------------
(* What a step does to the requests.                                       *)

Same(b, a) ==
    /\ b = Resting <=> a = Resting
    /\ b.kind = a.kind /\ b.h = a.h /\ b.key = a.key /\ b.step = a.step
    /\ a # Resting => /\ b.was = a.was /\ b.bound = a.bound /\ b.mine = a.mine
                      /\ b.counted = a.counted /\ b.made = a.made

\* Every other request is as before, but for the documents written.
OthersLose(p, written) ==
    \A q \in Clients : q # p => Same(act'[q], act[q]) /\ act'[q].fresh = act[q].fresh \ written

LEMMA RestingOut == ASSUME ClaimsAssumption
                    PROVE  Resting \notin Requests /\ Resting.h \notin Holders /\ Resting.step \notin Steps
  BY DEF ClaimsAssumption, Resting, Requests, Steps

LEMMA DocsDiffer ==
    ASSUME NEW h, NEW g, NEW k, NEW l
    PROVE  /\ OwnerDoc(h) # ClaimDoc(k)
           /\ OwnerDoc(h) = OwnerDoc(g) => h = g
           /\ ClaimDoc(k) = ClaimDoc(l) => k = l
  BY DEF OwnerDoc, ClaimDoc

\* A turn changes one request.
LEMMA TurnMoves ==
    ASSUME ClaimsAssumption, ClaimsTypeOK, NEW p \in Clients, NEW a \in {Resting} \cup Requests, Turn(p, a)
    PROVE  /\ act' \in [Clients -> {Resting} \cup Requests]
           /\ act'[p] = a /\ OthersLose(p, {}) /\ \A q \in Clients \ {p} : act'[q] = act[q]
<1>1. \A q \in Clients : act'[q] = IF q = p THEN a ELSE act[q]
  BY DEF ClaimsTypeOK, Turn
<1>2. act' \in [Clients -> {Resting} \cup Requests]
  BY DEF ClaimsTypeOK, Turn
<1>3. \A q \in Clients : q # p => act'[q].fresh = act[q].fresh \ {}
  BY <1>1
<1> QED BY <1>1, <1>2, <1>3 DEF OthersLose, Same

\* A request that learns of a document it wrote.
LEMMA FreshAdded ==
    ASSUME NEW a \in Requests, NEW doc \in DocNames, NEW b, b = [a EXCEPT !.fresh = @ \cup {doc}]
    PROVE  b \in Requests /\ Same(b, a) /\ b.fresh = a.fresh \cup {doc}
  BY DEF Requests, Same, Resting

LEMMA FreshLost ==
    ASSUME NEW a \in {Resting} \cup Requests, NEW doc \in DocNames, NEW b, b = [a EXCEPT !.fresh = @ \ {doc}]
    PROVE  b \in {Resting} \cup Requests /\ Same(b, a) /\ b.fresh = a.fresh \ {doc}
<1>1. CASE a = Resting
  <2>1. b = Resting
    BY <1>1 DEF Resting
  <2> QED BY <1>1, <2>1 DEF Same, Resting
<1>2. CASE a \in Requests
  BY <1>2 DEF Requests, Same, Resting
<1> QED BY <1>1, <1>2

\* A write changes one request, and takes the document from all others.
LEMMA WroteMoves ==
    ASSUME ClaimsAssumption, ClaimsTypeOK, NEW p \in Clients, NEW a \in {Resting} \cup Requests,
           NEW doc \in DocNames, Wrote(p, a, doc)
    PROVE  /\ act' \in [Clients -> {Resting} \cup Requests]
           /\ a = Resting => act'[p] = Resting
           /\ a # Resting => /\ act'[p] \in Requests /\ Same(act'[p], a)
                             /\ act'[p].fresh = a.fresh \cup {doc}
           /\ OthersLose(p, {doc})
<1>1. \A q \in Clients \ {p} : act'[q] = [act[q] EXCEPT !.fresh = @ \ {doc}]
  BY DEF Wrote
<1>2. \A q \in Clients \ {p} : act'[q] \in {Resting} \cup Requests /\ Same(act'[q], act[q])
                                /\ act'[q].fresh = act[q].fresh \ {doc}
  <2> TAKE q \in Clients \ {p}
  <2>1. act[q] \in {Resting} \cup Requests
    BY DEF ClaimsTypeOK
  <2> QED BY <1>1, <2>1, FreshLost
<1>3. a = Resting => act'[p] = Resting
  BY DEF Wrote
<1>4. a # Resting => /\ act'[p] \in Requests /\ Same(act'[p], a)
                     /\ act'[p].fresh = a.fresh \cup {doc}
  <2> SUFFICES ASSUME a # Resting PROVE act'[p] \in Requests /\ Same(act'[p], a) /\ act'[p].fresh = a.fresh \cup {doc}
    OBVIOUS
  <2>1. act'[p] = [a EXCEPT !.fresh = @ \cup {doc}]
    BY DEF Wrote
  <2> QED BY <2>1, FreshAdded
<1>5. act' \in [Clients -> {Resting} \cup Requests]
  <2>1. act' = [q \in Clients |-> act'[q]]
    BY DEF Wrote
  <2> QED BY <2>1, <1>2, <1>3, <1>4
<1> QED BY <1>2, <1>3, <1>4, <1>5 DEF OthersLose

-----------------------------------------------------------------------------
(* What each step does.  `a` is the request before it, `b` after it.       *)

TypeInv == ClaimsTypeOK /\ KindOK

\* The request goes on for the same owner and key.
Goes(b, a) ==
    /\ b \in Requests
    /\ b.kind = a.kind /\ b.h = a.h /\ b.key = a.key
    /\ b.counted => a.counted \/ a.kind = "connect"

Keeps(b, a) == Goes(b, a) /\ b.was = a.was /\ b.bound = a.bound

Entered(p, b) ==
    /\ act[p] = Resting /\ b \in Requests
    /\ b.fresh = {OwnerDoc(b.h)} /\ b.was = docs[b.h] /\ b.bound = FALSE /\ b.counted = FALSE
    /\ b.kind = "uninvite" <=> b.step = "remove"
    /\ b.kind # "uninvite" => b.key \in Keys /\ b.step = "claim"
    /\ b.kind = "connect" <=> b.h \in Accounts
    /\ b.kind = "operator" => /\ docs[b.h].state = "absent" /\ b.h \notin removed
                              /\ \A q \in Clients : act[q].h # b.h
    /\ b.kind \in {"join", "uninvite"} => docs[b.h].state = "invited"
    /\ shaken' = IF \E q \in Clients : act[q].h = b.h THEN shaken \cup {b.h} ELSE shaken
    /\ \A q \in Clients \ {p} : act'[q] = act[q]
    /\ act' \in [Clients -> {Resting} \cup Requests]
    /\ OthersLose(p, {})
    /\ UNCHANGED <<docs, claims, answered, removed>>

LEMMA EnterMoves ==
    ASSUME ClaimsAssumption, TypeInv, NEW p \in Clients, Enter(p), NEW b, b = act'[p]
    PROVE  Entered(p, b)
<1> USE DEF TypeInv
<1>0. docs \in [Holders -> DocStates]
  BY DEF ClaimsTypeOK
<1>1. PICK kind \in Joins, h \in Holders :
          /\ \/ /\ kind \in {"connect", "operator", "join"}
                /\ (kind = "connect") = (h \in Accounts)
                /\ kind = "join" => docs[h].state = "invited"
                /\ kind = "operator" => docs[h].state = "absent" /\ h \notin removed /\ \A q \in Clients : act[q].h # h
                /\ \E k \in KeysOf(h) :
                      /\ kind # "connect" => \A x \in Users : ~Holds(x, k)
                      /\ Turn(p, Acting(kind, h, k, "claim"))
             \/ /\ kind = "uninvite" /\ h \in Users /\ docs[h].state = "invited"
                /\ Turn(p, Acting(kind, h, NoKey, "remove"))
          /\ shaken' = IF \E q \in Clients : act[q].h = h THEN shaken \cup {h} ELSE shaken
  BY DEF Enter
<1>2. act[p] = Resting /\ UNCHANGED <<docs, claims, answered, removed>>
  BY DEF Enter
<1>3. \A k, step : k \in Keys \cup {NoKey} /\ step \in Steps
         /\ kind \in {"connect", "operator", "join", "uninvite"} =>
              /\ Acting(kind, h, k, step) \in Requests
              /\ Acting(kind, h, k, step).kind = kind /\ Acting(kind, h, k, step).h = h
              /\ Acting(kind, h, k, step).key = k /\ Acting(kind, h, k, step).step = step
              /\ Acting(kind, h, k, step).was = docs[h] /\ Acting(kind, h, k, step).bound = FALSE
              /\ Acting(kind, h, k, step).counted = FALSE
              /\ Acting(kind, h, k, step).fresh = {OwnerDoc(h)}
  BY <1>0 DEF Acting, Requests, OwnerDoc, DocNames
<1>4. KeysOf(h) \subseteq Keys
  BY DEF KeysOf, Keys
<1>5. h \in Users => h \notin Accounts
  BY DEF ClaimsAssumption
<1>6. CASE /\ kind \in {"connect", "operator", "join"}
           /\ (kind = "connect") = (h \in Accounts)
           /\ kind = "join" => docs[h].state = "invited"
           /\ kind = "operator" => docs[h].state = "absent" /\ h \notin removed /\ \A q \in Clients : act[q].h # h
           /\ \E k \in KeysOf(h) : Turn(p, Acting(kind, h, k, "claim"))
  <2>1. PICK k \in KeysOf(h) : Turn(p, Acting(kind, h, k, "claim"))
    BY <1>6
  <2> DEFINE c == Acting(kind, h, k, "claim")
  <2>2. /\ c \in Requests /\ c.kind = kind /\ c.h = h /\ c.key = k /\ c.step = "claim"
        /\ c.was = docs[h] /\ c.bound = FALSE /\ c.counted = FALSE /\ c.fresh = {OwnerDoc(h)}
    BY <1>3, <1>4, <1>6 DEF Steps
  <2>3. Turn(p, c)
    BY <2>1
  <2> HIDE DEF c
  <2>4. /\ act' \in [Clients -> {Resting} \cup Requests]
        /\ b = c /\ OthersLose(p, {}) /\ \A q \in Clients \ {p} : act'[q] = act[q]
    BY <2>2, <2>3, TurnMoves
  <2> QED BY <1>1, <1>2, <1>4, <1>6, <2>2, <2>4 DEF Entered
<1>7. CASE /\ kind = "uninvite" /\ h \in Users /\ docs[h].state = "invited"
           /\ Turn(p, Acting(kind, h, NoKey, "remove"))
  <2> DEFINE c == Acting(kind, h, NoKey, "remove")
  <2>2. /\ c \in Requests /\ c.kind = kind /\ c.h = h /\ c.step = "remove"
        /\ c.was = docs[h] /\ c.bound = FALSE /\ c.counted = FALSE /\ c.fresh = {OwnerDoc(h)}
    BY <1>3, <1>7 DEF Steps
  <2>3. Turn(p, c)
    BY <1>7
  <2> HIDE DEF c
  <2>4. /\ act' \in [Clients -> {Resting} \cup Requests]
        /\ b = c /\ OthersLose(p, {}) /\ \A q \in Clients \ {p} : act'[q] = act[q]
    BY <2>2, <2>3, TurnMoves
  <2> QED BY <1>1, <1>2, <1>5, <1>7, <2>2, <2>4 DEF Entered
<1> QED BY <1>1, <1>6, <1>7

\* A request that acts is one.
LEMMA ActsOf ==
    ASSUME ClaimsAssumption, TypeInv, NEW p \in Clients, act[p].step \in Steps
    PROVE  act[p] \in Requests /\ act[p] # Resting
  BY RestingOut DEF TypeInv, ClaimsTypeOK

\* Where a request goes once its key is claimed.
LEMMA AfterIs ==
    ASSUME NEW a \in Requests
    PROVE  /\ After(a) \in Requests /\ Keeps(After(a), a) /\ After(a).fresh = a.fresh
           /\ After(a).step \in {"count", "write"}
           /\ After(a).step = "count" => a.kind = "connect" /\ a.was.state = "absent"
  BY DEF After, Requests, Keeps, Goes, Steps

LEMMA Stepped ==
    ASSUME NEW a \in Requests, NEW s \in Steps, NEW b, b = [a EXCEPT !.step = s]
    PROVE  Keeps(b, a) /\ b.step = s /\ b.fresh = a.fresh
  BY DEF Requests, Keeps, Goes

\* _acquire_claim looks at the claim.
Claimed(p, a, b) ==
    /\ a \in Requests /\ a.step = "claim" /\ a.key \in Keys
    /\ \/ b = Resting
       \/ /\ Keeps(b, a) /\ b.step = "stake" /\ b.fresh = a.fresh \ {ClaimDoc(a.key)}
       \/ /\ Goes(b, a) /\ b.was = a.was /\ b.step \in {"count", "write"}
          /\ b.step = "count" => a.kind = "connect" /\ a.was.state = "absent"
          /\ b.bound <=> claims[a.key].state = "bound"
          /\ claims[a.key].owner = a.h /\ b.fresh = a.fresh \cup {ClaimDoc(a.key)}
       \/ /\ Keeps(b, a) /\ b.step = "takeover" /\ ~Holds(claims[a.key].owner, a.key)
          /\ b.fresh = a.fresh \cup {ClaimDoc(a.key)}
    /\ \A q \in Clients \ {p} : act'[q] = act[q]
    /\ act' \in [Clients -> {Resting} \cup Requests]
    /\ OthersLose(p, {})
    /\ UNCHANGED <<docs, claims, answered, removed, shaken>>

LEMMA ClaimMoves ==
    ASSUME ClaimsAssumption, TypeInv, NEW p \in Clients, Claim(p), NEW a, a = act[p], NEW b, b = act'[p]
    PROVE  Claimed(p, a, b)
<1> DEFINE k == a.key
<1>1. a \in Requests /\ a.step = "claim" /\ a # Resting
  BY ActsOf DEF Claim, Steps
<1>2. k \in Keys
  BY <1>1 DEF TypeInv, KindOK, KindFor
<1>3. UNCHANGED <<docs, claims, answered, removed, shaken>>
  BY DEF Claim, Only
<1>4. ClaimDoc(k) \in DocNames
  BY <1>2 DEF ClaimDoc, DocNames
<1> HIDE DEF k
<1>5. ASSUME NEW c \in {Resting} \cup Requests, Turn(p, c)
      PROVE  /\ b = c /\ \A q \in Clients \ {p} : act'[q] = act[q]
             /\ act' \in [Clients -> {Resting} \cup Requests] /\ OthersLose(p, {})
  BY <1>5, TurnMoves DEF TypeInv
<1>6. CASE claims[k].state = "absent"
  <2> DEFINE c == [a EXCEPT !.step = "stake", !.fresh = @ \ {ClaimDoc(k)}]
  <2>1. c \in Requests /\ Keeps(c, a) /\ c.step = "stake" /\ c.fresh = a.fresh \ {ClaimDoc(k)}
    BY <1>1 DEF Requests, Keeps, Goes, Steps
  <2>2. claims[k].owner = Nobody /\ Nobody # a.h
    BY <1>1, <1>2, <1>6 DEF TypeInv, ClaimsTypeOK, ClaimStates, Requests, ClaimsAssumption
  <2>3. Turn(p, c)
    BY <1>6, <2>2 DEF Claim, k
  <2> HIDE DEF c
  <2> QED BY <1>1, <1>2, <1>3, <1>5, <2>1, <2>3 DEF k, Claimed
<1>7. CASE claims[k].state # "absent" /\ claims[k].owner = a.h
  <2> DEFINE f == After(a)
             c == [f EXCEPT !.bound = claims[k].state = "bound", !.fresh = @ \cup {ClaimDoc(k)}]
  <2>1. f \in Requests /\ Keeps(f, a) /\ f.fresh = a.fresh /\ f.step \in {"count", "write"}
        /\ (f.step = "count" => a.kind = "connect" /\ a.was.state = "absent")
    BY <1>1, AfterIs
  <2>2. Turn(p, c)
    BY <1>7 DEF Claim, k
  <2>3. c \in Requests /\ Goes(c, f) /\ c.was = f.was /\ c.step = f.step /\ c.bound = (claims[k].state = "bound")
        /\ c.fresh = f.fresh \cup {ClaimDoc(k)}
    <3> HIDE DEF f
    <3> QED BY <1>4, <2>1 DEF Requests, Goes
  <2> HIDE DEF c, f
  <2>4. b = c /\ \A q \in Clients \ {p} : act'[q] = act[q]
        /\ act' \in [Clients -> {Resting} \cup Requests] /\ OthersLose(p, {})
    BY <1>5, <2>2, <2>3
  <2>5. Goes(b, a) /\ b.was = a.was
    BY <2>1, <2>3, <2>4 DEF Goes, Keeps
  <2> QED BY <1>1, <1>2, <1>3, <1>5, <1>7, <2>1, <2>3, <2>2, <2>4, <2>5 DEF k, Claimed
<1>8. CASE /\ claims[k].state # "absent" /\ claims[k].owner # a.h
           /\ claims[k].owner \notin {a.h, Nobody} /\ Reclaimable(k)
  <2> DEFINE c == [a EXCEPT !.step = "takeover", !.fresh = @ \cup {ClaimDoc(k)}]
  <2>1. c \in Requests /\ Keeps(c, a) /\ c.step = "takeover" /\ c.fresh = a.fresh \cup {ClaimDoc(k)}
    BY <1>1, <1>4 DEF Requests, Keeps, Goes, Steps
  <2>2. Turn(p, c)
    BY <1>8 DEF Claim, k
  <2>3. ~Holds(claims[k].owner, k)
    BY <1>8 DEF Reclaimable
  <2> HIDE DEF c
  <2> QED BY <1>1, <1>2, <1>3, <1>5, <2>1, <2>2, <2>3 DEF k, Claimed
<1>9. CASE /\ claims[k].state # "absent" /\ claims[k].owner # a.h
           /\ ~(claims[k].owner \notin {a.h, Nobody} /\ Reclaimable(k))
  <2>1. Turn(p, Resting)
    BY <1>9 DEF Claim, k
  <2> QED BY <1>1, <1>2, <1>3, <1>5, <2>1 DEF k, Claimed
<1> QED BY <1>6, <1>7, <1>8, <1>9

\* It creates the claim, or takes it over.
Staked(p, a, b) ==
    /\ a \in Requests /\ a.step \in {"stake", "takeover"} /\ a.key \in Keys
    /\ \/ /\ a.step = "stake" => claims[a.key].state = "absent"
          /\ a.step = "takeover" => ClaimDoc(a.key) \in a.fresh
          /\ claims' = [claims EXCEPT ![a.key] = [state |-> "pending", owner |-> a.h, old |-> FALSE]]
          /\ Keeps(b, a) /\ b.step \in {"count", "write"}
          /\ b.step = "count" => a.kind = "connect" /\ a.was.state = "absent"
          /\ b.fresh = a.fresh \cup {ClaimDoc(a.key)}
          /\ OthersLose(p, {ClaimDoc(a.key)})
       \/ /\ Keeps(b, a) /\ b.step = "claim" /\ b.fresh = a.fresh
          /\ claims' = claims /\ OthersLose(p, {})
    /\ act' \in [Clients -> {Resting} \cup Requests]
    /\ UNCHANGED <<docs, answered, removed, shaken>>

LEMMA StakeMoves ==
    ASSUME ClaimsAssumption, TypeInv, NEW p \in Clients, Stake(p), NEW a, a = act[p], NEW b, b = act'[p]
    PROVE  Staked(p, a, b)
<1> DEFINE k == a.key
<1>1. a \in Requests /\ a.step \in {"stake", "takeover"} /\ a # Resting
  BY ActsOf DEF Stake, Steps
<1>2. k \in Keys
  BY <1>1 DEF TypeInv, KindOK, KindFor
<1>3. UNCHANGED <<docs, answered, removed, shaken>>
  BY DEF Stake, Only
<1>4. ClaimDoc(k) \in DocNames
  BY <1>2 DEF ClaimDoc, DocNames
<1> HIDE DEF k
<1>5. CASE IF a.step = "stake" THEN claims[k].state = "absent" ELSE ClaimDoc(k) \in a.fresh
  <2> DEFINE f == After(a)
             c == [f EXCEPT !.mine = TRUE]
  <2>1. f \in Requests /\ Keeps(f, a) /\ f.fresh = a.fresh /\ f.step \in {"count", "write"}
        /\ (f.step = "count" => a.kind = "connect" /\ a.was.state = "absent")
    BY <1>1, AfterIs
  <2>2. Wrote(p, c, ClaimDoc(k)) /\ claims' = [claims EXCEPT ![k] = [state |-> "pending", owner |-> a.h, old |-> FALSE]]
    BY <1>5 DEF Stake, k
  <2>3. c \in Requests /\ Keeps(c, f) /\ c.step = f.step /\ c.fresh = f.fresh
    <3> HIDE DEF f
    <3> QED BY <2>1 DEF Requests, Keeps, Goes
  <2>4. c # Resting
    BY <2>3, RestingOut
  <2> HIDE DEF c, f
  <2>5. /\ act' \in [Clients -> {Resting} \cup Requests] /\ b \in Requests /\ Same(b, c)
        /\ b.fresh = c.fresh \cup {ClaimDoc(k)} /\ OthersLose(p, {ClaimDoc(k)})
    BY <1>4, <2>2, <2>3, <2>4, WroteMoves DEF TypeInv
  <2>6. Keeps(b, a) /\ b.step = f.step /\ b.fresh = a.fresh \cup {ClaimDoc(k)}
    BY <2>1, <2>3, <2>4, <2>5 DEF Goes, Keeps, Same
  <2> QED BY <1>1, <1>2, <1>3, <1>5, <2>1, <2>2, <2>5, <2>6 DEF k, Staked
<1>6. CASE ~IF a.step = "stake" THEN claims[k].state = "absent" ELSE ClaimDoc(k) \in a.fresh
  <2> DEFINE c == [a EXCEPT !.step = "claim"]
  <2>1. Turn(p, c) /\ claims' = claims
    BY <1>6 DEF Stake, k
  <2>2. Keeps(c, a) /\ c.step = "claim" /\ c.fresh = a.fresh /\ c \in Requests
    BY <1>1, Stepped DEF Steps, Keeps, Goes
  <2> HIDE DEF c
  <2>3. b = c /\ act' \in [Clients -> {Resting} \cup Requests] /\ OthersLose(p, {})
    BY <2>1, <2>2, TurnMoves DEF TypeInv
  <2> QED BY <1>1, <1>2, <1>3, <2>1, <2>2, <2>3 DEF k, Staked
<1> QED BY <1>5, <1>6

\* The course's counter goes up and down.
Counted(p, a, b) ==
    /\ a \in Requests /\ a.step \in {"count", "uncount", "lastcount"}
    /\ \/ b = Resting /\ a.step # "uncount"
       \/ a.step = "count" /\ Keeps(b, a) /\ b.step \in {"write", "drop"} /\ b.fresh = a.fresh
       \/ a.step = "uncount" /\ Keeps(b, a) /\ b.step = "bind" /\ b.fresh = a.fresh
    /\ act' \in [Clients -> {Resting} \cup Requests]
    /\ OthersLose(p, {})
    /\ UNCHANGED <<docs, claims, answered, removed, shaken>>

LEMMA CountMoves ==
    ASSUME ClaimsAssumption, TypeInv, NEW p \in Clients, Count(p) \/ Uncount(p),
           NEW a, a = act[p], NEW b, b = act'[p]
    PROVE  Counted(p, a, b)
<1>1. a \in Requests /\ a.step \in {"count", "uncount", "lastcount"} /\ a # Resting
  BY ActsOf DEF Count, Uncount, Steps
<1>2. UNCHANGED <<docs, claims, answered, removed, shaken>>
  BY DEF Count, Uncount, Only
<1>0. a.step = "count" => a.kind = "connect"
  BY <1>1 DEF TypeInv, KindOK, KindFor
<1>3. PICK c \in {Resting} \cup Requests :
        /\ Turn(p, c)
        /\ \/ c = Resting /\ a.step # "uncount"
           \/ a.step = "count" /\ Keeps(c, a) /\ c.step \in {"write", "drop"} /\ c.fresh = a.fresh
           \/ a.step = "uncount" /\ Keeps(c, a) /\ c.step = "bind" /\ c.fresh = a.fresh
  <2>1. CASE a.step = "count" /\ count < MaxAccounts
    <3> DEFINE c == [a EXCEPT !.step = "write", !.counted = TRUE]
    <3>1. Turn(p, c)
      BY <2>1 DEF Count, Uncount
    <3>2. Keeps(c, a) /\ c.step = "write" /\ c.fresh = a.fresh /\ c \in Requests
      BY <1>0, <1>1, <2>1 DEF Requests, Keeps, Goes, Steps
    <3> HIDE DEF c
    <3> QED BY <2>1, <3>1, <3>2
  <2>2. CASE a.step = "count" /\ ~(count < MaxAccounts) /\ a.mine
    <3> DEFINE c == [a EXCEPT !.step = "drop"]
    <3>1. Turn(p, c)
      BY <2>2 DEF Count, Uncount
    <3>2. Keeps(c, a) /\ c.step = "drop" /\ c.fresh = a.fresh /\ c \in Requests
      BY <1>1, Stepped DEF Steps, Keeps, Goes
    <3> HIDE DEF c
    <3> QED BY <2>2, <3>1, <3>2
  <2>3. CASE a.step = "count" /\ ~(count < MaxAccounts) /\ ~a.mine
    BY <2>3 DEF Count, Uncount
  <2>4. CASE a.step = "uncount"
    <3> DEFINE c == [a EXCEPT !.step = "bind"]
    <3>1. Turn(p, c)
      BY <2>4 DEF Count, Uncount
    <3>2. Keeps(c, a) /\ c.step = "bind" /\ c.fresh = a.fresh /\ c \in Requests
      BY <1>1, Stepped DEF Steps, Keeps, Goes
    <3> HIDE DEF c
    <3> QED BY <2>4, <3>1, <3>2
  <2>5. CASE a.step = "lastcount"
    BY <2>5 DEF Count, Uncount
  <2> QED BY <1>1, <2>1, <2>2, <2>3, <2>4, <2>5 DEF Counted
<1>4. b = c /\ act' \in [Clients -> {Resting} \cup Requests] /\ OthersLose(p, {})
  BY <1>3, TurnMoves DEF TypeInv
<1> QED BY <1>1, <1>2, <1>3, <1>4 DEF Counted

\* The account's document, or the operator's, is written.
Stored(p, a, b) ==
    /\ a \in Requests /\ a.step = "write" /\ a.kind \in {"connect", "operator"} /\ a.key \in Keys
    /\ Keeps(b, a) /\ b.step \in {"uncount", "bind"} /\ b.fresh = a.fresh \cup {OwnerDoc(a.h)}
    /\ docs' = [docs EXCEPT ![a.h] = [state |-> "live", key |-> a.key]]
    /\ act' \in [Clients -> {Resting} \cup Requests]
    /\ OthersLose(p, {OwnerDoc(a.h)})
    /\ UNCHANGED <<claims, answered, removed, shaken>>

LEMMA StoreMoves ==
    ASSUME ClaimsAssumption, TypeInv, NEW p \in Clients, Store(p), NEW a, a = act[p], NEW b, b = act'[p]
    PROVE  Stored(p, a, b)
<1> DEFINE made == a.was.state = "absent" /\ docs[a.h].state = "absent"
           step == IF a.counted /\ ~made THEN "uncount" ELSE "bind"
           c == [a EXCEPT !.made = made, !.step = step]
<1>1. a \in Requests /\ a.step = "write" /\ a # Resting /\ a.kind \in {"connect", "operator"}
  BY ActsOf DEF Store, Steps
<1>2. a.key \in Keys
  BY <1>1 DEF TypeInv, KindOK, KindFor
<1>3. /\ docs' = [docs EXCEPT ![a.h] = [state |-> "live", key |-> a.key]]
      /\ Wrote(p, c, OwnerDoc(a.h)) /\ UNCHANGED <<claims, answered, removed, shaken>>
  BY DEF Store, Only
<1>4. made \in BOOLEAN /\ step \in {"uncount", "bind"}
  OBVIOUS
<1> HIDE DEF made, step
<1>5. c \in Requests /\ Keeps(c, a) /\ c.step = step /\ c.fresh = a.fresh
  BY <1>1, <1>4 DEF Requests, Keeps, Goes, Steps
<1>6. c # Resting /\ OwnerDoc(a.h) \in DocNames
  BY <1>1, <1>5, RestingOut DEF OwnerDoc, DocNames, Requests
<1> HIDE DEF c
<1>7. /\ act' \in [Clients -> {Resting} \cup Requests] /\ b \in Requests /\ Same(b, c)
      /\ b.fresh = c.fresh \cup {OwnerDoc(a.h)} /\ OthersLose(p, {OwnerDoc(a.h)})
  BY <1>3, <1>5, <1>6, WroteMoves DEF TypeInv
<1>8. Keeps(b, a) /\ b.step = step /\ b.fresh = a.fresh \cup {OwnerDoc(a.h)}
  BY <1>5, <1>6, <1>7 DEF Goes, Keeps, Same
<1> QED BY <1>1, <1>2, <1>3, <1>4, <1>7, <1>8 DEF Stored

\* The invited person's document is written, or somebody was faster.
Joined(p, a, b) ==
    /\ a \in Requests /\ a.step = "write" /\ a.kind = "join" /\ a.key \in Keys
    /\ \/ /\ OwnerDoc(a.h) \in a.fresh
          /\ Keeps(b, a) /\ b.step = "bind" /\ b.fresh = a.fresh \cup {OwnerDoc(a.h)}
          /\ docs' = [docs EXCEPT ![a.h] = [state |-> "live", key |-> a.key]]
          /\ OthersLose(p, {OwnerDoc(a.h)})
          /\ answered' = answered
       \/ /\ OwnerDoc(a.h) \notin a.fresh
          /\ \/ b = Resting /\ Told(a)
             \/ /\ Goes(b, a) /\ b.step = "drop" /\ b.bound = a.bound /\ b.was = docs[a.h]
                /\ b.fresh = a.fresh /\ answered' = answered
          /\ docs' = docs /\ OthersLose(p, {})
    /\ act' \in [Clients -> {Resting} \cup Requests]
    /\ UNCHANGED <<claims, removed, shaken>>

LEMMA JoinMoves ==
    ASSUME ClaimsAssumption, TypeInv, NEW p \in Clients, Join(p), NEW a, a = act[p], NEW b, b = act'[p]
    PROVE  Joined(p, a, b)
<1>1. a \in Requests /\ a.step = "write" /\ a # Resting /\ a.kind = "join"
  BY ActsOf DEF Join, Steps
<1>2. a.key \in Keys
  BY <1>1 DEF TypeInv, KindOK, KindFor
<1>3. UNCHANGED <<claims, removed, shaken>>
  BY DEF Join
<1>4. CASE OwnerDoc(a.h) \in a.fresh
  <2> DEFINE c == [a EXCEPT !.step = "bind"]
  <2>1. /\ docs' = [docs EXCEPT ![a.h] = [state |-> "live", key |-> a.key]]
        /\ Wrote(p, c, OwnerDoc(a.h)) /\ answered' = answered
    BY <1>4 DEF Join, JoinMatches
  <2>2. Keeps(c, a) /\ c.step = "bind" /\ c.fresh = a.fresh /\ c \in Requests
    BY <1>1, Stepped DEF Steps, Keeps, Goes
  <2>3. c # Resting /\ OwnerDoc(a.h) \in DocNames
    BY <1>1, <2>2, RestingOut DEF OwnerDoc, DocNames, Requests
  <2> HIDE DEF c
  <2>4. /\ act' \in [Clients -> {Resting} \cup Requests] /\ b \in Requests /\ Same(b, c)
        /\ b.fresh = c.fresh \cup {OwnerDoc(a.h)} /\ OthersLose(p, {OwnerDoc(a.h)})
    BY <2>1, <2>2, <2>3, WroteMoves DEF TypeInv
  <2>5. Keeps(b, a) /\ b.step = "bind" /\ b.fresh = a.fresh \cup {OwnerDoc(a.h)}
    BY <2>2, <2>3, <2>4 DEF Goes, Keeps, Same
  <2> QED BY <1>1, <1>2, <1>3, <1>4, <2>1, <2>4, <2>5 DEF Joined
<1>5. CASE OwnerDoc(a.h) \notin a.fresh /\ Holds(a.h, a.key)
  <2>1. Turn(p, Resting) /\ Told(a) /\ docs' = docs
    BY <1>5 DEF Join, JoinMatches
  <2>2. b = Resting /\ act' \in [Clients -> {Resting} \cup Requests] /\ OthersLose(p, {})
    BY <2>1, TurnMoves DEF TypeInv
  <2> QED BY <1>1, <1>2, <1>3, <1>5, <2>1, <2>2 DEF Joined
<1>6. CASE OwnerDoc(a.h) \notin a.fresh /\ ~Holds(a.h, a.key)
  <2> DEFINE c == [a EXCEPT !.step = "drop", !.was = docs[a.h]]
  <2>1. Turn(p, c) /\ docs' = docs /\ answered' = answered
    BY <1>6 DEF Join, JoinMatches
  <2>2. docs[a.h] \in DocStates
    BY <1>1 DEF TypeInv, ClaimsTypeOK, Requests
  <2>3. c \in Requests /\ Goes(c, a) /\ c.step = "drop" /\ c.bound = a.bound /\ c.was = docs[a.h] /\ c.fresh = a.fresh
    BY <1>1, <2>2 DEF Requests, Goes, Steps
  <2> HIDE DEF c
  <2>4. b = c /\ act' \in [Clients -> {Resting} \cup Requests] /\ OthersLose(p, {})
    BY <2>1, <2>3, TurnMoves DEF TypeInv
  <2> QED BY <1>1, <1>2, <1>3, <1>6, <2>1, <2>3, <2>4 DEF Joined
<1> QED BY <1>4, <1>5, <1>6

\* The claim is bound, or was rewritten meanwhile.
Binds(p, a, b) ==
    /\ a \in Requests /\ a.step = "bind" /\ a.key \in Keys
    /\ \/ /\ \/ a.bound /\ claims' = claims /\ OthersLose(p, {})
             \/ /\ ~a.bound /\ ClaimDoc(a.key) \in a.fresh /\ OthersLose(p, {ClaimDoc(a.key)})
                /\ claims' = [claims EXCEPT ![a.key] = [state |-> "bound", owner |-> a.h, old |-> FALSE]]
          /\ \/ Renamed(a) /\ Keeps(b, a) /\ b.step = "release" /\ answered' = answered
             \/ ~Renamed(a) /\ b = Resting /\ Told(a)
       \/ /\ ~a.bound /\ ClaimDoc(a.key) \notin a.fresh
          /\ Keeps(b, a) /\ b.step = "rollback" /\ b.fresh = a.fresh
          /\ claims' = claims /\ answered' = answered /\ OthersLose(p, {})
    /\ act' \in [Clients -> {Resting} \cup Requests]
    /\ UNCHANGED <<docs, removed, shaken>>

LEMMA BindMoves ==
    ASSUME ClaimsAssumption, TypeInv, NEW p \in Clients, Bind(p), NEW a, a = act[p], NEW b, b = act'[p]
    PROVE  Binds(p, a, b)
<1> DEFINE k == a.key
<1>1. a \in Requests /\ a.step = "bind" /\ a # Resting
  BY ActsOf DEF Bind, Steps
<1>2. k \in Keys
  BY <1>1 DEF TypeInv, KindOK, KindFor
<1>3. UNCHANGED <<docs, removed, shaken>>
  BY DEF Bind
<1>4. ClaimDoc(k) \in DocNames
  BY <1>2 DEF ClaimDoc, DocNames
<1> HIDE DEF k
<1>5. CASE BindMatches(a)
  <2> DEFINE on == [a EXCEPT !.step = "release"]
             next == IF Renamed(a) THEN on ELSE Resting
  <2>1. Keeps(on, a) /\ on.step = "release" /\ on \in Requests
    BY <1>1, Stepped DEF Steps, Keeps, Goes
  <2>2. /\ claims' = IF a.bound THEN claims ELSE [claims EXCEPT ![k] = [state |-> "bound", owner |-> a.h, old |-> FALSE]]
        /\ IF a.bound THEN Turn(p, next) ELSE Wrote(p, next, ClaimDoc(k))
        /\ IF Renamed(a) THEN answered' = answered ELSE Told(a)
    BY <1>5 DEF Bind, k
  <2> HIDE DEF on
  <2>3. next \in {Resting} \cup Requests
    BY <2>1
  <2>4. Renamed(a) => next = on /\ on # Resting
    BY <2>1, RestingOut
  <2>5. ~Renamed(a) => next = Resting
    OBVIOUS
  <2> HIDE DEF next
  <2>6. /\ act' \in [Clients -> {Resting} \cup Requests]
        /\ next = Resting => b = Resting
        /\ next # Resting => b \in Requests /\ Same(b, next)
        /\ IF a.bound THEN OthersLose(p, {}) ELSE OthersLose(p, {ClaimDoc(k)})
    <3>1. CASE a.bound
      <4>1. Turn(p, next)
        BY <2>2, <3>1
      <4>2. b = next /\ act' \in [Clients -> {Resting} \cup Requests] /\ OthersLose(p, {})
        BY <2>3, <4>1, TurnMoves DEF TypeInv
      <4> QED BY <2>3, <3>1, <4>2 DEF Same
    <3>2. CASE ~a.bound
      BY <1>4, <2>2, <2>3, <3>2, WroteMoves DEF TypeInv
    <3> QED BY <3>1, <3>2
  <2>7. Renamed(a) => Keeps(b, a) /\ b.step = "release"
    BY <2>1, <2>4, <2>6 DEF Keeps, Goes, Same
  <2>8. ~a.bound => ClaimDoc(k) \in a.fresh
    BY <1>5 DEF BindMatches, k
  <2> QED BY <1>1, <1>2, <1>3, <2>2, <2>5, <2>6, <2>7, <2>8 DEF k, Binds
<1>6. CASE ~BindMatches(a)
  <2> DEFINE c == [a EXCEPT !.step = "rollback"]
  <2>1. Turn(p, c) /\ claims' = claims /\ answered' = answered
    BY <1>6 DEF Bind
  <2>2. Keeps(c, a) /\ c.step = "rollback" /\ c.fresh = a.fresh /\ c \in Requests
    BY <1>1, Stepped DEF Steps, Keeps, Goes
  <2>3. ~a.bound /\ ClaimDoc(k) \notin a.fresh
    BY <1>6 DEF BindMatches, k
  <2> HIDE DEF c
  <2>4. b = c /\ act' \in [Clients -> {Resting} \cup Requests] /\ OthersLose(p, {})
    BY <2>1, <2>2, TurnMoves DEF TypeInv
  <2> QED BY <1>1, <1>2, <1>3, <2>1, <2>2, <2>3, <2>4 DEF k, Binds
<1> QED BY <1>5, <1>6

\* The document goes back to what it was.
RolledBack(p, a, b) ==
    /\ a \in Requests /\ a.step = "rollback" /\ a.key \in Keys
    /\ docs' = IF a.kind = "join" /\ OwnerDoc(a.h) \notin a.fresh THEN docs ELSE [docs EXCEPT ![a.h] = a.was]
    /\ shaken' = shaken \cup {a.h}
    /\ b = Resting \/ (Keeps(b, a) /\ b.step = "lastcount" /\ a.kind = "connect")
    /\ act' \in [Clients -> {Resting} \cup Requests]
    /\ OthersLose(p, {OwnerDoc(a.h)})
    /\ UNCHANGED <<claims, answered, removed>>

LEMMA RollbackMoves ==
    ASSUME ClaimsAssumption, TypeInv, NEW p \in Clients, Rollback(p), NEW a, a = act[p], NEW b, b = act'[p]
    PROVE  RolledBack(p, a, b)
<1> DEFINE on == [a EXCEPT !.step = "lastcount"]
           c == IF a.counted /\ a.made THEN on ELSE Resting
<1>1. a \in Requests /\ a.step = "rollback" /\ a # Resting
  BY ActsOf DEF Rollback, Steps
<1>2. a.key \in Keys /\ (a.counted => a.kind = "connect")
  BY <1>1 DEF TypeInv, KindOK, KindFor
<1>3. /\ docs' = IF a.kind = "join" /\ OwnerDoc(a.h) \notin a.fresh THEN docs ELSE [docs EXCEPT ![a.h] = a.was]
      /\ Wrote(p, c, OwnerDoc(a.h)) /\ shaken' = shaken \cup {a.h} /\ UNCHANGED <<claims, answered, removed>>
  BY DEF Rollback
<1>4. Keeps(on, a) /\ on.step = "lastcount" /\ on \in Requests
  BY <1>1, Stepped DEF Steps, Keeps, Goes
<1>5. on # Resting /\ OwnerDoc(a.h) \in DocNames
  BY <1>1, <1>4, RestingOut DEF OwnerDoc, DocNames, Requests
<1> HIDE DEF on
<1>6. c \in {Resting} \cup Requests /\ (c = Resting \/ (c = on /\ a.kind = "connect"))
  BY <1>2, <1>4
<1> HIDE DEF c
<1>7. /\ act' \in [Clients -> {Resting} \cup Requests] /\ OthersLose(p, {OwnerDoc(a.h)})
      /\ c = Resting => b = Resting
      /\ c # Resting => b \in Requests /\ Same(b, c)
  BY <1>3, <1>5, <1>6, WroteMoves DEF TypeInv
<1>8. c = on => Keeps(b, a) /\ b.step = "lastcount"
  BY <1>4, <1>5, <1>7 DEF Keeps, Goes, Same
<1> QED BY <1>1, <1>2, <1>3, <1>6, <1>7, <1>8 DEF RolledBack

ReleasedKey(a) == IF a.step = "release" THEN a.was.key ELSE a.key

Deletes(a) ==
    claims[ReleasedKey(a)].owner = a.h /\ (a.kind = "join" => claims[ReleasedKey(a)].state = "pending")

\* _release_claim; a first sign-in may start over.
Released(p, a, b) ==
    /\ a \in Requests /\ a.step \in {"release", "drop"} /\ ReleasedKey(a) \in Keys
    /\ claims' = IF Deletes(a) THEN [claims EXCEPT ![ReleasedKey(a)] = NoClaim] ELSE claims
    /\ \/ b = Resting
       \/ /\ Goes(b, a) /\ b.kind = "join" /\ b.step = "claim" /\ b.bound = FALSE
          /\ a.step = "drop" /\ b.was = docs[b.h] /\ docs[b.h].state = "invited"
          /\ b.key \in Keys
    /\ IF a.step = "release" THEN b = Resting /\ Told(a) ELSE answered' = answered
    /\ act' \in [Clients -> {Resting} \cup Requests]
    /\ OthersLose(p, IF Deletes(a) THEN {ClaimDoc(ReleasedKey(a))} ELSE {})
    /\ UNCHANGED <<docs, removed, shaken>>

LEMMA ReleaseMoves ==
    ASSUME ClaimsAssumption, TypeInv, NEW p \in Clients, Release(p), NEW a, a = act[p], NEW b, b = act'[p]
    PROVE  Released(p, a, b)
<1> DEFINE k == ReleasedKey(a)
           again == Acting("join", a.h, a.key, "claim")
           c == IF a.kind = "join" /\ a.was.state = "invited" /\ docs[a.h] = a.was THEN again ELSE Resting
<1>1. a \in Requests /\ a.step \in {"release", "drop"} /\ a # Resting
  BY ActsOf DEF Release, Steps
<1>2. a.was \in DocStates /\ a.kind # "uninvite" /\ a.key \in Keys
  BY <1>1 DEF TypeInv, KindOK, KindFor, Requests
<1>3. a.step = "release" => a.was.state = "live"
  BY <1>1 DEF TypeInv, KindOK, KindFor, Renamed
<1>4. k \in Keys
  BY <1>1, <1>2, <1>3 DEF DocStates, ReleasedKey
<1>5. /\ IF Deletes(a) THEN claims' = [claims EXCEPT ![k] = NoClaim] /\ Wrote(p, c, ClaimDoc(k))
                        ELSE Turn(p, c) /\ claims' = claims
      /\ IF a.step = "release" THEN Told(a) ELSE answered' = answered
      /\ UNCHANGED <<docs, removed, shaken>>
  BY DEF Release, ReleasedKey, Deletes
<1>6. /\ again \in Requests /\ again.kind = "join" /\ again.h = a.h /\ again.key = a.key
      /\ again.step = "claim" /\ again.was = docs[a.h] /\ again.bound = FALSE /\ again.counted = FALSE /\ again.fresh = {OwnerDoc(a.h)}
  <2>1. docs[a.h] \in DocStates /\ a.h \in Holders
    BY <1>1 DEF TypeInv, ClaimsTypeOK, Requests
  <2> QED BY <1>2, <2>1 DEF Acting, Requests, OwnerDoc, DocNames, Steps
<1>7. ClaimDoc(k) \in DocNames
  BY <1>4 DEF ClaimDoc, DocNames
<1>8. again # Resting
  BY <1>6, RestingOut
<1> HIDE DEF again
<1>9. /\ c \in {Resting} \cup Requests
      /\ c = Resting \/ (c = again /\ a.kind = "join" /\ a.was.state = "invited" /\ docs[a.h] = a.was)
  BY <1>6
<1> HIDE DEF c, k
<1>10. /\ act' \in [Clients -> {Resting} \cup Requests]
       /\ OthersLose(p, IF Deletes(a) THEN {ClaimDoc(k)} ELSE {})
       /\ c = Resting => b = Resting
       /\ c # Resting => b \in Requests /\ Same(b, c)
  <2>1. CASE Deletes(a)  BY <1>5, <1>7, <1>9, <2>1, WroteMoves DEF TypeInv
  <2>2. CASE ~Deletes(a)
    <3>1. Turn(p, c)  BY <1>5, <2>2
    <3>2. b = c /\ act' \in [Clients -> {Resting} \cup Requests] /\ OthersLose(p, {})
      BY <1>9, <3>1, TurnMoves DEF TypeInv
    <3> QED BY <1>9, <2>2, <3>2 DEF Same
  <2> QED BY <2>1, <2>2
<1>11. c = again => /\ Goes(b, a) /\ b.kind = "join" /\ b.step = "claim" /\ b.bound = FALSE
                    /\ a.step = "drop" /\ b.was = docs[b.h] /\ docs[b.h].state = "invited"
                    /\ b.key \in Keys
  <2> SUFFICES ASSUME c = again
               PROVE  /\ Goes(b, a) /\ b.kind = "join" /\ b.step = "claim" /\ b.bound = FALSE
                      /\ a.step = "drop" /\ b.was = docs[b.h] /\ docs[b.h].state = "invited"
                      /\ b.key \in Keys
    OBVIOUS
  <2>1. a.kind = "join" /\ a.was.state = "invited" /\ docs[a.h] = a.was /\ a.step = "drop"
    BY <1>1, <1>3, <1>8, <1>9
  <2>2. b \in Requests /\ Same(b, again)
    BY <1>6, <1>8, <1>10
  <2>3. b.h = a.h /\ b.kind = "join" /\ b.key = a.key /\ b.step = "claim" /\ b.was = docs[a.h] /\ b.bound = FALSE
         /\ b.counted = FALSE
    BY <1>6, <1>8, <2>2 DEF Same
  <2> QED BY <1>2, <2>1, <2>2, <2>3 DEF Goes
<1>12. a.step = "release" => b = Resting
  BY <1>1, <1>3, <1>9, <1>10
<1> QED BY <1>1, <1>4, <1>5, <1>9, <1>10, <1>11, <1>12 DEF k, Released

\* An invitation is withdrawn.
Uninvites(p, a, b) ==
    /\ a \in Requests /\ a.step = "remove" /\ b = Resting
    /\ \/ /\ OwnerDoc(a.h) \in a.fresh /\ docs' = [docs EXCEPT ![a.h] = NoDoc]
          /\ removed' = removed \cup {a.h} /\ OthersLose(p, {OwnerDoc(a.h)})
       \/ docs' = docs /\ removed' = removed /\ OthersLose(p, {})
    /\ act' \in [Clients -> {Resting} \cup Requests]
    /\ UNCHANGED <<claims, answered, shaken>>

LEMMA RemoveMoves ==
    ASSUME ClaimsAssumption, TypeInv, NEW p \in Clients, Remove(p), NEW a, a = act[p], NEW b, b = act'[p]
    PROVE  Uninvites(p, a, b)
<1>1. a \in Requests /\ a.step = "remove" /\ a # Resting
  BY ActsOf DEF Remove, Steps
<1>2. OwnerDoc(a.h) \in DocNames
  BY <1>1 DEF OwnerDoc, DocNames, Requests
<1>3. CASE OwnerDoc(a.h) \in a.fresh
  <2>1. docs' = [docs EXCEPT ![a.h] = NoDoc] /\ removed' = removed \cup {a.h} /\ Wrote(p, Resting, OwnerDoc(a.h))
    BY <1>3 DEF Remove
  <2>2. /\ act' \in [Clients -> {Resting} \cup Requests] /\ OthersLose(p, {OwnerDoc(a.h)}) /\ b = Resting
    BY <1>2, <2>1, WroteMoves DEF TypeInv
  <2> QED BY <1>1, <1>3, <2>1, <2>2 DEF Remove, Uninvites
<1>4. CASE OwnerDoc(a.h) \notin a.fresh
  <2>1. Turn(p, Resting) /\ docs' = docs /\ removed' = removed
    BY <1>4 DEF Remove
  <2>2. b = Resting /\ act' \in [Clients -> {Resting} \cup Requests] /\ OthersLose(p, {})
    BY <2>1, TurnMoves DEF TypeInv
  <2> QED BY <1>1, <2>1, <2>2 DEF Remove, Uninvites
<1> QED BY <1>3, <1>4

\* A process dies.
LEMMA CutMoves ==
    ASSUME ClaimsAssumption, TypeInv, NEW p \in Clients, CutShort(p), NEW a, a = act[p]
    PROVE  /\ a \in Requests /\ act'[p] = Resting /\ shaken' = shaken \cup {a.h}
           /\ act' \in [Clients -> {Resting} \cup Requests]
           /\ OthersLose(p, {})
           /\ UNCHANGED <<docs, claims, answered, removed>>
<1>1. a \in Requests /\ Turn(p, Resting)
  BY DEF CutShort, TypeInv, ClaimsTypeOK
<1>2. act'[p] = Resting /\ act' \in [Clients -> {Resting} \cup Requests] /\ OthersLose(p, {})
  BY <1>1, TurnMoves DEF TypeInv
<1> QED BY <1>1, <1>2 DEF CutShort

-----------------------------------------------------------------------------
(* Types are kept.                                                         *)

LEMMA ToldTyped ==
    ASSUME ClaimsTypeOK, NEW a \in Requests, a.key \in Keys, Told(a)
    PROVE  answered' \subseteq Holders \X Keys /\ <<a.h, a.key>> \in answered'
  BY DEF ClaimsTypeOK, Told, Requests

\* The requests that did not act are of a kind, as before.
LEMMA KindsKept ==
    ASSUME ClaimsAssumption, TypeInv, NEW p \in Clients, NEW ds, OthersLose(p, ds),
           act'[p] # Resting => KindFor(act'[p])
    PROVE  KindOK'
<1> SUFFICES ASSUME NEW q \in Clients, act'[q] # Resting PROVE KindFor(act'[q])
  BY DEF KindOK
<1>1. CASE q = p
  BY <1>1
<1>2. CASE q # p
  <2>1. Same(act'[q], act[q])
    BY <1>2 DEF OthersLose
  <2>2. act[q] # Resting /\ KindFor(act[q])
    BY <2>1 DEF Same, TypeInv, KindOK
  <2> QED BY <2>1, <2>2 DEF Same, KindFor, Renamed
<1> QED BY <1>1, <1>2

LEMMA KindGoes ==
    ASSUME NEW a, NEW b, Goes(b, a), KindFor(a), a.step # "remove", b.step # "remove",
           b.step = "count" => a.kind = "connect" /\ b.was.state = "absent",
           b.step = "release" => Renamed(b)
    PROVE  KindFor(b)
  BY DEF Goes, KindFor

LEMMA EnterTypes ==
    ASSUME ClaimsAssumption, TypeInv, NEW p \in Clients, Enter(p)
    PROVE  TypeInv'
<1>0. PICK b : b = act'[p]
  OBVIOUS
<1>1. /\ b \in Requests
      /\ b.kind = "uninvite" <=> b.step = "remove"
      /\ b.kind # "uninvite" => b.key \in Keys /\ b.step = "claim"
      /\ b.kind = "connect" <=> b.h \in Accounts
      /\ b.counted = FALSE
      /\ shaken' = IF \E q \in Clients : act[q].h = b.h THEN shaken \cup {b.h} ELSE shaken
      /\ act' \in [Clients -> {Resting} \cup Requests] /\ OthersLose(p, {})
      /\ UNCHANGED <<docs, claims, answered, removed>>
  <2>1. Entered(p, b)
    BY <1>0, EnterMoves
  <2> QED BY <2>1 DEF Entered
<1>2. KindFor(b)
  BY <1>1 DEF KindFor
<1>3. shaken' \subseteq Holders
  BY <1>1 DEF TypeInv, ClaimsTypeOK, Requests
<1>4. KindOK'
  BY <1>0, <1>1, <1>2, KindsKept
<1> QED BY <1>1, <1>3, <1>4 DEF TypeInv, ClaimsTypeOK

LEMMA ClaimTypes ==
    ASSUME ClaimsAssumption, TypeInv, NEW p \in Clients, Claim(p)
    PROVE  TypeInv'
<1> DEFINE a == act[p]
           b == act'[p]
<1>1. /\ a \in Requests /\ a.step = "claim" /\ act' \in [Clients -> {Resting} \cup Requests]
      /\ OthersLose(p, {}) /\ UNCHANGED <<docs, claims, answered, removed, shaken>>
      /\ b = Resting \/ /\ Goes(b, a) /\ b.was = a.was /\ b.step \in {"stake", "count", "write", "takeover"}
                        /\ b.step = "count" => a.kind = "connect" /\ a.was.state = "absent"
  <2>1. Claimed(p, a, b)
    BY ClaimMoves
  <2> QED BY <2>1 DEF Claimed, Keeps
<1>2. KindFor(a)
  BY <1>1, RestingOut DEF TypeInv, KindOK
<1>3. b # Resting => KindFor(b)
  BY <1>1, <1>2, KindGoes
<1>4. KindOK'
  BY <1>1, <1>3, KindsKept
<1> QED BY <1>1, <1>4 DEF TypeInv, ClaimsTypeOK

LEMMA StakeTypes ==
    ASSUME ClaimsAssumption, TypeInv, NEW p \in Clients, Stake(p)
    PROVE  TypeInv'
<1>0. PICK a, b : a = act[p] /\ b = act'[p]
  OBVIOUS
<1>1. /\ a \in Requests /\ a.step \in {"stake", "takeover"} /\ a.key \in Keys
      /\ act' \in [Clients -> {Resting} \cup Requests]
      /\ Keeps(b, a) /\ b.step \in {"count", "write", "claim"}
      /\ b.step = "count" => a.kind = "connect" /\ a.was.state = "absent"
      /\ \E ds : OthersLose(p, ds)
      /\ \/ claims' = [claims EXCEPT ![a.key] = [state |-> "pending", owner |-> a.h, old |-> FALSE]]
         \/ claims' = claims
      /\ UNCHANGED <<docs, answered, removed, shaken>>
  <2>1. Staked(p, a, b)
    BY <1>0, StakeMoves
  <2> QED BY <2>1 DEF Staked
<1>2. KindFor(a)
  BY <1>0, <1>1, RestingOut DEF TypeInv, KindOK
<1>3. KindFor(b)
  BY <1>1, <1>2, KindGoes DEF Keeps
<1>4. KindOK'
  BY <1>0, <1>1, <1>3, KindsKept
<1>5. claims' \in [Keys -> ClaimStates]
  <2> DEFINE new == [state |-> "pending", owner |-> a.h, old |-> FALSE]
  <2>1. new \in ClaimStates
    BY <1>1 DEF ClaimStates, Requests, ClaimsAssumption
  <2>2. claims \in [Keys -> ClaimStates]
    BY DEF TypeInv, ClaimsTypeOK
  <2>3. claims' = [claims EXCEPT ![a.key] = new] \/ claims' = claims
    BY <1>1
  <2> HIDE DEF new
  <2> QED BY <1>1, <2>1, <2>2, <2>3
<1> QED BY <1>1, <1>4, <1>5 DEF TypeInv, ClaimsTypeOK

LEMMA CountTypes ==
    ASSUME ClaimsAssumption, TypeInv, NEW p \in Clients, Count(p) \/ Uncount(p)
    PROVE  TypeInv'
<1> DEFINE a == act[p]
           b == act'[p]
<1>1. /\ a \in Requests /\ a.step \in {"count", "uncount", "lastcount"}
      /\ b = Resting \/ (Keeps(b, a) /\ b.step \in {"write", "drop", "bind"})
      /\ act' \in [Clients -> {Resting} \cup Requests] /\ OthersLose(p, {})
      /\ UNCHANGED <<docs, claims, answered, removed, shaken>>
  <2>1. Counted(p, a, b)
    BY CountMoves
  <2> QED BY <2>1 DEF Counted
<1>2. KindFor(a)
  BY <1>1, RestingOut DEF TypeInv, KindOK
<1>3. b # Resting => KindFor(b)
  BY <1>1, <1>2, KindGoes DEF Keeps
<1>4. KindOK'
  BY <1>1, <1>3, KindsKept
<1> QED BY <1>1, <1>4 DEF TypeInv, ClaimsTypeOK

\* A live document is one.
LEMMA LiveTyped ==
    ASSUME ClaimsAssumption, ClaimsTypeOK, NEW h \in Holders, NEW k \in Keys,
           docs' = [docs EXCEPT ![h] = [state |-> "live", key |-> k]]
    PROVE  docs' \in [Holders -> DocStates]
  BY DEF ClaimsTypeOK, DocStates, ClaimsAssumption

LEMMA StoreTypes ==
    ASSUME ClaimsAssumption, TypeInv, NEW p \in Clients, Store(p)
    PROVE  TypeInv'
<1> DEFINE a == act[p]
           b == act'[p]
<1>1. /\ a \in Requests /\ a.step = "write" /\ a.key \in Keys
      /\ Keeps(b, a) /\ b.step \in {"uncount", "bind"}
      /\ docs' = [docs EXCEPT ![a.h] = [state |-> "live", key |-> a.key]]
      /\ act' \in [Clients -> {Resting} \cup Requests] /\ \E ds : OthersLose(p, ds)
      /\ UNCHANGED <<claims, answered, removed, shaken>>
  <2>1. Stored(p, a, b)
    BY StoreMoves
  <2> QED BY <2>1 DEF Stored
<1>2. KindFor(a) /\ a.h \in Holders
  BY <1>1, RestingOut DEF TypeInv, KindOK, Requests
<1>3. KindFor(b)
  BY <1>1, <1>2, KindGoes DEF Keeps
<1>4. KindOK'
  BY <1>1, <1>3, KindsKept
<1>5. docs' \in [Holders -> DocStates]
  BY <1>1, <1>2, LiveTyped DEF TypeInv
<1> QED BY <1>1, <1>4, <1>5 DEF TypeInv, ClaimsTypeOK

LEMMA JoinTypes ==
    ASSUME ClaimsAssumption, TypeInv, NEW p \in Clients, Join(p)
    PROVE  TypeInv'
<1>0. PICK a, b : a = act[p] /\ b = act'[p]
  OBVIOUS
<1>1. /\ a \in Requests /\ a.step = "write" /\ a.key \in Keys
      /\ b = Resting \/ (Goes(b, a) /\ b.step \in {"bind", "drop"})
      /\ docs' = [docs EXCEPT ![a.h] = [state |-> "live", key |-> a.key]] \/ docs' = docs
      /\ answered' = answered \/ Told(a)
      /\ act' \in [Clients -> {Resting} \cup Requests] /\ \E ds : OthersLose(p, ds)
      /\ UNCHANGED <<claims, removed, shaken>>
  <2>1. Joined(p, a, b)
    BY <1>0, JoinMoves
  <2> QED BY <2>1 DEF Joined, Keeps
<1>2. KindFor(a) /\ a.h \in Holders
  BY <1>0, <1>1, RestingOut DEF TypeInv, KindOK, Requests
<1>3. b # Resting => KindFor(b)
  BY <1>1, <1>2, KindGoes
<1>4. KindOK'
  BY <1>0, <1>1, <1>3, KindsKept
<1>5. docs' \in [Holders -> DocStates]
  BY <1>1, <1>2, LiveTyped DEF TypeInv, ClaimsTypeOK
<1>6. answered' \subseteq Holders \X Keys
  BY <1>1, ToldTyped DEF TypeInv, ClaimsTypeOK
<1> QED BY <1>1, <1>4, <1>5, <1>6 DEF TypeInv, ClaimsTypeOK

LEMMA BindTypes ==
    ASSUME ClaimsAssumption, TypeInv, NEW p \in Clients, Bind(p)
    PROVE  TypeInv'
<1>0. PICK a, b : a = act[p] /\ b = act'[p]
  OBVIOUS
<1> DEFINE new == [state |-> "bound", owner |-> a.h, old |-> FALSE]
<1>1. /\ a \in Requests /\ a.step = "bind" /\ a.key \in Keys
      /\ b = Resting \/ (Keeps(b, a) /\ b.step = "rollback") \/ (Keeps(b, a) /\ b.step = "release" /\ Renamed(a))
      /\ claims' = claims \/ claims' = [claims EXCEPT ![a.key] = new]
      /\ answered' = answered \/ Told(a)
      /\ act' \in [Clients -> {Resting} \cup Requests] /\ \E ds : OthersLose(p, ds)
      /\ UNCHANGED <<docs, removed, shaken>>
  <2>1. Binds(p, a, b)
    BY <1>0, BindMoves
  <2> QED BY <2>1 DEF Binds
<1>2. new \in ClaimStates
  BY <1>1 DEF ClaimStates, Requests, ClaimsAssumption
<1> HIDE DEF new
<1>3. KindFor(a)
  BY <1>0, <1>1, RestingOut DEF TypeInv, KindOK
<1>4. b # Resting => KindFor(b)
  BY <1>1, <1>3, KindGoes DEF Keeps, Goes, Renamed
<1>5. KindOK'
  BY <1>0, <1>1, <1>4, KindsKept
<1>6. claims' \in [Keys -> ClaimStates]
  BY <1>1, <1>2 DEF TypeInv, ClaimsTypeOK
<1>7. answered' \subseteq Holders \X Keys
  BY <1>1, ToldTyped DEF TypeInv, ClaimsTypeOK
<1> QED BY <1>1, <1>5, <1>6, <1>7 DEF TypeInv, ClaimsTypeOK

LEMMA RollbackTypes ==
    ASSUME ClaimsAssumption, TypeInv, NEW p \in Clients, Rollback(p)
    PROVE  TypeInv'
<1>0. PICK a, b : a = act[p] /\ b = act'[p]
  OBVIOUS
<1>1. /\ a \in Requests /\ a.step = "rollback" /\ a.key \in Keys
      /\ docs' = docs \/ docs' = [docs EXCEPT ![a.h] = a.was]
      /\ shaken' = shaken \cup {a.h}
      /\ b = Resting \/ (Keeps(b, a) /\ b.step = "lastcount")
      /\ act' \in [Clients -> {Resting} \cup Requests] /\ \E ds : OthersLose(p, ds)
      /\ UNCHANGED <<claims, answered, removed>>
  <2>1. RolledBack(p, a, b)
    BY <1>0, RollbackMoves
  <2> QED BY <2>1 DEF RolledBack
<1>2. a.was \in DocStates /\ a.h \in Holders
  BY <1>1 DEF Requests
<1>3. KindFor(a)
  BY <1>0, <1>1, RestingOut DEF TypeInv, KindOK
<1>4. b # Resting => KindFor(b)
  BY <1>1, <1>3, KindGoes DEF Keeps
<1>5. KindOK'
  BY <1>0, <1>1, <1>4, KindsKept
<1>6. docs' \in [Holders -> DocStates] /\ shaken' \subseteq Holders
  BY <1>1, <1>2 DEF TypeInv, ClaimsTypeOK
<1> QED BY <1>1, <1>5, <1>6 DEF TypeInv, ClaimsTypeOK

LEMMA ReleaseTypes ==
    ASSUME ClaimsAssumption, TypeInv, NEW p \in Clients, Release(p)
    PROVE  TypeInv'
<1>0. PICK a, b : a = act[p] /\ b = act'[p]
  OBVIOUS
<1>1. /\ a \in Requests /\ a.step \in {"release", "drop"} /\ ReleasedKey(a) \in Keys
      /\ claims' = [claims EXCEPT ![ReleasedKey(a)] = NoClaim] \/ claims' = claims
      /\ b = Resting \/ (Goes(b, a) /\ b.step = "claim")
      /\ answered' = answered \/ Told(a)
      /\ act' \in [Clients -> {Resting} \cup Requests] /\ \E ds : OthersLose(p, ds)
      /\ UNCHANGED <<docs, removed, shaken>>
  <2>1. Released(p, a, b)
    BY <1>0, ReleaseMoves
  <2> QED BY <2>1 DEF Released
<1>2. NoClaim \in ClaimStates
  BY DEF NoClaim, ClaimStates
<1>3. KindFor(a) /\ a.key \in Keys
  BY <1>0, <1>1, RestingOut DEF TypeInv, KindOK, KindFor
<1>4. b # Resting => KindFor(b)
  BY <1>1, <1>3, KindGoes
<1>5. KindOK'
  BY <1>0, <1>1, <1>4, KindsKept
<1>6. claims' \in [Keys -> ClaimStates]
  BY <1>1, <1>2 DEF TypeInv, ClaimsTypeOK
<1>7. answered' \subseteq Holders \X Keys
  BY <1>1, <1>3, ToldTyped DEF TypeInv, ClaimsTypeOK
<1> QED BY <1>1, <1>5, <1>6, <1>7 DEF TypeInv, ClaimsTypeOK

LEMMA RemoveTypes ==
    ASSUME ClaimsAssumption, TypeInv, NEW p \in Clients, Remove(p)
    PROVE  TypeInv'
<1>1. PICK a, b : a = act[p] /\ b = act'[p]
  OBVIOUS
<1>2. /\ a \in Requests /\ a.step = "remove" /\ b = Resting
      /\ \/ docs' = [docs EXCEPT ![a.h] = NoDoc] /\ removed' = removed \cup {a.h}
         \/ docs' = docs /\ removed' = removed
      /\ act' \in [Clients -> {Resting} \cup Requests] /\ \E ds : OthersLose(p, ds)
      /\ UNCHANGED <<claims, answered, shaken>>
  <2>1. Uninvites(p, a, b)
    BY <1>1, RemoveMoves
  <2> QED BY <2>1 DEF Uninvites
<1>3. KindFor(a)
  BY <1>1, <1>2, RestingOut DEF TypeInv, KindOK
<1>4. a.h \in Users
  BY <1>2, <1>3 DEF KindFor, Requests, Holders
<1>5. NoDoc \in DocStates
  BY DEF NoDoc, DocStates
<1>6. KindOK'
  BY <1>1, <1>2, KindsKept
<1> QED BY <1>2, <1>4, <1>5, <1>6 DEF TypeInv, ClaimsTypeOK

LEMMA CutTypes ==
    ASSUME ClaimsAssumption, TypeInv, NEW p \in Clients, CutShort(p)
    PROVE  TypeInv'
<1>1. PICK a : a = act[p]
  OBVIOUS
<1>2. /\ a \in Requests /\ act'[p] = Resting /\ shaken' = shaken \cup {a.h}
      /\ act' \in [Clients -> {Resting} \cup Requests] /\ OthersLose(p, {})
      /\ UNCHANGED <<docs, claims, answered, removed>>
  BY <1>1, CutMoves
<1>3. KindOK'
  BY <1>2, KindsKept
<1> QED BY <1>2, <1>3 DEF TypeInv, ClaimsTypeOK, Requests

\* An invitation is a document without a key; an old claim is the same claim.
LEMMA InviteMoves ==
    ASSUME ClaimsAssumption, TypeInv, NEW h \in Users, Invite(h)
    PROVE  /\ docs[h].state = "absent" /\ h \notin removed /\ \A p \in Clients : act[p].h # h
           /\ docs' = [docs EXCEPT ![h] = [state |-> "invited", key |-> NoKey]]
           /\ UNCHANGED <<claims, count, act, answered, removed, shaken>>
<1>1. docs[h] \in DocStates /\ h \in Holders /\ docs \in [Holders -> DocStates]
  BY DEF TypeInv, ClaimsTypeOK, Holders
<1>2. docs[h].state = "absent" /\ docs' = [docs EXCEPT ![h].state = "invited"]
  BY DEF Invite
<1>3. docs' = [docs EXCEPT ![h] = [docs[h] EXCEPT !.state = "invited"]]
  BY <1>2
<1>4. [docs[h] EXCEPT !.state = "invited"] = [state |-> "invited", key |-> NoKey]
  BY <1>1, <1>2 DEF DocStates
<1> QED BY <1>2, <1>3, <1>4 DEF Invite, Only

LEMMA InviteTypes ==
    ASSUME ClaimsAssumption, TypeInv, NEW h \in Users, Invite(h)
    PROVE  TypeInv'
<1>1. /\ docs' = [docs EXCEPT ![h] = [state |-> "invited", key |-> NoKey]]
      /\ UNCHANGED <<claims, count, act, answered, removed, shaken>>
  BY InviteMoves
<1>2. [state |-> "invited", key |-> NoKey] \in DocStates
  BY DEF DocStates
<1>3. KindOK'
  BY <1>1 DEF TypeInv, KindOK, KindFor, Renamed
<1> QED BY <1>1, <1>2, <1>3 DEF TypeInv, ClaimsTypeOK

LEMMA AgesMoves ==
    ASSUME ClaimsAssumption, TypeInv, NEW k \in Keys, Ages(k)
    PROVE  /\ claims' \in [Keys -> ClaimStates]
           /\ \A l \in Keys : claims'[l].state = claims[l].state /\ claims'[l].owner = claims[l].owner
           /\ UNCHANGED <<docs, count, act, answered, removed, shaken>>
<1>1. claims \in [Keys -> ClaimStates] /\ claims[k] \in ClaimStates
  BY DEF TypeInv, ClaimsTypeOK
<1>2. claims' = [claims EXCEPT ![k] = [claims[k] EXCEPT !.old = TRUE]]
  BY DEF Ages
<1> DEFINE new == [claims[k] EXCEPT !.old = TRUE]
<1>3. new \in ClaimStates /\ new.state = claims[k].state /\ new.owner = claims[k].owner
  BY <1>1 DEF ClaimStates
<1> HIDE DEF new
<1>4. claims' = [claims EXCEPT ![k] = new]
  BY <1>2 DEF new
<1> QED BY <1>1, <1>3, <1>4 DEF Ages, Only

LEMMA AgesTypes ==
    ASSUME ClaimsAssumption, TypeInv, NEW k \in Keys, Ages(k)
    PROVE  TypeInv'
<1>1. claims' \in [Keys -> ClaimStates] /\ UNCHANGED <<docs, count, act, answered, removed, shaken>>
  BY AgesMoves
<1>2. KindOK'
  BY <1>1 DEF TypeInv, KindOK, KindFor, Renamed
<1> QED BY <1>1, <1>2 DEF TypeInv, ClaimsTypeOK

-----------------------------------------------------------------------------
(* A withdrawn invitation stays withdrawn.                                 *)

\* The operator's first sign-in is about an id nobody invited and nobody else acts on.
OperatorAlone ==
    \A p \in Clients :
        act[p].kind = "operator" =>
            /\ act[p].h \notin removed /\ docs[act[p].h].state # "invited" /\ act[p].was.state = "absent"
            /\ \A q \in Clients : act[q].h = act[p].h => q = p

\* An invitation that was read and not rewritten since is there; a first sign-in puts
\* back no other document than the invitation.
InviteSeen ==
    \A p \in Clients :
        act[p].kind \in {"join", "uninvite"} =>
            /\ OwnerDoc(act[p].h) \in act[p].fresh => docs[act[p].h].state # "absent"
            /\ act[p].step # "drop" => act[p].was.state = "invited"

RemovalInv == TypeInv /\ OperatorAlone /\ InviteSeen /\ UninvitedStays

LEMMA RestingKind == Resting.kind = "none" /\ Resting.step = "rest" /\ Resting.h = Nobody
  BY DEF Resting

\* What request p may do: write its owner's document only, and stay what it is.
Harmless(p, a, b, ds) ==
    /\ \A x \in Holders : docs'[x] = docs[x] \/ (x = a.h /\ OwnerDoc(x) \in ds)
    /\ \A x \in removed' : x \in removed \/ (x = a.h /\ a.kind # "operator")
    /\ \/ b = Resting
       \/ /\ b.kind = a.kind /\ b.h = a.h
          /\ b.kind = "operator" => b.was.state = "absent" /\ docs'[b.h].state # "invited"
          /\ b.kind \in {"join", "uninvite"} =>
                /\ OwnerDoc(b.h) \in b.fresh => docs'[b.h].state # "absent"
                /\ b.step # "drop" => b.was.state = "invited"

LEMMA RemovalKept ==
    ASSUME ClaimsAssumption, RemovalInv, NEW p \in Clients, NEW ds, OthersLose(p, ds),
           NEW a \in Requests, a = act[p], NEW b, b = act'[p], Harmless(p, a, b, ds)
    PROVE  OperatorAlone' /\ InviteSeen'
<1>1. \A q \in Clients : q # p => /\ act'[q].kind = act[q].kind /\ act'[q].h = act[q].h
                                  /\ act[q] # Resting => act'[q].was = act[q].was /\ act'[q].step = act[q].step
                                  /\ act'[q].fresh = act[q].fresh \ ds
  BY DEF OthersLose, Same
<1>2. \A q \in Clients : act'[q].h = act[q].h \/ act'[q].h = Nobody
  BY <1>1, RestingKind DEF Harmless
<1>3. \A q \in Clients : act[q].kind \in {"operator", "join", "uninvite"} => act[q].h \in Holders /\ act[q] # Resting
  BY RestingKind DEF RemovalInv, TypeInv, ClaimsTypeOK, Requests
<1>4. a.h \in Holders /\ a # Resting
  BY RestingOut DEF Requests
<1>5. ASSUME NEW q \in Clients, act'[q].kind = "operator"
      PROVE  /\ act'[q].h \notin removed' /\ docs'[act'[q].h].state # "invited" /\ act'[q].was.state = "absent"
             /\ \A u \in Clients : act'[u].h = act'[q].h => u = q
  <2>1. act[q].kind = "operator" /\ act'[q].h = act[q].h /\ act[q].h # Nobody
    BY <1>1, <1>3, <1>5, RestingKind DEF Harmless, ClaimsAssumption
  <2>2. /\ act[q].h \notin removed /\ docs[act[q].h].state # "invited" /\ act[q].was.state = "absent"
        /\ \A u \in Clients : act[u].h = act[q].h => u = q
    BY <2>1 DEF RemovalInv, OperatorAlone
  <2>3. CASE q = p
    BY <1>2, <1>3, <1>5, <2>1, <2>2, <2>3, RestingKind DEF Harmless
  <2>4. CASE q # p
    <3>1. act[q].h # a.h
      BY <2>2, <2>4
    <3> QED BY <1>1, <1>2, <1>3, <2>1, <2>2, <2>4, <3>1 DEF Harmless
  <2> QED BY <2>3, <2>4
<1>6. ASSUME NEW q \in Clients, act'[q].kind \in {"join", "uninvite"}
      PROVE  /\ OwnerDoc(act'[q].h) \in act'[q].fresh => docs'[act'[q].h].state # "absent"
             /\ act'[q].step # "drop" => act'[q].was.state = "invited"
  <2>1. CASE q = p
    BY <1>6, <2>1, RestingKind DEF Harmless
  <2>2. CASE q # p
    <3>1. act[q].kind \in {"join", "uninvite"} /\ act[q].h \in Holders /\ act[q] # Resting /\ act'[q].h = act[q].h
      BY <1>1, <1>3, <1>6, <2>2
    <3>2. /\ OwnerDoc(act[q].h) \in act[q].fresh => docs[act[q].h].state # "absent"
          /\ act[q].step # "drop" => act[q].was.state = "invited"
      BY <3>1 DEF RemovalInv, InviteSeen
    <3>3. OwnerDoc(act[q].h) \in act'[q].fresh => /\ OwnerDoc(act[q].h) \in act[q].fresh
                                                  /\ OwnerDoc(act[q].h) \notin ds
      BY <1>1, <2>2
    <3>4. OwnerDoc(act[q].h) \notin ds => docs'[act[q].h] = docs[act[q].h]
      BY <3>1 DEF Harmless
    <3> QED BY <1>1, <2>2, <3>1, <3>2, <3>3, <3>4
  <2> QED BY <2>1, <2>2
<1>7. OperatorAlone'
  BY <1>5 DEF OperatorAlone
<1>8. InviteSeen'
  BY <1>6 DEF InviteSeen
<1> QED BY <1>7, <1>8

LEMMA EnterRemoval ==
    ASSUME ClaimsAssumption, RemovalInv, NEW p \in Clients, Enter(p)
    PROVE  OperatorAlone' /\ InviteSeen' /\ UninvitedStays'
<1>0. PICK b : b = act'[p]
  OBVIOUS
<1>1. Entered(p, b)
  BY <1>0, EnterMoves DEF RemovalInv
<1>2. UninvitedStays'
  BY <1>1 DEF Entered, UninvitedStays, RemovalInv
<1>3. \A q \in Clients : q # p => act'[q] = act[q]
  BY <1>1 DEF Entered
<1>4. \A q \in Clients : act[q].kind = "operator" => act[q].h \in Holders
  BY RestingKind DEF RemovalInv, TypeInv, ClaimsTypeOK, Requests
<1>5. act[p] = Resting /\ docs' = docs /\ removed' = removed /\ b.h \in Holders
      /\ b.was = docs[b.h]
  BY <1>1 DEF Entered, Requests
<1>6. ASSUME NEW q \in Clients, act'[q].kind = "operator"
      PROVE  /\ act'[q].h \notin removed /\ docs[act'[q].h].state # "invited" /\ act'[q].was.state = "absent"
             /\ \A u \in Clients : act'[u].h = act'[q].h => u = q
  <2>1. CASE q = p
    BY <1>0, <1>1, <1>3, <1>5, <1>6, <2>1 DEF Entered
  <2>2. CASE q # p
    <3>1. /\ act[q].h \notin removed /\ docs[act[q].h].state # "invited" /\ act[q].was.state = "absent"
          /\ \A u \in Clients : act[u].h = act[q].h => u = q
      BY <1>3, <1>6, <2>2 DEF RemovalInv, OperatorAlone
    <3>2. b.h # act[q].h
    <4>1. b.kind \in {"connect", "operator", "join", "uninvite"}
        BY <1>1 DEF Entered, Requests
      <4>2. b.kind = "connect" => b.h \in Accounts
        BY <1>1 DEF Entered
      <4>3. act[q].kind = "operator" /\ act[q].h \in Users
        <5>1. act[q].kind = "operator" /\ act[q] # Resting /\ act[q].h \in Holders
          BY <1>3, <1>4, <1>6, <2>2, RestingKind
        <5>2. act[q].h \notin Accounts
          BY <5>1 DEF RemovalInv, TypeInv, KindOK, KindFor
        <5> QED BY <5>1, <5>2 DEF Holders
      <4>4. b.kind = "operator" => act[q].h # b.h
        BY <1>1 DEF Entered
      <4>5. b.kind \in {"join", "uninvite"} => docs[b.h].state = "invited"
        BY <1>1 DEF Entered
      <4> QED BY <3>1, <4>1, <4>2, <4>3, <4>4, <4>5 DEF ClaimsAssumption
    <3> QED BY <1>0, <1>3, <2>2, <3>1, <3>2
  <2> QED BY <2>1, <2>2
<1>7. OperatorAlone'
  BY <1>5, <1>6 DEF OperatorAlone
<1>8. InviteSeen'
  <2> SUFFICES ASSUME NEW q \in Clients, act'[q].kind \in {"join", "uninvite"}
               PROVE  /\ OwnerDoc(act'[q].h) \in act'[q].fresh => docs[act'[q].h].state # "absent"
                      /\ act'[q].step # "drop" => act'[q].was.state = "invited"
    BY <1>5 DEF InviteSeen
  <2>1. CASE q = p
    BY <1>0, <1>1, <1>5, <2>1 DEF Entered
  <2>2. CASE q # p
    BY <1>3, <2>2 DEF RemovalInv, InviteSeen
  <2> QED BY <2>1, <2>2
<1> QED BY <1>2, <1>7, <1>8

\* What RemovalInv says of one request.
LEMMA RemovalOf ==
    ASSUME ClaimsAssumption, RemovalInv, NEW p \in Clients, NEW a \in Requests, a = act[p]
    PROVE  /\ a.h \in Holders /\ docs \in [Holders -> DocStates]
           /\ a.kind = "connect" <=> a.h \in Accounts
           /\ a.kind \in {"connect", "operator"} => a.h \notin removed
           /\ a.kind = "operator" => docs[a.h].state # "invited" /\ a.was.state = "absent"
           /\ a.kind \in {"join", "uninvite"} =>
                 /\ OwnerDoc(a.h) \in a.fresh => docs[a.h].state # "absent"
                 /\ a.step # "drop" => a.was.state = "invited"
           /\ a.kind \in {"connect", "operator", "join", "uninvite"}
           /\ a.kind = "uninvite" <=> a.step = "remove"
           /\ \A x \in removed : docs[x].state = "absent" /\ x \in Holders
<1>1. a # Resting /\ a.h \in Holders
  BY RestingOut DEF Requests
<1>2. KindFor(a) /\ removed \subseteq Users /\ docs \in [Holders -> DocStates]
  BY <1>1 DEF RemovalInv, TypeInv, KindOK, ClaimsTypeOK
<1>3. a.kind = "operator" => a.h \notin removed /\ docs[a.h].state # "invited" /\ a.was.state = "absent"
  BY DEF RemovalInv, OperatorAlone
<1>4. a.kind \in {"join", "uninvite"} => /\ OwnerDoc(a.h) \in a.fresh => docs[a.h].state # "absent"
                                         /\ a.step # "drop" => a.was.state = "invited"
  BY DEF RemovalInv, InviteSeen
<1>5. \A x \in removed : docs[x].state = "absent" /\ x \in Holders
  BY <1>2 DEF RemovalInv, UninvitedStays, Holders
<1>6. a.kind \in {"connect", "operator", "join", "uninvite"}
  BY DEF Requests
<1>7. a.kind = "connect" => a.h \notin removed
  BY <1>2 DEF KindFor, ClaimsAssumption
<1> QED BY <1>1, <1>2, <1>3, <1>4, <1>5, <1>6, <1>7 DEF KindFor

\* The steps that write no owner's document.
LEMMA QuietRemoval ==
    ASSUME ClaimsAssumption, RemovalInv, NEW p \in Clients,
           Claim(p) \/ Stake(p) \/ Count(p) \/ Uncount(p) \/ Bind(p) \/ Release(p) \/ CutShort(p)
    PROVE  OperatorAlone' /\ InviteSeen' /\ UninvitedStays'
<1>0. PICK a, b : a = act[p] /\ b = act'[p]
  OBVIOUS
<1>1. TypeInv
  BY DEF RemovalInv
<1>2. /\ a \in Requests /\ docs' = docs /\ removed' = removed /\ \E ds : OthersLose(p, ds)
      /\ \/ b = Resting
         \/ /\ Goes(b, a) /\ b.was = a.was /\ b.step # "release" /\ (a.step = "drop" => b.step = "drop")
            /\ \A x : OwnerDoc(x) \in b.fresh => OwnerDoc(x) \in a.fresh
         \/ Goes(b, a) /\ b.was = a.was /\ a.step = "bind" /\ Renamed(a)
         \/ /\ Goes(b, a) /\ b.kind = "join" /\ b.was = docs[b.h] /\ docs[b.h].state = "invited"
  <2>1. CASE Claim(p)
    <3>1. /\ a \in Requests /\ a.step = "claim" /\ docs' = docs /\ removed' = removed /\ OthersLose(p, {})
          /\ \/ b = Resting
             \/ /\ Goes(b, a) /\ b.was = a.was /\ b.step # "release"
                /\ \/ b.fresh = a.fresh \cup {ClaimDoc(a.key)} \/ b.fresh = a.fresh \ {ClaimDoc(a.key)}
      <4>1. Claimed(p, a, b)
        BY <1>0, <1>1, <2>1, ClaimMoves
      <4> QED BY <4>1 DEF Claimed, Keeps
    <3> QED BY <3>1, DocsDiffer
  <2>2. CASE Stake(p)
    <3>1. /\ a \in Requests /\ a.step \in {"stake", "takeover"} /\ docs' = docs /\ removed' = removed
          /\ \E ds : OthersLose(p, ds)
          /\ Goes(b, a) /\ b.was = a.was /\ b.step # "release"
          /\ b.fresh = a.fresh \cup {ClaimDoc(a.key)} \/ b.fresh = a.fresh
      <4>1. Staked(p, a, b)
        BY <1>0, <1>1, <2>2, StakeMoves
      <4> QED BY <4>1 DEF Staked, Keeps
    <3> QED BY <3>1, DocsDiffer
  <2>3. CASE Count(p) \/ Uncount(p)
    <3>1. Counted(p, a, b)
      BY <1>0, <1>1, <2>3, CountMoves
    <3> QED BY <3>1 DEF Counted, Keeps
  <2>4. CASE Bind(p)
    <3>1. Binds(p, a, b)
      BY <1>0, <1>1, <2>4, BindMoves
    <3> QED BY <3>1 DEF Binds, Keeps
  <2>5. CASE Release(p)
    <3>1. Released(p, a, b)
      BY <1>0, <1>1, <2>5, ReleaseMoves
    <3> QED BY <3>1 DEF Released
  <2>6. CASE CutShort(p)
    BY <1>0, <1>1, <2>6, CutMoves
  <2> QED BY <2>1, <2>2, <2>3, <2>4, <2>5, <2>6
<1>3. PICK ds : OthersLose(p, ds)
  BY <1>2
<1>4. /\ a.kind = "operator" => docs[a.h].state # "invited" /\ a.was.state = "absent"
      /\ a.kind \in {"join", "uninvite"} =>
                 /\ OwnerDoc(a.h) \in a.fresh => docs[a.h].state # "absent"
                 /\ a.step # "drop" => a.was.state = "invited"
  BY <1>0, <1>2, RemovalOf
<1>5. Harmless(p, a, b, ds)
  BY <1>2, <1>4 DEF Harmless, Goes, Renamed
<1>6. OperatorAlone' /\ InviteSeen'
  BY <1>0, <1>2, <1>3, <1>5, RemovalKept
<1> QED BY <1>2, <1>6 DEF UninvitedStays, RemovalInv

\* The steps that write the document of an owner who is not removed.
LEMMA WritingRemoval ==
    ASSUME ClaimsAssumption, RemovalInv, NEW p \in Clients, Store(p) \/ Join(p) \/ Rollback(p)
    PROVE  OperatorAlone' /\ InviteSeen' /\ UninvitedStays'
<1>0. PICK a, b : a = act[p] /\ b = act'[p]
  OBVIOUS
<1>1. TypeInv
  BY DEF RemovalInv
<1>2. PICK new \in DocStates, ds \in SUBSET {OwnerDoc(a.h)} :
        /\ a \in Requests /\ removed' = removed /\ a.step # "drop" /\ a.step # "remove" /\ OthersLose(p, ds)
        /\ \/ /\ OwnerDoc(a.h) \in ds /\ docs' = [docs EXCEPT ![a.h] = new]
              /\ a.kind # "join" \/ OwnerDoc(a.h) \in a.fresh
              /\ new.state # "invited" \/ new = a.was
              /\ new.state # "absent" \/ new = a.was
              /\ b = Resting \/ (Goes(b, a) /\ b.was = a.was)
           \/ /\ docs' = docs /\ a.kind = "join"
              /\ b = Resting \/ (Goes(b, a) /\ b.step = "drop" /\ OwnerDoc(a.h) \notin b.fresh)
  <2>1. CASE Store(p)
    <3> DEFINE new == [state |-> "live", key |-> a.key]
    <3>1. /\ a \in Requests /\ a.step = "write" /\ a.kind \in {"connect", "operator"} /\ a.key \in Keys
          /\ Keeps(b, a) /\ docs' = [docs EXCEPT ![a.h] = new]
          /\ OthersLose(p, {OwnerDoc(a.h)}) /\ removed' = removed
      <4>1. Stored(p, a, b)
        BY <1>0, <1>1, <2>1, StoreMoves
      <4> QED BY <4>1 DEF Stored
    <3>2. new \in DocStates /\ new.state = "live"
      BY <3>1 DEF DocStates, ClaimsAssumption
    <3> HIDE DEF new
    <3> QED BY <3>1, <3>2 DEF Keeps
  <2>2. CASE Join(p)
    <3> DEFINE new == [state |-> "live", key |-> a.key]
    <3>1. Joined(p, a, b)
      BY <1>0, <1>1, <2>2, JoinMoves
    <3>2. a.key \in Keys
      BY <3>1 DEF Joined
    <3>3. new \in DocStates /\ new.state = "live"
      BY <3>2 DEF DocStates, ClaimsAssumption
    <3>4. a \in Requests /\ a.step = "write" /\ a.kind = "join" /\ removed' = removed
      BY <3>1 DEF Joined
    <3>5. \/ /\ docs' = [docs EXCEPT ![a.h] = new] /\ OwnerDoc(a.h) \in a.fresh
             /\ OthersLose(p, {OwnerDoc(a.h)}) /\ Keeps(b, a)
          \/ /\ docs' = docs /\ OthersLose(p, {})
             /\ b = Resting \/ (Goes(b, a) /\ b.step = "drop" /\ OwnerDoc(a.h) \notin b.fresh)
      BY <3>1 DEF Joined
    <3> HIDE DEF new
    <3> QED BY <3>3, <3>4, <3>5 DEF Keeps
  <2>3. CASE Rollback(p)
    <3>1. /\ a \in Requests /\ a.step = "rollback" /\ removed' = removed
          /\ docs' = IF a.kind = "join" /\ OwnerDoc(a.h) \notin a.fresh THEN docs ELSE [docs EXCEPT ![a.h] = a.was]
          /\ b = Resting \/ (Keeps(b, a) /\ b.step = "lastcount" /\ a.kind = "connect")
          /\ OthersLose(p, {OwnerDoc(a.h)})
      <4>1. RolledBack(p, a, b)
        BY <1>0, <1>1, <2>3, RollbackMoves
      <4> QED BY <4>1 DEF RolledBack
    <3>2. a.was \in DocStates
      BY <3>1 DEF Requests
    <3>3. CASE a.kind = "join" /\ OwnerDoc(a.h) \notin a.fresh
      BY <3>1, <3>2, <3>3
    <3>4. CASE ~(a.kind = "join" /\ OwnerDoc(a.h) \notin a.fresh)
      BY <3>1, <3>2, <3>4 DEF Keeps
    <3> QED BY <3>3, <3>4
  <2> QED BY <2>1, <2>2, <2>3
<1>3. /\ a.h \in Holders /\ docs \in [Holders -> DocStates]
      /\ a.kind \in {"connect", "operator"} => a.h \notin removed
      /\ a.kind = "operator" => docs[a.h].state # "invited" /\ a.was.state = "absent"
      /\ a.kind = "join" =>
            /\ OwnerDoc(a.h) \in a.fresh => docs[a.h].state # "absent"
            /\ a.was.state = "invited"
      /\ a.kind \in {"connect", "operator", "join"}
      /\ \A x \in removed : docs[x].state = "absent" /\ x \in Holders
  BY <1>0, <1>2, RemovalOf
<1>4. \A x \in Holders : docs'[x] = docs[x] \/ (x = a.h /\ docs'[x] = new /\ OwnerDoc(x) \in ds)
  BY <1>2, <1>3
<1>5. docs' # docs => a.h \notin removed
  BY <1>2, <1>3
<1>6. UninvitedStays'
  BY <1>2, <1>3, <1>4, <1>5 DEF UninvitedStays
<1>7. Harmless(p, a, b, ds)
  <2>1. CASE b = Resting
    BY <1>2, <1>4, <2>1 DEF Harmless
  <2>2. CASE /\ docs' = docs /\ a.kind = "join" /\ Goes(b, a) /\ b.step = "drop" /\ OwnerDoc(a.h) \notin b.fresh
    BY <1>2, <2>2 DEF Harmless, Goes
  <2>3. CASE /\ docs' = [docs EXCEPT ![a.h] = new] /\ Goes(b, a) /\ b.was = a.was
             /\ new.state # "invited" \/ new = a.was
             /\ new.state # "absent" \/ new = a.was
    <3>1. docs'[a.h] = new
      BY <1>3, <2>3
    <3>2. b.kind = a.kind /\ b.h = a.h
      BY <2>3 DEF Goes
    <3> QED BY <1>2, <1>3, <1>4, <2>3, <3>1, <3>2 DEF Harmless
  <2> QED BY <1>2, <2>1, <2>2, <2>3
<1>8. OperatorAlone' /\ InviteSeen'
  BY <1>0, <1>2, <1>7, RemovalKept
<1> QED BY <1>6, <1>8

LEMMA RemoveRemoval ==
    ASSUME ClaimsAssumption, RemovalInv, NEW p \in Clients, Remove(p)
    PROVE  OperatorAlone' /\ InviteSeen' /\ UninvitedStays'
<1>0. PICK a, b : a = act[p] /\ b = act'[p]
  OBVIOUS
<1>1. Uninvites(p, a, b)
  BY <1>0, RemoveMoves DEF RemovalInv
<1>2. a \in Requests /\ a.step = "remove" /\ b = Resting
  BY <1>1 DEF Uninvites
<1>3. a.h \in Holders /\ docs \in [Holders -> DocStates] /\ a.kind = "uninvite"
      /\ \A x \in removed : docs[x].state = "absent" /\ x \in Holders
  BY <1>0, <1>2, RemovalOf
<1>4. CASE docs' = [docs EXCEPT ![a.h] = NoDoc] /\ removed' = removed \cup {a.h} /\ OthersLose(p, {OwnerDoc(a.h)})
  <2>1. Harmless(p, a, b, {OwnerDoc(a.h)})
    BY <1>2, <1>3, <1>4 DEF Harmless
  <2>2. NoDoc.state = "absent"
    BY DEF NoDoc
  <2>3. UninvitedStays'
    BY <1>3, <1>4, <2>2 DEF UninvitedStays
  <2> QED BY <1>0, <1>2, <1>4, <2>1, <2>3, RemovalKept
<1>5. CASE docs' = docs /\ removed' = removed /\ OthersLose(p, {})
  <2>1. Harmless(p, a, b, {})
    BY <1>2, <1>5 DEF Harmless
  <2> QED BY <1>0, <1>2, <1>3, <1>5, <2>1, RemovalKept DEF UninvitedStays
<1> QED BY <1>1, <1>4, <1>5 DEF Uninvites

LEMMA InviteRemoval ==
    ASSUME ClaimsAssumption, RemovalInv, NEW h \in Users, Invite(h)
    PROVE  OperatorAlone' /\ InviteSeen' /\ UninvitedStays'
<1>1. /\ docs[h].state = "absent" /\ h \notin removed /\ \A p \in Clients : act[p].h # h
      /\ docs' = [docs EXCEPT ![h] = [state |-> "invited", key |-> NoKey]]
      /\ act' = act /\ removed' = removed
  BY InviteMoves DEF RemovalInv
<1>2. \A x \in Holders : x # h => docs'[x] = docs[x]
  BY <1>1 DEF RemovalInv, TypeInv, ClaimsTypeOK
<1>3. \A q \in Clients : act[q].kind \in {"operator", "join", "uninvite"} => act[q].h \in Holders
  BY RestingKind DEF RemovalInv, TypeInv, ClaimsTypeOK, Requests
<1>4. OperatorAlone'
  BY <1>1, <1>2, <1>3 DEF RemovalInv, OperatorAlone
<1>5. InviteSeen'
  BY <1>1, <1>2, <1>3 DEF RemovalInv, InviteSeen
<1>6. UninvitedStays'
  BY <1>1, <1>2 DEF RemovalInv, UninvitedStays, TypeInv, ClaimsTypeOK, Holders
<1> QED BY <1>4, <1>5, <1>6

LEMMA AgesRemoval ==
    ASSUME ClaimsAssumption, RemovalInv, NEW k \in Keys, Ages(k)
    PROVE  OperatorAlone' /\ InviteSeen' /\ UninvitedStays'
<1>1. UNCHANGED <<docs, act, removed>>
  BY AgesMoves DEF RemovalInv
<1> QED BY <1>1 DEF RemovalInv, OperatorAlone, InviteSeen, UninvitedStays

LEMMA TypesStep ==
    ASSUME ClaimsAssumption, TypeInv, [ClaimsNext]_claimVars
    PROVE  TypeInv'
<1>1. ASSUME NEW p \in Clients, Enter(p) \/ Claim(p) \/ Stake(p) \/ Count(p) \/ Uncount(p) \/ Store(p) \/ Join(p)
      PROVE  TypeInv'
  BY <1>1, EnterTypes, ClaimTypes, StakeTypes, CountTypes, StoreTypes, JoinTypes
<1>2. ASSUME NEW p \in Clients, Bind(p) \/ Rollback(p) \/ Release(p) \/ Remove(p) \/ CutShort(p)
      PROVE  TypeInv'
  BY <1>2, BindTypes, RollbackTypes, ReleaseTypes, RemoveTypes, CutTypes
<1>3. ASSUME NEW h \in Users, Invite(h) PROVE TypeInv'
  BY <1>3, InviteTypes
<1>4. ASSUME NEW k \in Keys, Ages(k) PROVE TypeInv'
  BY <1>4, AgesTypes
<1>5. CASE UNCHANGED claimVars
  BY <1>5 DEF claimVars, TypeInv, ClaimsTypeOK, KindOK, KindFor, Renamed
<1> QED BY <1>1, <1>2, <1>3, <1>4, <1>5 DEF ClaimsNext

LEMMA TypesInit == ASSUME ClaimsAssumption, ClaimsInit
                   PROVE  TypeInv
<1>1. NoDoc \in DocStates /\ NoClaim \in ClaimStates
  BY DEF NoDoc, DocStates, NoClaim, ClaimStates
<1> QED BY <1>1 DEF ClaimsInit, TypeInv, ClaimsTypeOK, KindOK

\* The documents, claims and requests of the claims protocol keep their shapes: a document
\* holds a key exactly when it is live, a claim has an owner exactly when it is there, and a
\* request is about a key and an owner of its kind.
THEOREM ClaimsTyped == ClaimsSpec => []TypeInv
<1>1. ClaimsInit => TypeInv
  BY TypesInit, ClaimsAssumption
<1>2. TypeInv /\ [ClaimsNext]_claimVars => TypeInv'
  BY TypesStep, ClaimsAssumption
<1> QED BY <1>1, <1>2, PTL DEF ClaimsSpec

LEMMA RemovalStep ==
    ASSUME ClaimsAssumption, RemovalInv, [ClaimsNext]_claimVars
    PROVE  RemovalInv'
<1>0. TypeInv'
  BY TypesStep DEF RemovalInv
<1>1. ASSUME NEW p \in Clients, Enter(p) \/ Claim(p) \/ Stake(p) \/ Count(p) \/ Uncount(p) \/ Store(p) \/ Join(p)
      PROVE  OperatorAlone' /\ InviteSeen' /\ UninvitedStays'
  BY <1>1, EnterRemoval, QuietRemoval, WritingRemoval
<1>2. ASSUME NEW p \in Clients, Bind(p) \/ Rollback(p) \/ Release(p) \/ Remove(p) \/ CutShort(p)
      PROVE  OperatorAlone' /\ InviteSeen' /\ UninvitedStays'
  BY <1>2, QuietRemoval, WritingRemoval, RemoveRemoval
<1>3. ASSUME NEW h \in Users, Invite(h) PROVE OperatorAlone' /\ InviteSeen' /\ UninvitedStays'
  BY <1>3, InviteRemoval
<1>4. ASSUME NEW k \in Keys, Ages(k) PROVE OperatorAlone' /\ InviteSeen' /\ UninvitedStays'
  BY <1>4, AgesRemoval
<1>5. ASSUME UNCHANGED claimVars PROVE OperatorAlone' /\ InviteSeen' /\ UninvitedStays'
  BY <1>5 DEF claimVars, RemovalInv, OperatorAlone, InviteSeen, UninvitedStays
<1>6. OperatorAlone' /\ InviteSeen' /\ UninvitedStays'
  BY <1>1, <1>2, <1>3, <1>4, <1>5 DEF ClaimsNext
<1> QED BY <1>0, <1>6 DEF RemovalInv

\* An invitation answered as withdrawn stays withdrawn (delete_invited_user), for any number
\* of requests cut short anywhere: a first sign-in that read the invitation before it was
\* deleted does not bring the user into being, and one that lost its claim after it wrote the
\* document puts back only what nobody wrote since.
THEOREM WithdrawnStays == ClaimsSpec => []UninvitedStays
<1>1. ClaimsInit => RemovalInv
  BY TypesInit, ClaimsAssumption DEF ClaimsInit, RemovalInv, OperatorAlone, InviteSeen, UninvitedStays, Resting
<1>2. RemovalInv /\ [ClaimsNext]_claimVars => RemovalInv'
  BY RemovalStep, ClaimsAssumption
<1>3. RemovalInv => UninvitedStays
  BY DEF RemovalInv
<1> QED BY <1>1, <1>2, <1>3, PTL DEF ClaimsSpec


-----------------------------------------------------------------------------
(* Who was told that a key is theirs keeps it.                             *)

\* Before and after a request writes its owner's document.
Pre  == {"claim", "stake", "takeover", "count", "write"}
Post == {"uncount", "bind", "release", "rollback"}

Bound(h, k) == claims[k].state = "bound" /\ claims[k].owner = h

\* What a request knows when it is the only one of its owner, and none before was stopped.
CalmFor(a) ==
    /\ a.step \in Pre \cup {"remove", "drop"} => docs[a.h] = a.was
    /\ a.step \in Pre => OwnerDoc(a.h) \in a.fresh
    /\ a.step = "drop" => a.kind = "connect" /\ a.was.state = "absent"
    /\ a.step \in Post => Holds(a.h, a.key)
    /\ a.step \in {"claim", "stake", "takeover"} => ~a.bound
    /\ a.bound => Holds(a.h, a.key) /\ Bound(a.h, a.key)
    /\ a.step = "release" => Bound(a.h, a.key)
    /\ a.step # "lastcount"

\* Owner h, of whom a is the only request: unless it is between its two writes, the key its
\* document names is bound to h, so is each key h was told; and a claim bound to h is for
\* that key, or for the one that is being left behind.
OwnerFine(h, a) ==
    /\ a # Resting => CalmFor(a)
    /\ a.step \notin Post =>
          \A k \in Keys : /\ Holds(h, k) => Bound(h, k)
                          /\ <<h, k>> \in answered => Holds(h, k)
    /\ \A k \in Keys : Bound(h, k) => Holds(h, k) \/ (a.step \in Post /\ a.was.key = k)

Fine(h) ==
    h \notin shaken =>
        /\ \A p, q \in Clients : act[p].h = h /\ act[q].h = h => p = q
        /\ \A p \in Clients : act[p].h = h => OwnerFine(h, act[p])
        /\ (\A p \in Clients : act[p].h # h) => OwnerFine(h, Resting)

\* What an ETag tells about a claim: it is still the request's own, or still one whose
\* owner does not hold the key.
ClaimKnown(a) ==
    /\ a.step \in {"count", "write", "uncount", "bind"} /\ ClaimDoc(a.key) \in a.fresh
          => claims[a.key].owner = a.h
    /\ a.step = "takeover" /\ ClaimDoc(a.key) \in a.fresh =>
          \A h \in Holders \ shaken : Bound(h, a.key) => ~Holds(h, a.key)

KeyInv ==
    /\ RemovalInv
    /\ \A h \in Holders : Fine(h)
    /\ \A p \in Clients : ClaimKnown(act[p])

LEMMA OwnerKept ==
    ASSUME NEW x, NEW a, NEW c, NEW ds, OwnerFine(x, a), Same(c, a), c.fresh = a.fresh \ ds,
           a = Resting \/ a.h = x,
           docs'[x] = docs[x], OwnerDoc(x) \notin ds,
           \A k \in Keys : Bound(x, k)' => Bound(x, k),
           \A k : Bound(x, k) /\ Holds(x, k) => Bound(x, k)',
           \A k \in Keys : <<x, k>> \in answered' => <<x, k>> \in answered
    PROVE  OwnerFine(x, c)'
<1>1. \A k : Holds(x, k)' <=> Holds(x, k)
  BY DEF Holds
<1>2. c.step = a.step /\ (c # Resting => c.was = a.was)
  BY DEF Same
<1>3. ASSUME c # Resting PROVE CalmFor(c)'
  <2>1. a # Resting /\ CalmFor(a) /\ a.h = x
    BY <1>3 DEF Same, OwnerFine
  <2>2. /\ c.kind = a.kind /\ c.h = x /\ c.key = a.key /\ c.bound = a.bound /\ c.was = a.was
    BY <1>3, <2>1 DEF Same
  <2>3. OwnerDoc(x) \in c.fresh <=> OwnerDoc(x) \in a.fresh
    OBVIOUS
  <2>4. a.bound => Holds(x, a.key)' /\ Bound(x, a.key)'
    BY <1>1, <2>1 DEF CalmFor
  <2>5. a.step = "release" => Bound(x, a.key)'
    BY <1>1, <2>1 DEF CalmFor, Post
  <2> QED BY <1>1, <1>2, <2>1, <2>2, <2>3, <2>4, <2>5 DEF CalmFor
<1>4. ASSUME c.step \notin Post, NEW k \in Keys
      PROVE  /\ Holds(x, k)' => Bound(x, k)'
             /\ <<x, k>> \in answered' => Holds(x, k)'
  BY <1>1, <1>2, <1>4 DEF OwnerFine
<1>5. \A k \in Keys : Bound(x, k)' => Holds(x, k)' \/ (c.step \in Post /\ c.was.key = k)
  <2>1. \A k \in Keys : Bound(x, k) => Holds(x, k) \/ (a.step \in Post /\ a.was.key = k)
    BY DEF OwnerFine
  <2>2. c.step \in Post => c # Resting
    BY RestingKind DEF Post
  <2> QED BY <1>1, <1>2, <2>1, <2>2
<1> QED BY <1>3, <1>4, <1>5 DEF OwnerFine

\* What a step of a request of h may do to the documents and claims of others: nothing,
\* but take a claim from one who does not hold the key.
Frame(p, h, b, ds) ==
    /\ OthersLose(p, ds)
    /\ \A x \in Holders \ {h} : docs'[x] = docs[x] /\ OwnerDoc(x) \notin ds
    /\ \A k \in Keys :
          \/ claims'[k].state = claims[k].state /\ claims'[k].owner = claims[k].owner
          \/ /\ ClaimDoc(k) \in ds /\ claims'[k].owner \in {h, Nobody}
             /\ \A x \in Holders \ {h} : x \notin shaken /\ Bound(x, k) => ~Holds(x, k)
    /\ h \notin shaken' => \A k \in Keys : Bound(h, k) /\ Holds(h, k)' => Holds(h, k)
    /\ shaken' = shaken \/ shaken' = shaken \cup {h}
    /\ \A t \in answered' : t \in answered \/ t[1] = h
    /\ b = Resting \/ b.h = h

LEMMA KeyKept ==
    ASSUME ClaimsAssumption, KeyInv, NEW p \in Clients, NEW h \in Holders, NEW b, b = act'[p], NEW ds,
           act[p] = Resting \/ act[p].h = h,
           Frame(p, h, b, ds), ClaimKnown(b)',
           h \in shaken' \/ ((\A q \in Clients : q # p => act[q].h # h) /\ OwnerFine(h, b)')
    PROVE  (\A x \in Holders : Fine(x)') /\ (\A q \in Clients : ClaimKnown(act[q])')
<1>0. TypeInv /\ docs \in [Holders -> DocStates] /\ claims \in [Keys -> ClaimStates]
  BY DEF KeyInv, RemovalInv, TypeInv, ClaimsTypeOK
<1>1. \A q \in Clients : q # p => Same(act'[q], act[q]) /\ act'[q].fresh = act[q].fresh \ ds
  BY DEF Frame, OthersLose
<1>2. \A q \in Clients : q # p => act'[q].h = act[q].h
  BY <1>1 DEF Same
<1>3. Nobody \notin Holders /\ Resting.h = Nobody
  BY RestingKind DEF ClaimsAssumption
<1>4. act[p].h \in {h, Nobody} /\ b.h \in {h, Nobody} /\ (b.h = Nobody => b = Resting)
  BY <1>3 DEF Frame
<1>5. ASSUME NEW x \in Holders, x # h, x \notin shaken'
      PROVE  Fine(x)'
  <2>1. x \notin shaken /\ Fine(x)
    BY <1>5 DEF Frame, KeyInv
  <2>2. docs'[x] = docs[x] /\ OwnerDoc(x) \notin ds
    BY <1>5 DEF Frame
  <2>3. \A k \in Keys : Bound(x, k)' => Bound(x, k)
    BY <1>3, <1>5 DEF Frame, Bound
  <2>4. \A k : Bound(x, k) /\ Holds(x, k) => Bound(x, k)'
    <3> SUFFICES ASSUME NEW k, Bound(x, k), Holds(x, k) PROVE Bound(x, k)'
      OBVIOUS
    <3>1. k \in Keys
      BY <1>0 DEF Holds, DocStates
    <3> QED BY <1>5, <2>1, <3>1 DEF Frame, Bound
  <2>5. \A k \in Keys : <<x, k>> \in answered' => <<x, k>> \in answered
    BY <1>5 DEF Frame
  <2>6. \A q \in Clients : act'[q].h = x => q # p /\ act[q].h = x
    BY <1>2, <1>3, <1>4, <1>5
  <2>7. ASSUME NEW q \in Clients, act'[q].h = x PROVE OwnerFine(x, act[q])'
    <3>1. PICK a, c : a = act[q] /\ c = act'[q]
      OBVIOUS
    <3>2. OwnerFine(x, a) /\ a.h = x /\ Same(c, a) /\ c.fresh = a.fresh \ ds
      BY <1>1, <2>1, <2>6, <2>7, <3>1 DEF Fine
    <3>3. OwnerFine(x, c)'
      BY <2>2, <2>3, <2>4, <2>5, <3>2, OwnerKept
    <3> QED BY <3>1, <3>3 DEF OwnerFine, CalmFor
  <2>8. ASSUME \A q \in Clients : act'[q].h # x PROVE OwnerFine(x, Resting)'
    <3>1. \A q \in Clients : act[q].h # x
      BY <1>2, <1>3, <1>4, <1>5, <2>8
    <3>2. OwnerFine(x, Resting)
      BY <2>1, <3>1 DEF Fine
    <3>3. Same(Resting, Resting) /\ Resting.fresh = Resting.fresh \ ds
      BY DEF Same, Resting
    <3> QED BY <2>2, <2>3, <2>4, <2>5, <3>2, <3>3, OwnerKept
  <2>9. \A q, r \in Clients : act'[q].h = x /\ act'[r].h = x => q = r
    BY <2>1, <2>6 DEF Fine
  <2> QED BY <2>7, <2>8, <2>9 DEF Fine
<1>6. ASSUME h \notin shaken' PROVE Fine(h)'
  <2>1. \A q \in Clients : act'[q].h = h => q = p
    BY <1>2, <1>6
  <2>2. OwnerFine(h, b)'
    BY <1>6
  <2>3. OwnerFine(h, act[p])'
    BY <2>2 DEF OwnerFine, CalmFor
  <2>4. (\A q \in Clients : act'[q].h # h) => b = Resting
    BY <1>4
  <2> QED BY <2>1, <2>2, <2>3, <2>4 DEF Fine
<1>7. ASSUME NEW q \in Clients, q # p PROVE ClaimKnown(act[q])'
  <2>1. PICK a, c : a = act[q] /\ c = act'[q]
    OBVIOUS
  <2>2. ClaimKnown(a) /\ Same(c, a) /\ c.fresh = a.fresh \ ds
    BY <1>1, <1>7, <2>1 DEF KeyInv
  <2>3. a.step \in {"takeover", "count", "write", "uncount", "bind"} => a.key \in Keys
    <3> SUFFICES ASSUME a.step \in {"takeover", "count", "write", "uncount", "bind"} PROVE a.key \in Keys
      OBVIOUS
    <3>1. a # Resting
      BY RestingKind
    <3> QED BY <1>0, <2>1, <3>1 DEF TypeInv, KindOK, KindFor
  <2>4. ClaimKnown(c)'
    <3>1. c.step = a.step /\ c.key = a.key /\ c.h = a.h
      BY <2>2 DEF Same
    <3>3. ASSUME c.step = "takeover", ClaimDoc(c.key) \in c.fresh, NEW o \in Holders \ shaken', Bound(o, c.key)'
          PROVE  ~Holds(o, c.key)'
      <4>1. claims'[a.key].owner = claims[a.key].owner /\ claims'[a.key].state = claims[a.key].state /\ a.key \in Keys
        <5>1. o \in {h, Nobody} => o = h
          BY <1>3, <3>3
        <5> QED BY <2>2, <2>3, <3>1, <3>3 DEF Frame
      <4>2. o \notin shaken /\ Bound(o, a.key)
        BY <3>1, <3>3, <4>1 DEF Frame, Bound
      <4>3. ~Holds(o, a.key)
        BY <2>2, <3>1, <3>3, <4>2 DEF ClaimKnown
      <4>4. CASE o = h
        BY <3>1, <3>3, <4>1, <4>2, <4>3, <4>4 DEF Frame, Holds
      <4>5. CASE o # h
        BY <3>1, <3>3, <4>3, <4>5 DEF Frame, Holds
      <4> QED BY <4>4, <4>5
    <3>4. c.step \in {"count", "write", "uncount", "bind"} /\ ClaimDoc(c.key) \in c.fresh => claims'[c.key].owner = c.h
      <4> SUFFICES ASSUME c.step \in {"count", "write", "uncount", "bind"}, ClaimDoc(c.key) \in c.fresh
                   PROVE  claims'[c.key].owner = c.h
        OBVIOUS
      <4>1. claims'[a.key].owner = claims[a.key].owner
        BY <2>2, <2>3, <3>1 DEF Frame
      <4> QED BY <2>2, <3>1, <4>1 DEF ClaimKnown
    <3> QED BY <3>3, <3>4 DEF ClaimKnown
  <2> QED BY <2>1, <2>4 DEF ClaimKnown, Holds
<1>8. ClaimKnown(act[p])'
  BY DEF ClaimKnown, Holds
<1> QED BY <1>5, <1>6, <1>7, <1>8 DEF Fine

\* What the invariant says of one request.
LEMMA KeyOf ==
    ASSUME ClaimsAssumption, KeyInv, NEW p \in Clients, NEW a \in Requests, a = act[p]
    PROVE  /\ a.h \in Holders /\ TypeInv /\ KindFor(a) /\ a # Resting
           /\ docs \in [Holders -> DocStates] /\ claims \in [Keys -> ClaimStates]
           /\ a.kind \in {"join", "uninvite"} /\ a.step # "drop" => a.was.state = "invited"
           /\ ClaimKnown(a)
           /\ a.h \notin shaken => /\ OwnerFine(a.h, a) /\ CalmFor(a)
                                   /\ \A q \in Clients : q # p => act[q].h # a.h
<1>1. RemovalInv /\ TypeInv
  BY DEF KeyInv, RemovalInv
<1>2. a.h \in Holders /\ a # Resting
  BY RestingOut DEF Requests
<1>3. docs \in [Holders -> DocStates] /\ claims \in [Keys -> ClaimStates] /\ KindFor(a)
  BY <1>1, <1>2 DEF TypeInv, ClaimsTypeOK, KindOK
<1>4. a.kind \in {"join", "uninvite"} /\ a.step # "drop" => a.was.state = "invited"
  BY <1>1, RemovalOf
<1>5. Fine(a.h) /\ ClaimKnown(a)
  BY <1>2 DEF KeyInv
<1>6. a.h \notin shaken => /\ OwnerFine(a.h, a)
                           /\ \A q \in Clients : q # p => act[q].h # a.h
  BY <1>5 DEF Fine
<1> QED BY <1>1, <1>2, <1>3, <1>4, <1>5, <1>6 DEF OwnerFine

KeyGoal == (\A x \in Holders : Fine(x)) /\ (\A q \in Clients : ClaimKnown(act[q]))

LEMMA RestKnown == ASSUME NEW b, b = Resting
                   PROVE  ClaimKnown(b)'
  BY RestingKind DEF ClaimKnown

LEMMA EnterKey ==
    ASSUME ClaimsAssumption, KeyInv, NEW p \in Clients, Enter(p)
    PROVE  KeyGoal'
<1>0. PICK b, h : b = act'[p] /\ h = b.h
  OBVIOUS
<1>1. Entered(p, b)
  BY <1>0, EnterMoves DEF KeyInv, RemovalInv
<1>2. /\ act[p] = Resting /\ b \in Requests /\ h \in Holders
      /\ b.fresh = {OwnerDoc(h)} /\ b.was = docs[h] /\ b.bound = FALSE
      /\ b.step \in {"claim", "remove"}
      /\ shaken' = IF \E q \in Clients : act[q].h = h THEN shaken \cup {h} ELSE shaken
      /\ OthersLose(p, {})
      /\ UNCHANGED <<docs, claims, answered>>
  BY <1>0, <1>1 DEF Entered, Requests
<1>3. Frame(p, h, b, {})
  BY <1>0, <1>2 DEF Frame, Holds
<1>4. ClaimKnown(b)'
  BY <1>2 DEF ClaimKnown
<1>5. ASSUME h \notin shaken' PROVE OwnerFine(h, b)'
  <2>1. OwnerFine(h, Resting)
    BY <1>2, <1>5 DEF KeyInv, Fine
  <2>2. /\ \A k \in Keys : Holds(h, k) => Bound(h, k)
        /\ \A k \in Keys : <<h, k>> \in answered => Holds(h, k)
        /\ \A k \in Keys : Bound(h, k) => Holds(h, k)
    BY <2>1, RestingKind DEF OwnerFine, Post
  <2>3. CalmFor(b)'
    BY <1>0, <1>2 DEF CalmFor, Pre, Post
  <2> QED BY <1>2, <2>2, <2>3 DEF OwnerFine, Post, Holds, Bound
<1>6. h \notin shaken' => \A q \in Clients : q # p => act[q].h # h
  BY <1>2
<1> QED BY <1>0, <1>2, <1>3, <1>4, <1>5, <1>6, KeyKept DEF KeyGoal

LEMMA ClaimKey ==
    ASSUME ClaimsAssumption, KeyInv, NEW p \in Clients, Claim(p)
    PROVE  KeyGoal'
<1>0. PICK a, b : a = act[p] /\ b = act'[p]
  OBVIOUS
<1>1. Claimed(p, a, b)
  BY <1>0, ClaimMoves DEF KeyInv, RemovalInv
<1>2. a \in Requests /\ a.step = "claim" /\ a.key \in Keys /\ OthersLose(p, {})
      /\ UNCHANGED <<docs, claims, answered, shaken>>
  BY <1>1 DEF Claimed
<1>3. /\ a.h \in Holders /\ a # Resting /\ docs \in [Holders -> DocStates]
      /\ a.h \notin shaken => /\ OwnerFine(a.h, a) /\ CalmFor(a)
                              /\ \A q \in Clients : q # p => act[q].h # a.h
  BY <1>0, <1>2, KeyOf
<1>4. \/ b = Resting
      \/ /\ b.h = a.h /\ b.key = a.key /\ b.was = a.was /\ b.bound = a.bound
         /\ b.step = "stake" /\ b.fresh = a.fresh \ {ClaimDoc(a.key)}
      \/ /\ b.h = a.h /\ b.key = a.key /\ b.was = a.was /\ b.step \in {"count", "write"}
         /\ b.bound <=> claims[a.key].state = "bound"
         /\ claims[a.key].owner = a.h /\ b.fresh = a.fresh \cup {ClaimDoc(a.key)}
      \/ /\ b.h = a.h /\ b.key = a.key /\ b.was = a.was /\ b.bound = a.bound
         /\ b.step = "takeover" /\ ~Holds(claims[a.key].owner, a.key)
         /\ b.fresh = a.fresh \cup {ClaimDoc(a.key)}
  BY <1>1 DEF Claimed, Keeps, Goes
<1>5. Frame(p, a.h, b, {})
  BY <1>2, <1>4 DEF Frame, Holds
<1>6. ClaimKnown(b)'
  BY <1>2, <1>4, RestKnown DEF ClaimKnown, Bound, Holds
<1>7. ASSUME a.h \notin shaken' PROVE OwnerFine(a.h, b)'
  <2>1. /\ \A k \in Keys : Holds(a.h, k) => Bound(a.h, k)
        /\ \A k \in Keys : <<a.h, k>> \in answered => Holds(a.h, k)
        /\ \A k \in Keys : Bound(a.h, k) => Holds(a.h, k)
        /\ docs[a.h] = a.was /\ OwnerDoc(a.h) \in a.fresh /\ ~a.bound
    BY <1>2, <1>3, <1>7 DEF OwnerFine, Post, Pre, CalmFor
  <2>2. b # Resting => CalmFor(b)'
    <3>1. OwnerDoc(a.h) # ClaimDoc(a.key)
      BY DocsDiffer
    <3>2. b # Resting => b.h = a.h /\ b.was = a.was /\ OwnerDoc(a.h) \in b.fresh /\ b.key = a.key
                         /\ b.step \in {"stake", "count", "write", "takeover"}
      BY <1>4, <2>1, <3>1
    <3>3. b # Resting /\ b.bound => b.step \in {"count", "write"} /\ Bound(a.h, a.key) /\ Holds(a.h, a.key)
      BY <1>2, <1>4, <2>1 DEF Bound
    <3> QED BY <1>2, <2>1, <3>2, <3>3 DEF CalmFor, Pre, Post, Bound, Holds
  <2>3. b.step \notin Post
    BY <1>4, RestingKind DEF Post
  <2> QED BY <1>2, <2>1, <2>2, <2>3 DEF OwnerFine, Holds, Bound
<1> QED BY <1>0, <1>2, <1>3, <1>5, <1>6, <1>7, KeyKept DEF KeyGoal

LEMMA StakeKey ==
    ASSUME ClaimsAssumption, KeyInv, NEW p \in Clients, Stake(p)
    PROVE  KeyGoal'
<1>0. PICK a, b : a = act[p] /\ b = act'[p]
  OBVIOUS
<1>1. Staked(p, a, b)
  BY <1>0, StakeMoves DEF KeyInv, RemovalInv
<1>2. a \in Requests /\ a.step \in {"stake", "takeover"} /\ a.key \in Keys
      /\ UNCHANGED <<docs, answered, shaken>>
  BY <1>1 DEF Staked
<1>3. /\ a.h \in Holders /\ a # Resting /\ claims \in [Keys -> ClaimStates] /\ ClaimKnown(a)
      /\ a.h \notin shaken => /\ OwnerFine(a.h, a) /\ CalmFor(a)
                              /\ \A q \in Clients : q # p => act[q].h # a.h
  BY <1>0, <1>2, KeyOf
<1>4. /\ b.h = a.h /\ b.key = a.key /\ b.was = a.was /\ b.bound = a.bound
      /\ OwnerDoc(a.h) \in a.fresh => OwnerDoc(a.h) \in b.fresh
  BY <1>1 DEF Staked, Keeps, Goes
<1>5. PICK ds \in {{}, {ClaimDoc(a.key)}} :
        /\ OthersLose(p, ds)
        /\ \/ /\ ds = {ClaimDoc(a.key)} /\ b.step \in {"count", "write"}
              /\ claims' = [claims EXCEPT ![a.key] = [state |-> "pending", owner |-> a.h, old |-> FALSE]]
              /\ a.step = "stake" => claims[a.key].state = "absent"
              /\ a.step = "takeover" => ClaimDoc(a.key) \in a.fresh
           \/ claims' = claims /\ b.step = "claim"
  BY <1>1 DEF Staked
<1>6. \A x \in Holders \ shaken : ds = {ClaimDoc(a.key)} /\ claims' # claims /\ Bound(x, a.key) => ~Holds(x, a.key)
  BY <1>2, <1>3, <1>5 DEF ClaimKnown, Bound
<1>7. /\ \A k \in Keys : k # a.key => claims'[k] = claims[k]
      /\ claims' # claims => ds = {ClaimDoc(a.key)} /\ claims'[a.key].state = "pending" /\ claims'[a.key].owner = a.h
  BY <1>2, <1>3, <1>5
<1>8. Frame(p, a.h, b, ds)
  <2>1. \A x : OwnerDoc(x) \notin ds
    BY DocsDiffer
  <2>2. \A k \in Keys :
          \/ claims'[k].state = claims[k].state /\ claims'[k].owner = claims[k].owner
          \/ /\ ClaimDoc(k) \in ds /\ claims'[k].owner \in {a.h, Nobody}
             /\ \A x \in Holders \ {a.h} : x \notin shaken /\ Bound(x, k) => ~Holds(x, k)
    BY <1>6, <1>7
  <2> QED BY <1>2, <1>4, <1>5, <2>1, <2>2 DEF Frame, Holds
<1>9. ClaimKnown(b)'
  BY <1>2, <1>3, <1>4, <1>5 DEF ClaimKnown
<1>10. ASSUME a.h \notin shaken' PROVE OwnerFine(a.h, b)'
  <2>1. /\ \A k \in Keys : Holds(a.h, k) => Bound(a.h, k)
        /\ \A k \in Keys : <<a.h, k>> \in answered => Holds(a.h, k)
        /\ \A k \in Keys : Bound(a.h, k) => Holds(a.h, k)
        /\ docs[a.h] = a.was /\ OwnerDoc(a.h) \in a.fresh /\ ~a.bound
    BY <1>2, <1>3, <1>10 DEF OwnerFine, Post, Pre, CalmFor
  <2>2. b.step \in Pre /\ b.step \notin Post /\ b.step \notin {"drop", "release", "lastcount"}
    BY <1>5 DEF Pre, Post
  <2>3. CalmFor(b)'
    BY <1>2, <1>4, <2>1, <2>2 DEF CalmFor
  <2>4. \A k \in Keys : /\ Bound(a.h, k)' => Bound(a.h, k)
                        /\ Bound(a.h, k) /\ Holds(a.h, k) => Bound(a.h, k)'
    BY <1>2, <1>3, <1>6, <1>7, <1>10 DEF Bound
  <2> QED BY <1>2, <2>1, <2>2, <2>3, <2>4 DEF OwnerFine, Holds
<1> QED BY <1>0, <1>2, <1>3, <1>8, <1>9, <1>10, KeyKept DEF KeyGoal

LEMMA CountKey ==
    ASSUME ClaimsAssumption, KeyInv, NEW p \in Clients, Count(p) \/ Uncount(p)
    PROVE  KeyGoal'
<1>0. PICK a, b : a = act[p] /\ b = act'[p]
  OBVIOUS
<1>1. Counted(p, a, b)
  BY <1>0, CountMoves DEF KeyInv, RemovalInv
<1>2. a \in Requests /\ a.step \in {"count", "uncount", "lastcount"} /\ OthersLose(p, {})
      /\ UNCHANGED <<docs, claims, answered, shaken>>
  BY <1>1 DEF Counted
<1>3. /\ a.h \in Holders /\ a # Resting /\ ClaimKnown(a) /\ KindFor(a)
      /\ a.h \notin shaken => /\ OwnerFine(a.h, a) /\ CalmFor(a)
                              /\ \A q \in Clients : q # p => act[q].h # a.h
  BY <1>0, <1>2, KeyOf
<1>4. \/ b = Resting /\ a.step # "uncount"
      \/ /\ b.h = a.h /\ b.key = a.key /\ b.kind = a.kind /\ b.was = a.was /\ b.bound = a.bound /\ b.fresh = a.fresh
         /\ (a.step = "count" /\ b.step \in {"write", "drop"}) \/ (a.step = "uncount" /\ b.step = "bind")
  BY <1>1 DEF Counted, Keeps, Goes
<1>5. Frame(p, a.h, b, {})
  BY <1>2, <1>4 DEF Frame, Holds
<1>6. ClaimKnown(b)'
  <2>1. b = Resting => ClaimKnown(b)'
    BY RestKnown
  <2> QED BY <1>2, <1>3, <1>4, <2>1 DEF ClaimKnown
<1>7. ASSUME a.h \notin shaken' PROVE OwnerFine(a.h, b)'
  <2>1. OwnerFine(a.h, a) /\ CalmFor(a) /\ a.step # "lastcount"
    BY <1>2, <1>3, <1>7 DEF CalmFor
  <2>2. b # Resting => CalmFor(b)'
    BY <1>2, <1>3, <1>4, <2>1 DEF CalmFor, Pre, Post, Bound, Holds, KindFor
  <2>3. b.step \in Post <=> a.step \in Post
    BY <1>2, <1>4, <2>1, RestingKind DEF Post
  <2>4. b.step \in Post => b.was = a.was
    BY <1>4, RestingKind DEF Post
  <2> QED BY <1>2, <2>1, <2>2, <2>3, <2>4 DEF OwnerFine, Holds, Bound
<1> QED BY <1>0, <1>2, <1>3, <1>5, <1>6, <1>7, KeyKept DEF KeyGoal

\* The owner's document is written: by Store, and by a first sign-in that wins.
LEMMA WriteKey ==
    ASSUME ClaimsAssumption, KeyInv, NEW p \in Clients, NEW a \in Requests, a = act[p], NEW b, b = act'[p],
           a.step = "write", a.key \in Keys, Keeps(b, a), b.step \in {"uncount", "bind"},
           b.fresh = a.fresh \cup {OwnerDoc(a.h)},
           docs' = [docs EXCEPT ![a.h] = [state |-> "live", key |-> a.key]],
           OthersLose(p, {OwnerDoc(a.h)}), UNCHANGED <<claims, answered, shaken>>
    PROVE  KeyGoal'
<1>3. /\ a.h \in Holders /\ a # Resting /\ ClaimKnown(a) /\ docs \in [Holders -> DocStates]
      /\ a.h \notin shaken => /\ OwnerFine(a.h, a) /\ CalmFor(a)
                              /\ \A q \in Clients : q # p => act[q].h # a.h
  BY KeyOf
<1>4. b.h = a.h /\ b.key = a.key /\ b.was = a.was /\ b.bound = a.bound
  BY DEF Keeps, Goes
<1>5. /\ \A x \in Holders \ {a.h} : docs'[x] = docs[x] /\ OwnerDoc(x) \notin {OwnerDoc(a.h)}
      /\ Holds(a.h, a.key)' /\ \A k : Holds(a.h, k)' => k = a.key
  BY <1>3, DocsDiffer DEF Holds
<1>6. ASSUME a.h \notin shaken
      PROVE  /\ \A k \in Keys : Bound(a.h, k) => Holds(a.h, k) /\ a.was.key = k
             /\ CalmFor(b)'
  <2>1. docs[a.h] = a.was /\ (a.bound => Bound(a.h, a.key))
    BY <1>3, <1>6 DEF CalmFor, Pre
  <2>2. \A k \in Keys : Bound(a.h, k) => Holds(a.h, k)
    BY <1>3, <1>6 DEF OwnerFine, Post
  <2>3. CalmFor(b)'
    BY <1>4, <1>5, <2>1 DEF CalmFor, Pre, Post, Bound, Holds
  <2> QED BY <2>1, <2>2, <2>3 DEF Holds
<1>7. Frame(p, a.h, b, {OwnerDoc(a.h)})
  <2>1. a.h \notin shaken' => \A k \in Keys : Bound(a.h, k) /\ Holds(a.h, k)' => Holds(a.h, k)
    BY <1>6
  <2> QED BY <1>4, <1>5, <2>1 DEF Frame, Holds
<1>8. ClaimKnown(b)'
  BY <1>3, <1>4, DocsDiffer DEF ClaimKnown
<1>9. ASSUME a.h \notin shaken' PROVE OwnerFine(a.h, b)'
  BY <1>4, <1>6, <1>9 DEF OwnerFine, Post, Bound
<1> QED BY <1>3, <1>7, <1>8, <1>9, KeyKept DEF KeyGoal

LEMMA StoreKey ==
    ASSUME ClaimsAssumption, KeyInv, NEW p \in Clients, Store(p)
    PROVE  KeyGoal'
<1>0. PICK a, b : a = act[p] /\ b = act'[p]
  OBVIOUS
<1>1. Stored(p, a, b)
  BY <1>0, StoreMoves DEF KeyInv, RemovalInv
<1>2. /\ a \in Requests /\ a.step = "write" /\ a.key \in Keys
      /\ Keeps(b, a) /\ b.step \in {"uncount", "bind"} /\ b.fresh = a.fresh \cup {OwnerDoc(a.h)}
      /\ docs' = [docs EXCEPT ![a.h] = [state |-> "live", key |-> a.key]]
      /\ OthersLose(p, {OwnerDoc(a.h)}) /\ UNCHANGED <<claims, answered, shaken>>
  BY <1>1 DEF Stored
<1> QED BY <1>0, <1>2, WriteKey

\* A step that changes neither documents nor claims, and ends or only informs a request of
\* an owner on whom something went wrong.
LEMMA ShakenKey ==
    ASSUME ClaimsAssumption, KeyInv, NEW p \in Clients, NEW a \in Requests, a = act[p], NEW b, b = act'[p],
           a.h \in shaken', shaken' = shaken \/ shaken' = shaken \cup {a.h},
           b = Resting \/ (b.h = a.h /\ b.step \in {"drop", "lastcount"}),
           \A x \in Holders \ {a.h} : docs'[x] = docs[x],
           NEW ds, OthersLose(p, ds), ds \in {{}, {OwnerDoc(a.h)}},
           \A t \in answered' : t \in answered \/ t[1] = a.h, claims' = claims
    PROVE  KeyGoal'
<1>1. a.h \in Holders
  BY KeyOf
<1>2. Frame(p, a.h, b, ds)
  BY DocsDiffer DEF Frame
<1>3. ClaimKnown(b)'
  <2>1. CASE b = Resting
    BY <2>1, RestKnown
  <2>2. CASE b.step \in {"drop", "lastcount"}
    BY <2>2 DEF ClaimKnown
  <2> QED BY <2>1, <2>2
<1> QED BY <1>1, <1>2, <1>3, KeyKept DEF KeyGoal

LEMMA JoinKey ==
    ASSUME ClaimsAssumption, KeyInv, NEW p \in Clients, Join(p)
    PROVE  KeyGoal'
<1>0. PICK a, b : a = act[p] /\ b = act'[p]
  OBVIOUS
<1>1. Joined(p, a, b)
  BY <1>0, JoinMoves DEF KeyInv, RemovalInv
<1>2. /\ a \in Requests /\ a.step = "write" /\ a.key \in Keys /\ UNCHANGED <<claims, shaken>>
  BY <1>1 DEF Joined
<1>3. CASE OwnerDoc(a.h) \in a.fresh
  <2>1. /\ Keeps(b, a) /\ b.step = "bind" /\ b.fresh = a.fresh \cup {OwnerDoc(a.h)}
        /\ docs' = [docs EXCEPT ![a.h] = [state |-> "live", key |-> a.key]]
        /\ OthersLose(p, {OwnerDoc(a.h)}) /\ answered' = answered
    BY <1>1, <1>3 DEF Joined
  <2> QED BY <1>0, <1>2, <2>1, WriteKey
<1>4. CASE OwnerDoc(a.h) \notin a.fresh
  <2>1. /\ b = Resting \/ (b.h = a.h /\ b.step = "drop")
        /\ docs' = docs /\ OthersLose(p, {}) /\ (answered' = answered \/ Told(a))
    BY <1>1, <1>4 DEF Joined, Goes
  <2>2. a.h \in shaken
    BY <1>0, <1>2, <1>4, KeyOf DEF CalmFor, Pre
  <2>3. \A t \in answered' : t \in answered \/ t[1] = a.h
    BY <2>1 DEF Told
  <2> QED BY <1>0, <1>2, <2>1, <2>2, <2>3, ShakenKey
<1> QED BY <1>3, <1>4

LEMMA RollbackKey ==
    ASSUME ClaimsAssumption, KeyInv, NEW p \in Clients, Rollback(p)
    PROVE  KeyGoal'
<1>0. PICK a, b : a = act[p] /\ b = act'[p]
  OBVIOUS
<1>1. RolledBack(p, a, b)
  BY <1>0, RollbackMoves DEF KeyInv, RemovalInv
<1>2. /\ a \in Requests /\ shaken' = shaken \cup {a.h}
      /\ b = Resting \/ (b.h = a.h /\ b.step = "lastcount")
      /\ docs' = docs \/ docs' = [docs EXCEPT ![a.h] = a.was]
      /\ OthersLose(p, {OwnerDoc(a.h)}) /\ UNCHANGED <<claims, answered>>
  BY <1>1 DEF RolledBack, Keeps, Goes
<1>3. docs \in [Holders -> DocStates]
  BY <1>0, <1>2, KeyOf
<1>4. \A x \in Holders \ {a.h} : docs'[x] = docs[x]
  BY <1>2, <1>3
<1> QED BY <1>0, <1>2, <1>4, ShakenKey

LEMMA CutKey ==
    ASSUME ClaimsAssumption, KeyInv, NEW p \in Clients, CutShort(p)
    PROVE  KeyGoal'
<1>0. PICK a : a = act[p]
  OBVIOUS
<1>1. /\ a \in Requests /\ act'[p] = Resting /\ shaken' = shaken \cup {a.h}
      /\ OthersLose(p, {}) /\ UNCHANGED <<docs, claims, answered>>
  BY <1>0, CutMoves DEF KeyInv, RemovalInv
<1> QED BY <1>0, <1>1, ShakenKey

LEMMA RemoveKey ==
    ASSUME ClaimsAssumption, KeyInv, NEW p \in Clients, Remove(p)
    PROVE  KeyGoal'
<1>0. PICK a, b : a = act[p] /\ b = act'[p]
  OBVIOUS
<1>1. Uninvites(p, a, b)
  BY <1>0, RemoveMoves DEF KeyInv, RemovalInv
<1>2. /\ a \in Requests /\ a.step = "remove" /\ b = Resting /\ UNCHANGED <<claims, answered, shaken>>
      /\ docs' = [docs EXCEPT ![a.h] = NoDoc] \/ docs' = docs
  BY <1>1 DEF Uninvites
<1>3. /\ a.h \in Holders /\ a # Resting /\ docs \in [Holders -> DocStates] /\ a.was.state = "invited"
      /\ a.h \notin shaken => /\ OwnerFine(a.h, a) /\ CalmFor(a)
                              /\ \A q \in Clients : q # p => act[q].h # a.h
  <2>1. a.kind = "uninvite"
    BY <1>0, <1>2, KeyOf DEF KindFor
  <2> QED BY <1>0, <1>2, <2>1, KeyOf
<1>4. PICK ds \in {{}, {OwnerDoc(a.h)}} : OthersLose(p, ds)
  BY <1>1 DEF Uninvites
<1>5. /\ \A x \in Holders \ {a.h} : docs'[x] = docs[x] /\ OwnerDoc(x) \notin ds
      /\ docs'[a.h] = docs[a.h] \/ docs'[a.h] = NoDoc
  BY <1>2, <1>3, DocsDiffer
<1>6. \A k : Holds(a.h, k)' => Holds(a.h, k)
  BY <1>5 DEF Holds, NoDoc
<1>7. Frame(p, a.h, b, ds)
  <2>1. a.h \notin shaken' => \A k \in Keys : Bound(a.h, k) /\ Holds(a.h, k)' => Holds(a.h, k)
    BY <1>6
  <2> QED BY <1>2, <1>4, <1>5, <2>1 DEF Frame, Holds
<1>8. ClaimKnown(b)'
  BY <1>2, RestKnown
<1>9. ASSUME a.h \notin shaken' PROVE OwnerFine(a.h, b)'
  <2>1. docs[a.h] = a.was
    BY <1>2, <1>3, <1>9 DEF CalmFor
  <2>2. \A k : ~Holds(a.h, k)
    BY <1>3, <2>1 DEF Holds
  <2>3. \A k \in Keys : ~Bound(a.h, k) /\ <<a.h, k>> \notin answered
    BY <1>2, <1>3, <1>9, <2>2 DEF OwnerFine, Post
  <2> QED BY <1>2, <1>6, <2>2, <2>3 DEF OwnerFine, Bound
<1> QED BY <1>0, <1>2, <1>3, <1>7, <1>8, <1>9, KeyKept DEF KeyGoal

LEMMA BindKey ==
    ASSUME ClaimsAssumption, KeyInv, NEW p \in Clients, Bind(p)
    PROVE  KeyGoal'
<1>0. PICK a, b : a = act[p] /\ b = act'[p]
  OBVIOUS
<1>1. Binds(p, a, b)
  BY <1>0, BindMoves DEF KeyInv, RemovalInv
<1>2. a \in Requests /\ a.step = "bind" /\ a.key \in Keys /\ UNCHANGED <<docs, shaken>>
  BY <1>1 DEF Binds
<1>3. /\ a.h \in Holders /\ a # Resting /\ claims \in [Keys -> ClaimStates] /\ ClaimKnown(a)
      /\ a.h \notin shaken => /\ OwnerFine(a.h, a) /\ CalmFor(a)
                              /\ \A q \in Clients : q # p => act[q].h # a.h
  BY <1>0, <1>2, KeyOf
<1>4. b = Resting \/ (b.h = a.h /\ b.key = a.key /\ b.was = a.was /\ b.bound = a.bound /\ b.step \in {"release", "rollback"})
  BY <1>1 DEF Binds, Keeps, Goes
<1>5. PICK ds \in {{}, {ClaimDoc(a.key)}} :
        /\ OthersLose(p, ds)
        /\ \/ /\ ds = {ClaimDoc(a.key)} /\ ClaimDoc(a.key) \in a.fresh /\ ~a.bound
              /\ claims' = [claims EXCEPT ![a.key] = [state |-> "bound", owner |-> a.h, old |-> FALSE]]
              /\ b = Resting \/ b.step = "release"
           \/ claims' = claims /\ a.bound /\ (b = Resting \/ b.step = "release")
           \/ claims' = claims /\ b.step = "rollback"
        /\ b = Resting => ~Renamed(a) /\ Told(a)
        /\ b # Resting => answered' = answered
  <2>1. "release" # Resting.step /\ "rollback" # Resting.step
    BY RestingKind
  <2> QED BY <1>1, <2>1 DEF Binds
<1>6. /\ \A k \in Keys : k # a.key => claims'[k] = claims[k]
      /\ claims' # claims => /\ ds = {ClaimDoc(a.key)} /\ claims[a.key].owner = a.h
                             /\ claims'[a.key].state = "bound" /\ claims'[a.key].owner = a.h
  BY <1>2, <1>3, <1>5 DEF ClaimKnown
<1>7. Frame(p, a.h, b, ds)
  <2>1. \A x : OwnerDoc(x) \notin ds
    BY DocsDiffer
  <2>2. \A k \in Keys :
          \/ claims'[k].state = claims[k].state /\ claims'[k].owner = claims[k].owner
          \/ /\ ClaimDoc(k) \in ds /\ claims'[k].owner \in {a.h, Nobody}
             /\ \A x \in Holders \ {a.h} : x \notin shaken /\ Bound(x, k) => ~Holds(x, k)
    BY <1>6 DEF Bound
  <2>3. \A t \in answered' : t \in answered \/ t[1] = a.h
    BY <1>5 DEF Told
  <2> QED BY <1>2, <1>4, <1>5, <2>1, <2>2, <2>3 DEF Frame, Holds
<1>8. ClaimKnown(b)'
  <2>1. b = Resting => ClaimKnown(b)'
    BY RestKnown
  <2>2. b.step \in {"release", "rollback"} => ClaimKnown(b)'
    BY DEF ClaimKnown
  <2> QED BY <1>4, <2>1, <2>2
<1>9. ASSUME a.h \notin shaken' PROVE OwnerFine(a.h, b)'
  <2>1. /\ Holds(a.h, a.key)
        /\ a.bound => Bound(a.h, a.key)
        /\ \A k \in Keys : Bound(a.h, k) => Holds(a.h, k) \/ a.was.key = k
    BY <1>2, <1>3, <1>9 DEF CalmFor, OwnerFine, Post
  <2>2. b.step # "rollback" => Bound(a.h, a.key)'
    BY <1>2, <1>3, <1>5, <2>1, RestingKind DEF Bound
  <2>3. \A k \in Keys : Bound(a.h, k)' => Holds(a.h, k) \/ a.was.key = k
    BY <1>6, <2>1 DEF Bound
  <2>4. \A k : Holds(a.h, k) => k = a.key
    BY <2>1 DEF Holds
  <2>5. CASE b = Resting
    <3>1. \A k \in Keys : <<a.h, k>> \in answered' => k = a.key
      BY <1>5, <2>5 DEF Told
    <3>2. \A k \in Keys : a.was.key = k => k = a.key
      <4>1. a.was \in DocStates
        BY <1>2 DEF Requests
      <4>2. \A k \in Keys : a.was.key = k => a.was.state = "live"
        BY <4>1 DEF DocStates, ClaimsAssumption
      <4> QED BY <1>5, <2>5, <4>2 DEF Renamed
    <3>3. Bound(a.h, a.key)'
      BY <2>2, <2>5, RestingKind
    <3> QED BY <1>2, <2>1, <2>3, <2>4, <2>5, <3>1, <3>2, <3>3, RestingKind DEF OwnerFine, Holds, Post
  <2>6. CASE b # Resting
    <3>1. b.h = a.h /\ b.key = a.key /\ b.was = a.was /\ b.bound = a.bound /\ b.step \in {"release", "rollback"}
      BY <1>4, <2>6
    <3>2. a.bound => Bound(a.h, a.key)'
      BY <1>6, <2>1 DEF Bound
    <3>3. CalmFor(b)'
      BY <1>2, <2>1, <2>2, <3>1, <3>2 DEF CalmFor, Pre, Post, Holds
    <3> QED BY <1>2, <2>3, <3>1, <3>3 DEF OwnerFine, Holds, Post
  <2> QED BY <2>5, <2>6
<1> QED BY <1>0, <1>2, <1>3, <1>7, <1>8, <1>9, KeyKept DEF KeyGoal

LEMMA ReleaseKey ==
    ASSUME ClaimsAssumption, KeyInv, NEW p \in Clients, Release(p)
    PROVE  KeyGoal'
<1>0. PICK a, b, k0, ds : /\ a = act[p] /\ b = act'[p] /\ k0 = ReleasedKey(a)
                          /\ ds = IF Deletes(a) THEN {ClaimDoc(k0)} ELSE {}
  OBVIOUS
<1>1. Released(p, a, b)
  BY <1>0, ReleaseMoves DEF KeyInv, RemovalInv
<1>2. /\ a \in Requests /\ a.step \in {"release", "drop"} /\ k0 \in Keys /\ UNCHANGED <<docs, shaken>>
      /\ claims' = IF Deletes(a) THEN [claims EXCEPT ![k0] = NoClaim] ELSE claims
      /\ Deletes(a) => claims[k0].owner = a.h
      /\ b = Resting \/ (b.h = a.h /\ b.kind = a.kind /\ b.kind = "join" /\ b.step = "claim" /\ a.step = "drop")
      /\ IF a.step = "release" THEN b = Resting /\ Told(a) ELSE answered' = answered
      /\ OthersLose(p, ds)
  BY <1>0, <1>1 DEF Released, Deletes, Goes
<1>3. /\ a.h \in Holders /\ a # Resting /\ claims \in [Keys -> ClaimStates] /\ KindFor(a)
      /\ a.kind \in {"join", "uninvite"} /\ a.step # "drop" => a.was.state = "invited"
      /\ a.h \notin shaken => /\ OwnerFine(a.h, a) /\ CalmFor(a)
                              /\ \A q \in Clients : q # p => act[q].h # a.h
  BY <1>0, <1>2, KeyOf
<1>4. /\ \A k \in Keys : k # k0 => claims'[k] = claims[k]
      /\ claims' # claims => /\ claims[k0].owner = a.h
                             /\ claims'[k0].state = "absent" /\ claims'[k0].owner = Nobody
  BY <1>2, <1>3 DEF NoClaim
<1>5. Frame(p, a.h, b, ds)
  <2>1. \A x : OwnerDoc(x) \notin ds
    BY <1>0, DocsDiffer
  <2>2. \A k \in Keys :
          \/ claims'[k].state = claims[k].state /\ claims'[k].owner = claims[k].owner
          \/ /\ ClaimDoc(k) \in ds /\ claims'[k].owner \in {a.h, Nobody}
             /\ \A x \in Holders \ {a.h} : x \notin shaken /\ Bound(x, k) => ~Holds(x, k)
    BY <1>0, <1>2, <1>4 DEF Bound
  <2>3. \A t \in answered' : t \in answered \/ t[1] = a.h
    BY <1>2 DEF Told
  <2> QED BY <1>2, <2>1, <2>2, <2>3 DEF Frame, Holds
<1>6. ClaimKnown(b)'
  <2>1. b = Resting => ClaimKnown(b)'
    BY RestKnown
  <2>2. b.step = "claim" => ClaimKnown(b)'
    BY DEF ClaimKnown
  <2> QED BY <1>2, <2>1, <2>2
<1>7. ASSUME a.h \notin shaken' PROVE OwnerFine(a.h, b)'
  <2>0. OwnerFine(a.h, a) /\ CalmFor(a)
    BY <1>2, <1>3, <1>7
  <2>1. \A k \in Keys : Bound(a.h, k)' => Bound(a.h, k)
    BY <1>3, <1>4 DEF Bound, ClaimsAssumption
  <2>2. CASE a.step = "release"
    <3>1. /\ Holds(a.h, a.key) /\ Bound(a.h, a.key) /\ a.was.state = "live" /\ k0 = a.was.key /\ k0 # a.key
          /\ \A k \in Keys : Bound(a.h, k) => Holds(a.h, k) \/ k0 = k
      BY <1>0, <1>3, <2>0, <2>2 DEF CalmFor, OwnerFine, Post, KindFor, Renamed, ReleasedKey
    <3>2. a.kind # "join" /\ a.key \in Keys
      <4>1. a.kind # "uninvite"
        BY <1>3, <2>2 DEF KindFor
      <4> QED BY <1>3, <2>2, <3>1, <4>1 DEF KindFor
    <3>3. ~Bound(a.h, k0)'
      <4>1. CASE Deletes(a)
        BY <1>2, <1>3, <4>1 DEF Bound, NoClaim
      <4>2. CASE ~Deletes(a)
        BY <1>0, <1>2, <3>2, <4>2 DEF Bound, Deletes
      <4> QED BY <4>1, <4>2
    <3>4. Bound(a.h, a.key)' /\ \A k : Holds(a.h, k) => k = a.key
      BY <1>4, <3>1, <3>2 DEF Bound, Holds
    <3>5. \A k \in Keys : <<a.h, k>> \in answered' => k = a.key
      BY <1>2, <2>2 DEF Told
    <3>6. b = Resting
      BY <1>2, <2>2
    <3> QED BY <1>2, <2>1, <3>1, <3>3, <3>4, <3>5, <3>6 DEF OwnerFine, Holds
  <2>3. CASE a.step = "drop"
    <3>1. b = Resting /\ answered' = answered
      BY <1>2, <2>0, <2>3 DEF CalmFor
    <3>2. \A k : ~Holds(a.h, k)
      BY <2>0, <2>3 DEF CalmFor, Holds
    <3>3. \A k \in Keys : ~Bound(a.h, k) /\ <<a.h, k>> \notin answered
      BY <2>0, <2>3, <3>2 DEF OwnerFine, Post
    <3> QED BY <1>2, <2>1, <3>1, <3>2, <3>3 DEF OwnerFine, Holds
  <2> QED BY <1>2, <2>2, <2>3
<1> QED BY <1>0, <1>2, <1>3, <1>5, <1>6, <1>7, KeyKept DEF KeyGoal

\* The steps of no request.
LEMMA StillKey ==
    ASSUME ClaimsAssumption, KeyInv, NEW h, UNCHANGED <<act, answered, shaken>>,
           \A k \in Keys : claims'[k].state = claims[k].state /\ claims'[k].owner = claims[k].owner,
           \A x \in Holders : docs'[x] = docs[x] \/
               (x = h /\ docs'[h].state = "invited" /\ docs[h].state = "absent" /\ \A q \in Clients : act[q].h # h)
    PROVE  KeyGoal'
<1>0. TypeInv /\ docs \in [Holders -> DocStates]
  BY DEF KeyInv, RemovalInv, TypeInv, ClaimsTypeOK
<1>1. \A x \in Holders : \A k : Holds(x, k)' => Holds(x, k)
  BY DEF Holds
<1>2. \A x \in Holders : \A k \in Keys : Bound(x, k)' <=> Bound(x, k)
  BY DEF Bound
<1>3. ASSUME NEW x \in Holders, x \notin shaken, docs'[x] = docs[x] PROVE Fine(x)'
  <2>1. Fine(x)
    BY DEF KeyInv
  <2>2. \A k : Bound(x, k) /\ Holds(x, k) => Bound(x, k)'
    <3> SUFFICES ASSUME NEW k, Bound(x, k), Holds(x, k) PROVE Bound(x, k)'
      OBVIOUS
    <3>1. k \in Keys
      BY <1>0 DEF Holds, DocStates
    <3> QED BY <1>2, <3>1
  <2>3. ASSUME NEW a, OwnerFine(x, a), a = Resting \/ a.h = x, a.fresh = a.fresh \ {} PROVE OwnerFine(x, a)'
    <3>1. Same(a, a) /\ a.fresh = a.fresh \ {} /\ OwnerDoc(x) \notin {}
      BY <2>3 DEF Same
    <3>2. (\A k \in Keys : Bound(x, k)' => Bound(x, k)) /\ (\A k \in Keys : <<x, k>> \in answered' => <<x, k>> \in answered)
      BY <1>2
    <3> QED BY <1>3, <2>2, <2>3, <3>1, <3>2, OwnerKept
  <2>4. ASSUME NEW q \in Clients, act[q].h = x PROVE OwnerFine(x, act[q])'
    <3>1. PICK a : a = act[q]
      OBVIOUS
    <3>2. a.fresh = a.fresh \ {}
      <4>1. a \in {Resting} \cup Requests
        BY <1>0, <3>1 DEF TypeInv, ClaimsTypeOK
      <4> QED BY <4>1 DEF Resting, Requests
    <3>3. OwnerFine(x, a)'
      BY <1>3, <2>1, <2>3, <2>4, <3>1, <3>2 DEF Fine
    <3> QED BY <3>1, <3>3 DEF OwnerFine, CalmFor
  <2>5. ASSUME \A q \in Clients : act[q].h # x PROVE OwnerFine(x, Resting)'
    <3>1. Resting.fresh = Resting.fresh \ {}
      BY DEF Resting
    <3> QED BY <1>3, <2>1, <2>3, <2>5, <3>1 DEF Fine
  <2> QED BY <2>1, <2>4, <2>5 DEF Fine
<1>4. ASSUME NEW x \in Holders, x \notin shaken, docs'[x] # docs[x] PROVE Fine(x)'
  <2>1. docs'[x].state = "invited" /\ docs[x].state = "absent" /\ \A q \in Clients : act[q].h # x
    BY <1>4
  <2>2. OwnerFine(x, Resting)
    BY <1>4, <2>1 DEF KeyInv, Fine
  <2>3. (\A k : ~Holds(x, k)) /\ (\A k : ~Holds(x, k)')
    BY <2>1 DEF Holds
  <2>4. \A k \in Keys : ~Bound(x, k) /\ <<x, k>> \notin answered
    BY <2>2, <2>3, RestingKind DEF OwnerFine, Post
  <2>5. OwnerFine(x, Resting)'
    BY <1>2, <2>3, <2>4 DEF OwnerFine
  <2> QED BY <2>1, <2>5 DEF Fine
<1>5. ASSUME NEW q \in Clients PROVE ClaimKnown(act[q])'
  <2>1. PICK a : a = act[q]
    OBVIOUS
  <2>2. a.step \in {"takeover", "count", "write", "uncount", "bind"} => a.key \in Keys
    <3> SUFFICES ASSUME a.step \in {"takeover", "count", "write", "uncount", "bind"} PROVE a.key \in Keys
      OBVIOUS
    <3>1. a # Resting
      BY RestingKind
    <3> QED BY <1>0, <2>1, <3>1 DEF TypeInv, KindOK, KindFor
  <2>3. ClaimKnown(a)
    BY <2>1 DEF KeyInv
  <2>4. ClaimKnown(a)'
    <3>1. ASSUME a.step \in {"count", "write", "uncount", "bind"}, ClaimDoc(a.key) \in a.fresh
          PROVE  claims'[a.key].owner = a.h
      BY <2>2, <2>3, <3>1 DEF ClaimKnown
    <3>2. ASSUME a.step = "takeover", ClaimDoc(a.key) \in a.fresh, NEW h1 \in Holders \ shaken, Bound(h1, a.key)'
          PROVE  ~Holds(h1, a.key)'
      <4>1. ~Holds(h1, a.key)
        BY <1>2, <2>2, <2>3, <3>2 DEF ClaimKnown
      <4> QED BY <1>1, <4>1
    <3> QED BY <3>1, <3>2 DEF ClaimKnown
  <2> QED BY <2>1, <2>4 DEF ClaimKnown, Holds, Bound
<1>6. \A x \in Holders : x \in shaken => Fine(x)'
  BY DEF Fine
<1> QED BY <1>3, <1>4, <1>5, <1>6 DEF KeyGoal

LEMMA KeyStep ==
    ASSUME ClaimsAssumption, KeyInv, [ClaimsNext]_claimVars
    PROVE  KeyInv'
<1>0. RemovalInv'
  BY RemovalStep DEF KeyInv
<1>1. ASSUME NEW p \in Clients, Enter(p) \/ Claim(p) \/ Stake(p) \/ Count(p) \/ Uncount(p) \/ Store(p) \/ Join(p)
      PROVE  KeyGoal'
  BY <1>1, EnterKey, ClaimKey, StakeKey, CountKey, StoreKey, JoinKey
<1>2. ASSUME NEW p \in Clients, Bind(p) \/ Rollback(p) \/ Release(p) \/ Remove(p) \/ CutShort(p)
      PROVE  KeyGoal'
  BY <1>2, BindKey, RollbackKey, ReleaseKey, RemoveKey, CutKey
<1>3. ASSUME NEW h \in Users, Invite(h) PROVE KeyGoal'
  <2>1. /\ docs[h].state = "absent" /\ \A q \in Clients : act[q].h # h
        /\ docs' = [docs EXCEPT ![h] = [state |-> "invited", key |-> NoKey]]
        /\ UNCHANGED <<claims, act, answered, shaken>>
    BY <1>3, InviteMoves DEF KeyInv, RemovalInv
  <2>2. docs \in [Holders -> DocStates] /\ h \in Holders
    BY DEF KeyInv, RemovalInv, TypeInv, ClaimsTypeOK, Holders
  <2> QED BY <2>1, <2>2, StillKey
<1>4. ASSUME NEW k \in Keys, Ages(k) PROVE KeyGoal'
  <2>1. /\ \A l \in Keys : claims'[l].state = claims[l].state /\ claims'[l].owner = claims[l].owner
        /\ UNCHANGED <<docs, act, answered, shaken>>
    BY <1>4, AgesMoves DEF KeyInv, RemovalInv
  <2> QED BY <2>1, StillKey
<1>5. ASSUME UNCHANGED claimVars PROVE KeyGoal'
  BY <1>5, StillKey DEF claimVars
<1>6. KeyGoal'
  BY <1>1, <1>2, <1>3, <1>4, <1>5 DEF ClaimsNext
<1> QED BY <1>0, <1>6 DEF KeyInv, KeyGoal

LEMMA KeyStart == ASSUME ClaimsAssumption, ClaimsInit
                  PROVE  KeyInv
<1>1. RemovalInv
  BY TypesInit DEF ClaimsInit, RemovalInv, OperatorAlone, InviteSeen, UninvitedStays, Resting
<1>2. \A h \in Holders : Fine(h)
  <2> TAKE h \in Holders
  <2>1. \A p \in Clients : act[p].h # h
    BY RestingKind DEF ClaimsInit, ClaimsAssumption
  <2>2. \A k \in Keys : ~Bound(h, k) /\ ~Holds(h, k) /\ <<h, k>> \notin answered
    BY DEF ClaimsInit, Bound, Holds, NoDoc, NoClaim
  <2>3. OwnerFine(h, Resting)
    BY <2>2 DEF OwnerFine
  <2> QED BY <2>1, <2>3 DEF Fine
<1>3. \A p \in Clients : ClaimKnown(act[p])
  BY RestingKind DEF ClaimsInit, ClaimKnown
<1> QED BY <1>1, <1>2, <1>3 DEF KeyInv

\* Who was told that a key is theirs keeps it: as long as no request of that owner is under
\* way, the owner's document and the bound claim both say so, whoever took over which claim
\* while another request slept.  Owners on whom a request was stopped, undone or overlapped
\* by another are excepted, as in AnsweredKeepsKey; requests of all the others may be.
THEOREM ToldKeys == ClaimsSpec => []AnsweredKeepsKey
<1>1. ClaimsInit => KeyInv
  BY KeyStart, ClaimsAssumption
<1>2. KeyInv /\ [ClaimsNext]_claimVars => KeyInv'
  BY KeyStep, ClaimsAssumption
<1>3. KeyInv => AnsweredKeepsKey
  <2> SUFFICES ASSUME KeyInv, NEW t \in answered, t[1] \notin shaken, \A p \in Clients : act[p].h # t[1]
               PROVE  Holds(t[1], t[2]) /\ claims[t[2]].state = "bound" /\ claims[t[2]].owner = t[1]
    BY DEF AnsweredKeepsKey
  <2>1. t[1] \in Holders /\ t[2] \in Keys /\ t = <<t[1], t[2]>>
    BY DEF KeyInv, RemovalInv, TypeInv, ClaimsTypeOK
  <2>2. OwnerFine(t[1], Resting)
    BY <2>1 DEF KeyInv, Fine
  <2>3. Holds(t[1], t[2]) /\ Bound(t[1], t[2])
    BY <2>1, <2>2, RestingKind DEF OwnerFine, Post
  <2> QED BY <2>3 DEF Bound
<1> QED BY <1>1, <1>2, <1>3, PTL DEF ClaimsSpec
=============================================================================
