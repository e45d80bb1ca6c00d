----------------------------- MODULE CosmosClaims -----------------------------
(***************************************************************************)
(* Uniqueness across the partitions of the Cosmos store (store.py, "claims *)
(* (3.2)"): a sign-in identity is bound to one user, a course login to one *)
(* account.  No transaction spans the two documents a key needs, so a call *)
(* stakes a claim PENDING, writes the owner's document, then binds the     *)
(* claim.  Each read, conditional write and delete is a step; calls stop   *)
(* anywhere, and a claim left pending gets old and is taken over.          *)
(*                                                                         *)
(* `fresh` holds the documents a call read or wrote that nobody wrote      *)
(* since: their ETag matches.                                              *)
(***************************************************************************)
EXTENDS Integers

CONSTANTS
    Users, Accounts,    \* the owners: ids of users and of course accounts
    Identities,         \* sign-in identities (provider and subject)
    Logins,             \* course logins
    Clients,            \* web requests
    MaxAccounts,        \* max_accounts_per_course
    Joins,              \* what the requests do
    MaxTurns,           \* bound on the requests begun
    NoKey, Nobody

Holders == Users \cup Accounts
Keys    == Identities \cup Logins
KeysOf(h) == IF h \in Users THEN Identities ELSE Logins

ASSUME ClaimsAssumption ==
    /\ Users \cap Accounts = {} /\ Identities \cap Logins = {}
    /\ NoKey \notin Keys /\ Nobody \notin Holders
    /\ {MaxAccounts, MaxTurns} \subseteq Nat

VARIABLES
    docs,       \* owner -> its document: "absent", "invited" (a user not signed in yet) or "live"
    claims,     \* key -> its claim document; old: pending for longer than CLAIM_RECLAIM_AFTER
    count,      \* the course's counter of accounts
    act,        \* what each request is in the middle of
    answered,   \* history: the owners told they hold a key, with the key
    removed,    \* history: the invitations answered as withdrawn
    shaken,     \* history: the owners a request was cut short or undone on, or two overlapped on
    turns

claimVars == <<docs, claims, count, act, answered, removed, shaken, turns>>

Resting == [kind |-> "none", h |-> Nobody, key |-> NoKey, step |-> "rest", fresh |-> {}]
NoDoc   == [state |-> "absent", key |-> NoKey]
NoClaim == [state |-> "absent", owner |-> Nobody, old |-> FALSE]

OwnerDoc(h) == <<"owner", h>>
ClaimDoc(k) == <<"claim", k>>

Holds(h, k) == docs[h] = [state |-> "live", key |-> k]

\* Pending: old, and the owner did not take the key; bound: the owner took another one.
Reclaimable(k) ==
    /\ ~Holds(claims[k].owner, k)
    /\ IF claims[k].state = "pending" THEN claims[k].old ELSE docs[claims[k].owner].state # "absent"

-----------------------------------------------------------------------------
Turn(p, a) == act' = [act EXCEPT ![p] = a]
\* p wrote doc: it alone knows the new ETag.
Wrote(p, a, doc) ==
    act' = [q \in Clients |-> CASE q = p /\ a # Resting -> [a EXCEPT !.fresh = @ \cup {doc}]
                                [] q = p /\ a = Resting -> a
                                [] OTHER -> [act[q] EXCEPT !.fresh = @ \ {doc}]]
Only(docsToo) == UNCHANGED <<answered, removed, shaken, turns>> /\ UNCHANGED docsToo

Told(a) == answered' = {t \in answered : t[1] # a.h} \cup {<<a.h, a.key>>}

Acting(kind, h, k, step) ==
    [kind |-> kind, h |-> h, key |-> k, step |-> step, was |-> docs[h], bound |-> FALSE,
     mine |-> FALSE, counted |-> FALSE, made |-> FALSE, fresh |-> {OwnerDoc(h)}]

\* connect: a course login is verified and stored; operator: the first sign-in of the
\* configured operator, under a new id; join: the first sign-in of an invited person.
Enter(p) ==
    /\ act[p] = Resting /\ turns < MaxTurns /\ turns' = turns + 1
    /\ \E kind \in Joins, h \in Holders :
          /\ \/ /\ kind \in {"connect", "operator", "join"}
                /\ (kind = "connect") = (h \in Accounts)
                /\ kind = "join" => docs[h].state = "invited"
                /\ kind = "operator" => docs[h].state = "absent" /\ h \notin removed /\ \A q \in Clients : act[q].h # h
                /\ \E k \in KeysOf(h) :
                      /\ kind # "connect" => \A x \in Users : ~Holds(x, k)
                      /\ Turn(p, Acting(kind, h, k, "claim"))
             \/ /\ kind = "uninvite" /\ h \in Users /\ docs[h].state = "invited"
                /\ Turn(p, Acting(kind, h, NoKey, "remove"))
          /\ shaken' = IF \E q \in Clients : act[q].h = h THEN shaken \cup {h} ELSE shaken
    /\ UNCHANGED <<docs, claims, count, answered, removed>>

After(a) == [a EXCEPT !.step = IF a.kind = "connect" /\ a.was.state = "absent" THEN "count" ELSE "write"]

\* _acquire_claim reads the claim and, when another has it, whether that one holds the key.
Claim(p) ==
    LET a == act[p] k == act[p].key IN
    /\ a.step = "claim"
    /\ Turn(p, CASE claims[k].state = "absent" -> [a EXCEPT !.step = "stake", !.fresh = @ \ {ClaimDoc(k)}]
                 [] claims[k].owner = a.h      -> [After(a) EXCEPT !.bound = claims[k].state = "bound",
                                                                   !.fresh = @ \cup {ClaimDoc(k)}]
                 [] claims[k].owner \notin {a.h, Nobody} /\ Reclaimable(k) ->
                                                  [a EXCEPT !.step = "takeover", !.fresh = @ \cup {ClaimDoc(k)}]
                 [] OTHER -> Resting)
    /\ Only(<<docs, claims, count>>)

\* It creates the claim, or takes it over under its ETag; else it reads again.
Stake(p) ==
    LET a == act[p] k == act[p].key IN
    /\ a.step \in {"stake", "takeover"}
    /\ IF IF a.step = "stake" THEN claims[k].state = "absent" ELSE ClaimDoc(k) \in a.fresh
       THEN /\ claims' = [claims EXCEPT ![k] = [state |-> "pending", owner |-> a.h, old |-> FALSE]]
            /\ Wrote(p, [After(a) EXCEPT !.mine = TRUE], ClaimDoc(k))
       ELSE Turn(p, [a EXCEPT !.step = "claim"]) /\ UNCHANGED claims
    /\ Only(<<docs, count>>)

\* _adjust_course_count; its IfMatch loop makes each change one step.
Count(p) ==
    LET a == act[p] IN
    /\ a.step = "count"
    /\ IF count < MaxAccounts
       THEN count' = count + 1 /\ Turn(p, [a EXCEPT !.step = "write", !.counted = TRUE])
       ELSE UNCHANGED count /\ Turn(p, IF a.mine THEN [a EXCEPT !.step = "drop"] ELSE Resting)
    /\ Only(<<docs, claims>>)

Uncount(p) ==
    LET a == act[p] IN
    /\ a.step \in {"uncount", "lastcount"}
    /\ count' = IF count > 0 THEN count - 1 ELSE 0
    /\ Turn(p, IF a.step = "uncount" THEN [a EXCEPT !.step = "bind"] ELSE Resting)
    /\ Only(<<docs, claims>>)

\* The owner's document.  An account is created, or overwritten whatever became of it.
Store(p) ==
    LET a == act[p]
        made == a.was.state = "absent" /\ docs[a.h].state = "absent"
    IN
    /\ a.step = "write" /\ a.kind \in {"connect", "operator"}
    /\ docs' = [docs EXCEPT ![a.h] = [state |-> "live", key |-> a.key]]
    /\ Wrote(p, [a EXCEPT !.made = made, !.step = IF a.counted /\ ~made THEN "uncount" ELSE "bind"], OwnerDoc(a.h))
    /\ Only(<<claims, count>>)

\* Mutant: the invited user's document is written whatever became of it.
JoinAnyway(a) == TRUE
JoinMatches(a) == OwnerDoc(a.h) \in a.fresh

\* A first sign-in writes only the invitation it read; a twin sign-in may have been faster.
Join(p) ==
    LET a == act[p] IN
    /\ a.step = "write" /\ a.kind = "join"
    /\ CASE JoinMatches(a) -> /\ docs' = [docs EXCEPT ![a.h] = [state |-> "live", key |-> a.key]]
                              /\ Wrote(p, [a EXCEPT !.step = "bind"], OwnerDoc(a.h)) /\ UNCHANGED answered
         [] ~JoinMatches(a) /\ Holds(a.h, a.key) -> Turn(p, Resting) /\ Told(a) /\ UNCHANGED docs
         [] OTHER -> Turn(p, [a EXCEPT !.step = "drop", !.was = docs[a.h]]) /\ UNCHANGED <<docs, answered>>
    /\ UNCHANGED <<claims, count, removed, shaken, turns>>

\* Mutant: the claim is bound although it was taken over.
BindAnyway(a) == TRUE
BindMatches(a) == a.bound \/ ClaimDoc(a.key) \in a.fresh

Renamed(a) == a.was.state = "live" /\ a.was.key # a.key

Bind(p) ==
    LET a == act[p] k == act[p].key IN
    /\ a.step = "bind"
    /\ IF BindMatches(a)
       THEN /\ claims' = IF a.bound THEN claims ELSE [claims EXCEPT ![k] = [state |-> "bound", owner |-> a.h, old |-> FALSE]]
            /\ LET next == IF Renamed(a) THEN [a EXCEPT !.step = "release"] ELSE Resting
               IN  IF a.bound THEN Turn(p, next) ELSE Wrote(p, next, ClaimDoc(k))
            /\ IF Renamed(a) THEN UNCHANGED answered ELSE Told(a)
       ELSE Turn(p, [a EXCEPT !.step = "rollback"]) /\ UNCHANGED <<claims, answered>>
    /\ UNCHANGED <<docs, count, removed, shaken, turns>>

\* The claim was rewritten meanwhile: the document goes back to what it was.  Only a first
\* sign-in looks whether somebody else wrote it since.
Rollback(p) ==
    LET a == act[p] IN
    /\ a.step = "rollback"
    /\ docs' = IF a.kind = "join" /\ OwnerDoc(a.h) \notin a.fresh THEN docs ELSE [docs EXCEPT ![a.h] = a.was]
    /\ Wrote(p, IF a.counted /\ a.made THEN [a EXCEPT !.step = "lastcount"] ELSE Resting, OwnerDoc(a.h))
    /\ shaken' = shaken \cup {a.h}
    /\ UNCHANGED <<claims, count, answered, removed, turns>>

\* _release_claim: of the key left behind, of a refused connect, or of a lost first sign-in
\* (then only while pending; it starts over when the invitation still stands).
Release(p) ==
    LET a == act[p]
        k == IF a.step = "release" THEN a.was.key ELSE a.key
        next == IF a.kind = "join" /\ a.was.state = "invited" /\ docs[a.h] = a.was
                THEN Acting("join", a.h, a.key, "claim") ELSE Resting
    IN
    /\ a.step \in {"release", "drop"}
    /\ IF claims[k].owner = a.h /\ (a.kind = "join" => claims[k].state = "pending")
       THEN claims' = [claims EXCEPT ![k] = NoClaim] /\ Wrote(p, next, ClaimDoc(k))
       ELSE Turn(p, next) /\ UNCHANGED claims
    /\ IF a.step = "release" THEN Told(a) ELSE UNCHANGED answered
    /\ UNCHANGED <<docs, count, removed, shaken, turns>>

\* delete_invited_user, under the ETag of the invitation it read.
Remove(p) ==
    LET a == act[p] IN
    /\ a.step = "remove"
    /\ IF OwnerDoc(a.h) \in a.fresh
       THEN docs' = [docs EXCEPT ![a.h] = NoDoc] /\ removed' = removed \cup {a.h} /\ Wrote(p, Resting, OwnerDoc(a.h))
       ELSE Turn(p, Resting) /\ UNCHANGED <<docs, removed>>
    /\ UNCHANGED <<claims, count, answered, shaken, turns>>

Ages(k) ==
    /\ claims[k].state = "pending" /\ ~claims[k].old
    /\ claims' = [claims EXCEPT ![k].old = TRUE]
    /\ Only(<<docs, count, act>>)

\* An administrator invites somebody: upsert_user of a new id without an identity.
Invite(h) ==
    /\ docs[h].state = "absent" /\ h \notin removed /\ \A p \in Clients : act[p].h # h
    /\ docs' = [docs EXCEPT ![h].state = "invited"]
    /\ Only(<<claims, count, act>>)

\* The web process dies or the store stays unreachable.
CutShort(p) ==
    /\ act[p] # Resting /\ Turn(p, Resting) /\ shaken' = shaken \cup {act[p].h}
    /\ UNCHANGED <<docs, claims, count, answered, removed, turns>>

ClaimsInit ==
    /\ docs = [h \in Holders |-> NoDoc] /\ claims = [k \in Keys |-> NoClaim] /\ count = 0
    /\ act = [p \in Clients |-> Resting]
    /\ answered = {} /\ removed = {} /\ shaken = {} /\ turns = 0

ClaimsNext ==
    \/ \E p \in Clients : Enter(p) \/ Claim(p) \/ Stake(p) \/ Count(p) \/ Uncount(p) \/ Store(p) \/ Join(p)
    \/ \E p \in Clients : Bind(p) \/ Rollback(p) \/ Release(p) \/ Remove(p) \/ CutShort(p)
    \/ \E h \in Users : Invite(h)
    \/ \E k \in Keys : Ages(k)

ClaimsSpec == ClaimsInit /\ [][ClaimsNext]_claimVars

-----------------------------------------------------------------------------
(* Properties                                                              *)

\* Who was told that a key is theirs keeps it: the document and the bound claim both say so,
\* so nobody else is told the same, whoever took over which claim while another slept.  Not
\* so once a request of the owner was stopped, was undone, or overlapped with another: the
\* second of two connects finds its own claim pending, the first binds it, and the second
\* takes that for a takeover and deletes the account (store.py 25).
AnsweredKeepsKey ==
    \A t \in answered :
        \/ t[1] \in shaken
        \/ \E p \in Clients : act[p].h = t[1]
        \/ Holds(t[1], t[2]) /\ claims[t[2]].state = "bound" /\ claims[t[2]].owner = t[1]

\* An invitation answered as withdrawn stays withdrawn: no first sign-in that read it before,
\* and none that puts its document back, brings the user into being (delete_invited_user).
UninvitedStays == \A h \in removed : docs[h].state = "absent"
=============================================================================
