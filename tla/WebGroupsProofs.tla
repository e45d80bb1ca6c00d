--------------------------- MODULE WebGroupsProofs ---------------------------
(* Theorems about the groups of options (WebGroups) for any number of        *)
(* courses, groups, tabs and requests, whatever the job, the watcher, the    *)
(* tick and the clock do between two store calls of a request.               *)
EXTENDS WebGroups, TLAPS, WellFoundedInduction

-----------------------------------------------------------------------------
(* Types.                                                                  *)

Statuses == {"absent", "pending", "skipped", "booked", "superseded", "withdrawn"}
ItemStates == [status : Statuses, from : {"none"} \cup LiveStatuses]

SaveKinds == {"one_offs", "rules"}
MoveKinds == {"skip", "unskip", "withdraw"}
SwitchKinds == {"on", "off"}
AwayKinds == {"skip", "withdraw", "off"}

Requests ==
    [kind : SaveKinds \cup MoveKinds \cup SwitchKinds, group : Groups, at : GroupCourses,
     step : {"first", "list", "rest", "save", "rows"},
     todo : SUBSET GroupCourses, saved : SUBSET GroupCourses, failed : SUBSET GroupCourses,
     was : {"none"} \cup Statuses, fresh : SUBSET GroupCourses, wanted : SUBSET GroupCourses, shaken : BOOLEAN]

GroupsTypeOK ==
    /\ sort \in [Groups -> {"none"} \cup SaveKinds]
    /\ item \in [Groups -> [GroupCourses -> ItemStates]]
    /\ rule \in [Groups -> [GroupCourses -> {"none", "on", "off"}]]
    /\ request \in [Tabs -> {Waiting} \cup Requests]
    /\ said \in [Groups -> [told : {"none", "nothing", "saved"}, failed : SUBSET GroupCourses]]
    /\ settled \subseteq AwayKinds \X Groups \X GroupCourses

-----------------------------------------------------------------------------
(* What a request in flight has done so far.                               *)

\* Something of group g is stored at course c.
Kept(g, c) == rule[g][c] # "none" \/ Status(g, c) # "absent"

\* What a "skip", a "withdraw" or an "off" leaves at a course, and what may come of it.
PutAway(kind, g, c) ==
    CASE kind = "off"      -> rule[g][c] # "on"
      [] kind = "withdraw" -> sort[g] = "one_offs" /\ Status(g, c) = "withdrawn"
      [] kind = "skip"     -> \/ Status(g, c) = "skipped"
                              \/ Status(g, c) \in {"superseded", "withdrawn"} /\ item[g][c].from = "skipped"

\* A save knows what it stored, and nobody else stores anything of its group.
SaveSound(r) ==
    /\ sort[r.group] = r.kind /\ said[r.group].told = "none"
    /\ r.step \in {"save", "rows"}
    /\ r.step = "rows" => r.kind = "rules" /\ r.todo # {}
    /\ GroupCourses \subseteq r.todo \cup r.saved \cup r.failed
    /\ \A c \in GroupCourses : c \in r.saved <=> Kept(r.group, c)

\* What else was asked is asked of what is stored.
RestSound(r) ==
    /\ r.step \in {"first", "list", "rest"}
    /\ r.step = "first" => r.todo = {} /\ r.wanted = {r.at}
    /\ r.step = "list" => r.todo = {}
    /\ r.kind = "withdraw" => sort[r.group] = "one_offs"
    /\ r.kind \in SwitchKinds => /\ rule[r.group][r.at] # "none"
                                 /\ \A c \in r.todo : rule[r.group][c] # "none"

\* A request alone has put away what it wants to, but for what is left and what refused.
AwaySound(r) ==
    r.kind \in AwayKinds /\ ~r.shaken /\ r.step \in {"list", "rest"}
        => \A c \in r.wanted \ (r.todo \cup r.failed) : PutAway(r.kind, r.group, c)

\* A request that brings back what an earlier one put away.
Brings(r, g) == r.kind \in {"one_offs", "rules", "unskip", "on"} /\ r.group = g
Saves(r, g) == r.kind \in SaveKinds /\ r.group = g

StoredOK ==
    \A g \in Groups, c \in GroupCourses : /\ rule[g][c] # "none" => sort[g] = "rules"
                                          /\ Status(g, c) # "absent" => sort[g] # "none"
SaidOK == \A g \in Groups : said[g].told # "none" => sort[g] # "none"
AskedOK == \A t \in Tabs : request[t].kind # "none" => sort[request[t].group] # "none"
SavesOK == \A t \in Tabs : request[t].kind \in SaveKinds => SaveSound(request[t])
SaveAlone == \A t, u \in Tabs, g \in Groups : t # u /\ Saves(request[t], g) => ~Saves(request[u], g)
RestOK == \A t \in Tabs : request[t].kind \in MoveKinds \cup SwitchKinds => RestSound(request[t])
AwayOK == \A t \in Tabs : AwaySound(request[t])
ShakenOK == \A t, u \in Tabs : t # u /\ request[t].kind # "none" /\ request[u].kind # "none" => request[t].shaken
SettledOK ==
    \A x \in settled : /\ PutAway(x[1], x[2], x[3]) /\ sort[x[2]] # "none"
                       /\ \A t \in Tabs : ~Brings(request[t], x[2])
OutcomeOK ==
    \A g \in Groups : /\ said[g].told = "nothing" => \A c \in GroupCourses : ~Kept(g, c)
                      /\ said[g].told = "saved" => /\ \E c \in GroupCourses : Kept(g, c)
                                                   /\ \A c \in GroupCourses : ~Kept(g, c) => c \in said[g].failed

GroupInv ==
    /\ GroupsTypeOK /\ StoredOK /\ SaidOK /\ AskedOK /\ SavesOK /\ SaveAlone /\ RestOK
    /\ AwayOK /\ ShakenOK /\ SettledOK /\ OutcomeOK
-----------------------------------------------------------------------------
(* What a step does to the rows and the rules of a group at a course.      *)

Grows(g, c) == Kept(g, c) => Kept(g, c)'
Listed(g, c) == rule[g][c] # "none" => rule'[g][c] # "none"
Bare(g, c) == ~Kept(g, c) => ~Kept(g, c)'
Calm(g, c) == \A k \in AwayKinds : PutAway(k, g, c) => PutAway(k, g, c)'
StoredHere(g, c) ==
    /\ rule'[g][c] # "none" => sort'[g] = "rules"
    /\ item'[g][c].status # "absent" => sort'[g] # "none"

\* A step of tab t's request at group g and course c; a step of nobody's request.
Fine(t, g, c) ==
    /\ Grows(g, c) /\ Listed(g, c) /\ StoredHere(g, c)
    /\ ~Saves(request[t], g) => Bare(g, c)
    /\ ~Brings(request[t], g) => Calm(g, c)
Harmless(g, c) == Grows(g, c) /\ Listed(g, c) /\ StoredHere(g, c) /\ Bare(g, c) /\ Calm(g, c)

RowsTyped ==
    /\ item' \in [Groups -> [GroupCourses -> ItemStates]]
    /\ rule' \in [Groups -> [GroupCourses -> {"none", "on", "off"}]]

World(t) == RowsTyped /\ \A g \in Groups, c \in GroupCourses : Fine(t, g, c)
Nature == RowsTyped /\ \A g \in Groups, c \in GroupCourses : Harmless(g, c)

\* The same request, but for the versions it holds.
SameAsked(b, a) ==
    /\ b \in {Waiting} \cup Requests /\ (b = Waiting <=> a = Waiting)
    /\ b.kind = a.kind
    /\ a # Waiting => /\ b.group = a.group /\ b.at = a.at /\ b.step = a.step /\ b.todo = a.todo
                      /\ b.saved = a.saved /\ b.failed = a.failed /\ b.wanted = a.wanted /\ b.shaken = a.shaken
OthersSame(t) == \A u \in Tabs : u # t => SameAsked(request'[u], request[u])

\* What tab t's own request is after a step of it.
Own(t) ==
    LET r == request[t] IN
    \/ request'[t] = Waiting
    \/ /\ request'[t] \in Requests
       /\ request'[t].kind = r.kind /\ request'[t].group = r.group /\ request'[t].shaken = r.shaken
       /\ r.kind \in SaveKinds => SaveSound(request[t])'
       /\ r.kind \in MoveKinds \cup SwitchKinds => RestSound(request[t])' /\ AwaySound(request[t])'

\* The best ranked of some courses is one of them.
LEMMA MinIn == ASSUME GroupsAssumption, NEW S \in SUBSET GroupCourses, S # {}
               PROVE  Min(S) \in S
<1> DEFINE Less == OpToRel(<, Nat)
<1>1. S \subseteq Nat  BY DEF GroupsAssumption, GroupCourses
<1>2. \E x \in S : \A y \in S : <<y, x>> \notin Less  BY <1>1, NatLessThanWellFounded, WFMin
<1>3. ASSUME NEW x \in S, NEW y \in S, <<y, x>> \notin Less PROVE x =< y
  <2>1. x \in Nat /\ y \in Nat /\ ~ (y < x)  BY <1>1, <1>3 DEF OpToRel
  <2> QED  BY <2>1
<1> HIDE DEF Less
<1>4. \E x \in S : \A y \in S : x =< y  BY <1>2, <1>3
<1> QED  BY <1>4 DEF Min

LEMMA KindsOf == ASSUME NEW r \in {Waiting} \cup Requests
                 PROVE  /\ r.kind = "none" <=> r = Waiting
                        /\ r # Waiting => r \in Requests
                        /\ r.kind # "none" => r \in Requests
BY DEF Waiting, Requests, SaveKinds, MoveKinds, SwitchKinds

LEMMA SameIsSame == ASSUME NEW a \in {Waiting} \cup Requests PROVE SameAsked(a, a)
BY DEF SameAsked

-----------------------------------------------------------------------------
(* Whoever steps, the other tabs' requests and what was answered stand.    *)

LEMMA OtherSaves ==
  ASSUME NEW t \in Tabs, GroupInv, World(t), OthersSame(t), sort' = sort, said' = said,
         NEW u \in Tabs, u # t, request'[u].kind \in SaveKinds
  PROVE  SaveSound(request[u])'
<1> DEFINE r == request[u]
<1>1. r \in Requests /\ r.kind \in SaveKinds /\ SaveSound(r)
  BY KindsOf DEF GroupInv, GroupsTypeOK, OthersSame, SameAsked, SavesOK, SaveKinds, Waiting
<1>2. SameAsked(request'[u], r) /\ r # Waiting  BY <1>1 DEF OthersSame, Requests, Waiting, SaveKinds
<1>3. r.group \in Groups /\ ~Saves(request[t], r.group)
  BY <1>1 DEF Requests, GroupInv, SaveAlone, Saves
<1>4. \A c \in GroupCourses : Grows(r.group, c) /\ Bare(r.group, c)  BY <1>3 DEF World, Fine
<1>5. \A c \in GroupCourses : Kept(r.group, c)' <=> Kept(r.group, c)  BY <1>4 DEF Grows, Bare
<1> QED  BY <1>1, <1>2, <1>5 DEF SaveSound, SameAsked, Kept, Status

LEMMA OtherRests ==
  ASSUME NEW t \in Tabs, GroupInv, World(t), OthersSame(t), sort' = sort,
         NEW u \in Tabs, u # t, request'[u].kind \in MoveKinds \cup SwitchKinds
  PROVE  RestSound(request[u])'
<1> DEFINE r == request[u]
<1>1. r \in Requests /\ r.kind \in MoveKinds \cup SwitchKinds /\ RestSound(r)
  BY KindsOf DEF GroupInv, GroupsTypeOK, OthersSame, SameAsked, RestOK, MoveKinds, SwitchKinds, Waiting
<1>2. SameAsked(request'[u], r) /\ r # Waiting  BY <1>1 DEF OthersSame, Requests, Waiting, MoveKinds, SwitchKinds
<1>3. r.group \in Groups /\ r.at \in GroupCourses /\ r.todo \subseteq GroupCourses  BY <1>1 DEF Requests
<1>4. \A c \in GroupCourses : Listed(r.group, c)  BY <1>3 DEF World, Fine
<1> QED  BY <1>1, <1>2, <1>3, <1>4 DEF RestSound, SameAsked, Listed

LEMMA OneStep ==
  ASSUME NEW t \in Tabs, GroupInv, World(t), OthersSame(t), Own(t), request[t].kind # "none",
         request' = [u \in Tabs |-> request'[u]], sort' = sort, said' = said, settled' = settled
  PROVE  GroupInv'
<1>0. request[t] \in Requests  BY KindsOf DEF GroupInv, GroupsTypeOK
<1>o. \/ request'[t] = Waiting
      \/ /\ request'[t] \in Requests /\ request'[t].kind = request[t].kind
         /\ request'[t].group = request[t].group /\ request'[t].shaken = request[t].shaken
  BY DEF Own
<1>s. \A u \in Tabs : u # t => SameAsked(request'[u], request[u])  BY DEF OthersSame
<1>k. \A u \in Tabs : request[u] \in {Waiting} \cup Requests  BY DEF GroupInv, GroupsTypeOK
<1>1. GroupsTypeOK'
  <2>1. \A u \in Tabs : request'[u] \in {Waiting} \cup Requests  BY <1>o, <1>s DEF SameAsked
  <2>2. request' \in [Tabs -> {Waiting} \cup Requests]  BY <2>1
  <2> QED  BY <2>2 DEF GroupInv, GroupsTypeOK, World, RowsTyped
<1>2. StoredOK'  BY DEF World, Fine, StoredHere, StoredOK, Status
<1>3. SaidOK'  BY DEF GroupInv, SaidOK
<1>b. \A u \in Tabs : /\ request'[u].kind # "none" => /\ request[u].kind = request'[u].kind
                                                     /\ request[u].group = request'[u].group
                                                     /\ request[u].shaken = request'[u].shaken
  BY <1>o, <1>s, <1>k, KindsOf DEF SameAsked, Waiting
<1>4. AskedOK'  BY <1>b DEF GroupInv, AskedOK
<1>5. SavesOK'
  <2> SUFFICES ASSUME NEW u \in Tabs, request'[u].kind \in SaveKinds PROVE SaveSound(request[u])'  BY DEF SavesOK
  <2>1. CASE u = t
    <3>1. request'[t] # Waiting  BY <2>1 DEF Waiting, SaveKinds
    <3> QED  BY <2>1, <3>1 DEF Own
  <2>2. CASE u # t  BY <2>2, OtherSaves
  <2> QED  BY <2>1, <2>2
<1>6. SaveAlone'
  <2> SUFFICES ASSUME NEW u \in Tabs, NEW v \in Tabs, NEW g \in Groups, u # v, Saves(request'[u], g), Saves(request'[v], g)
               PROVE  FALSE
    BY DEF SaveAlone
  <2>1. Saves(request[u], g) /\ Saves(request[v], g)  BY <1>b DEF Saves, SaveKinds
  <2> QED  BY <2>1 DEF GroupInv, SaveAlone
<1>7. RestOK'
  <2> SUFFICES ASSUME NEW u \in Tabs, request'[u].kind \in MoveKinds \cup SwitchKinds PROVE RestSound(request[u])'  BY DEF RestOK
  <2>1. CASE u = t
    <3>1. request'[t] # Waiting  BY <2>1 DEF Waiting, MoveKinds, SwitchKinds
    <3>2. request[t].kind \in MoveKinds \cup SwitchKinds  BY <3>1, <2>1, <1>o
    <3> QED  BY <2>1, <3>1, <3>2 DEF Own
  <2>2. CASE u # t  BY <2>2, OtherRests
  <2> QED  BY <2>1, <2>2
<1>8. AwayOK'
  <2> SUFFICES ASSUME NEW u \in Tabs PROVE AwaySound(request[u])'  BY DEF AwayOK
  <2>1. CASE u = t /\ request'[t] = Waiting  BY <2>1 DEF AwaySound, AwayKinds, Waiting
  <2>2. CASE u = t /\ request'[t] # Waiting
    <3>1. CASE request[t].kind \in MoveKinds \cup SwitchKinds  BY <2>2, <3>1 DEF Own
    <3>2. CASE request[t].kind \notin MoveKinds \cup SwitchKinds
      <4>1. request'[t].kind \notin AwayKinds  BY <3>2, <2>2, <1>o DEF AwayKinds, MoveKinds, SwitchKinds
      <4> QED  BY <4>1, <2>2 DEF AwaySound
    <3> QED  BY <3>1, <3>2
  <2>3. CASE u # t
    <3>1. CASE request'[u].kind = "none"  BY <3>1 DEF AwaySound, AwayKinds
    <3>2. CASE request'[u].kind # "none"
      <4>1. request[u].kind # "none" /\ request'[u].shaken = request[u].shaken  BY <3>2, <1>b
      <4>2. request[u].shaken  BY <2>3, <4>1 DEF GroupInv, ShakenOK
      <4> QED  BY <4>1, <4>2 DEF AwaySound
    <3> QED  BY <3>1, <3>2
  <2> QED  BY <2>1, <2>2, <2>3
<1>9. ShakenOK'  BY <1>b DEF GroupInv, ShakenOK
<1>10. SettledOK'
  <2> SUFFICES ASSUME NEW x \in settled
               PROVE  /\ PutAway(x[1], x[2], x[3])' /\ sort[x[2]] # "none"
                      /\ \A u \in Tabs : ~Brings(request'[u], x[2])
    BY DEF SettledOK
  <2>1. x[1] \in AwayKinds /\ x[2] \in Groups /\ x[3] \in GroupCourses  BY DEF GroupInv, GroupsTypeOK
  <2>2. PutAway(x[1], x[2], x[3]) /\ sort[x[2]] # "none" /\ \A u \in Tabs : ~Brings(request[u], x[2])
    BY DEF GroupInv, SettledOK
  <2>3. Calm(x[2], x[3])  BY <2>1, <2>2 DEF World, Fine
  <2>4. PutAway(x[1], x[2], x[3])'  BY <2>1, <2>2, <2>3 DEF Calm
  <2>5. \A u \in Tabs : ~Brings(request'[u], x[2])  BY <2>2, <1>b DEF Brings
  <2> QED  BY <2>2, <2>4, <2>5
<1>11. OutcomeOK'
  <2> SUFFICES ASSUME NEW g \in Groups
               PROVE  /\ said[g].told = "nothing" => \A c \in GroupCourses : ~Kept(g, c)'
                      /\ said[g].told = "saved" => /\ \E c \in GroupCourses : Kept(g, c)'
                                                   /\ \A c \in GroupCourses : ~Kept(g, c)' => c \in said[g].failed
    BY DEF OutcomeOK
  <2>1. \A c \in GroupCourses : Kept(g, c) => Kept(g, c)'  BY DEF World, Fine, Grows
  <2>2. ASSUME said[g].told # "none" PROVE \A c \in GroupCourses : Bare(g, c)
    <3>1. ~Saves(request[t], g)  BY <2>2 DEF GroupInv, SavesOK, SaveSound, Saves
    <3> QED  BY <3>1 DEF World, Fine
  <2>3. said[g].told = "nothing" => \A c \in GroupCourses : ~Kept(g, c)'
    BY <2>2 DEF GroupInv, OutcomeOK, Bare
  <2> QED  BY <2>1, <2>3 DEF GroupInv, OutcomeOK
<1> QED  BY <1>1, <1>2, <1>3, <1>4, <1>5, <1>6, <1>7, <1>8, <1>9, <1>10, <1>11 DEF GroupInv
-----------------------------------------------------------------------------
(* The store calls.                                                        *)

LEMMA Untouched ==
  ASSUME GroupInv, NEW g \in Groups, NEW c \in GroupCourses,
         sort' = sort, item'[g][c] = item[g][c], rule'[g][c] = rule[g][c]
  PROVE  Harmless(g, c)
BY DEF Harmless, Grows, Listed, Bare, Calm, StoredHere, GroupInv, StoredOK, Kept, Status, PutAway

LEMMA HarmlessIsFine ==
  ASSUME NEW g, NEW c, Harmless(g, c) PROVE \A t \in Tabs : Fine(t, g, c)
BY DEF Harmless, Fine

LEMMA NothingStored ==
  ASSUME GroupInv, sort' = sort, item' = item, rule' = rule
  PROVE  Nature /\ \A t \in Tabs : World(t)
<1>1. RowsTyped  BY DEF RowsTyped, GroupInv, GroupsTypeOK
<1>2. \A g \in Groups, c \in GroupCourses : Harmless(g, c)  BY Untouched
<1> QED  BY <1>1, <1>2, HarmlessIsFine DEF Nature, World

LEMMA PutOne ==
  ASSUME GroupInv, NEW g \in Groups, NEW c \in GroupCourses, NEW row \in ItemStates, Put(g, c, row)
  PROVE  /\ item' \in [Groups -> [GroupCourses -> ItemStates]]
         /\ item'[g][c] = row
         /\ \A h \in Groups, d \in GroupCourses : h # g \/ d # c => item'[h][d] = item[h][d]
BY DEF GroupInv, GroupsTypeOK, Put

LEMMA RowIs ==
  ASSUME GroupInv, NEW g \in Groups, NEW c \in GroupCourses
  PROVE  /\ item[g][c] \in ItemStates /\ item[g][c].status \in Statuses
         /\ item[g][c].from \in {"none"} \cup LiveStatuses
         /\ rule[g][c] \in {"none", "on", "off"} /\ sort[g] \in {"none"} \cup SaveKinds
BY DEF GroupInv, GroupsTypeOK, ItemStates

LEMMA CreateWorld ==
  ASSUME GroupInv, NEW t \in Tabs, NEW g \in Groups, NEW c \in GroupCourses, CanCreate(c), Create(g, c),
         request[t].kind = "one_offs", request[t].group = g, sort' = sort, rule' = rule
  PROVE  World(t) /\ Kept(g, c)' /\ \A d \in GroupCourses : d # c => (Kept(g, d)' <=> Kept(g, d))
<1>1. sort[g] = "one_offs"  BY DEF GroupInv, SavesOK, SaveSound, SaveKinds
<1>2. RowsTyped
  BY DEF RowsTyped, GroupInv, GroupsTypeOK, Create, ItemStates, Statuses, LiveStatuses, Absent, Holders, Status
<1>3. \A h \in Groups, d \in GroupCourses :
        item'[h][d] = IF d # c THEN item[h][d] ELSE IF h = g THEN [Absent EXCEPT !.status = "pending"]
                      ELSE IF h \in Holders(c) THEN [status |-> "superseded", from |-> item[h][d].status] ELSE item[h][d]
  BY DEF GroupInv, GroupsTypeOK, Create
<1>4. ASSUME NEW h \in Groups, NEW d \in GroupCourses PROVE Fine(t, h, d)
  <2>1. CASE d # c
    <3>1. Harmless(h, d)  BY <2>1, <1>3, Untouched
    <3> QED  BY <3>1, HarmlessIsFine
  <2>2. CASE d = c /\ h = g
    <3>1. item'[h][d].status = "pending"  BY <2>2, <1>3 DEF Absent
    <3>2. Brings(request[t], h) /\ Saves(request[t], h)  BY <2>2 DEF Brings, Saves, SaveKinds
    <3> QED  BY <2>2, <3>1, <3>2, <1>1, RowIs
         DEF Fine, Grows, Listed, StoredHere, Kept, Status, GroupInv, StoredOK
  <2>3. CASE d = c /\ h # g /\ h \notin Holders(c)
    <3>1. Harmless(h, d)  BY <2>3, <1>3, Untouched
    <3> QED  BY <3>1, HarmlessIsFine
  <2>4. CASE d = c /\ h # g /\ h \in Holders(c)
    <3>1. item'[h][d] = [status |-> "superseded", from |-> item[h][d].status]  BY <2>4, <1>3
    <3>2. item'[h][d].status = "superseded" /\ item'[h][d].from = item[h][d].status  BY <3>1
    <3>3. item[h][d].status \in LiveStatuses  BY <2>4 DEF Holders, Status
    <3>4. item[h][d].status # "absent" /\ item[h][d].status # "withdrawn" /\ item[h][d].status # "superseded"
      BY <3>3 DEF LiveStatuses
    <3>5. Harmless(h, d)
      BY <3>2, <3>4 DEF Harmless, Grows, Listed, Bare, Calm, StoredHere, Kept, Status, PutAway, GroupInv, StoredOK, AwayKinds
    <3> QED  BY <3>5, HarmlessIsFine
  <2> QED  BY <2>1, <2>2, <2>3, <2>4
<1>5. Kept(g, c)'  BY <1>3 DEF Kept, Status, Absent
<1>6. \A d \in GroupCourses : d # c => item'[g][d] = item[g][d]  BY <1>3
<1>7. \A d \in GroupCourses : d # c => (Kept(g, d)' <=> Kept(g, d))  BY <1>6 DEF Kept, Status
<1> QED  BY <1>2, <1>4, <1>5, <1>7 DEF World

\* A row of a rule is made, brought back or withdrawn as the rule is.
LEMMA MaterializedIs ==
  ASSUME GroupInv, NEW g \in Groups, NEW c \in GroupCourses
  PROVE  /\ Materialized(g, c) \in ItemStates
         /\ Status(g, c) # "absent" => Materialized(g, c).status # "absent"
         /\ Status(g, c) = "skipped" => Materialized(g, c) = item[g][c]
         /\ Status(g, c) = "superseded" => Materialized(g, c) = item[g][c]
         /\ Status(g, c) = "withdrawn" /\ item[g][c].from = "skipped"
              => Materialized(g, c) = item[g][c] \/ Materialized(g, c).status = "skipped"
<1>1. [Absent EXCEPT !.status = IF Holders(c) = {} THEN "pending" ELSE "superseded"] \in ItemStates
  BY DEF Absent, ItemStates, Statuses
<1>2. /\ Back(item[g][c]) \in ItemStates
      /\ Back(item[g][c]).status = IF item[g][c].from = "none" THEN "pending" ELSE item[g][c].from
      /\ Back(item[g][c]).status # "absent"
  BY RowIs DEF Back, ItemStates, Statuses, LiveStatuses
<1> QED  BY <1>1, <1>2, RowIs DEF Materialized, Status

LEMMA DroppedIs ==
  ASSUME GroupInv, NEW g \in Groups, NEW c \in GroupCourses
  PROVE  /\ Dropped(g, c) \in ItemStates /\ (Dropped(g, c).status = "absent" <=> Status(g, c) = "absent")
         /\ Dropped(g, c).from = item[g][c].from
         /\ Dropped(g, c) = item[g][c] \/ (Status(g, c) \in {"superseded", "pending"} /\ Dropped(g, c).status = "withdrawn")
BY RowIs DEF Dropped, Status, ItemStates, Statuses



LEMMA RuleRowTurns ==
  ASSUME GroupInv, NEW g \in Groups, NEW c \in GroupCourses, sort' = sort, rule[g][c] # "none",
         rule'[g][c] \in {"on", "off"},
         item'[g][c] = Materialized(g, c) \/ item'[g][c] = Dropped(g, c) \/ item'[g][c] = item[g][c]
  PROVE  /\ Grows(g, c) /\ Listed(g, c) /\ StoredHere(g, c) /\ Bare(g, c)
         /\ (rule'[g][c] = "on" => rule[g][c] = "on") => Calm(g, c)
<1>1. sort[g] = "rules" /\ Kept(g, c)  BY DEF GroupInv, StoredOK, Kept
<1>2. Grows(g, c) /\ Listed(g, c) /\ StoredHere(g, c) /\ Bare(g, c)
  BY <1>1 DEF Grows, Listed, StoredHere, Bare, Kept
<1>3. ASSUME PutAway("skip", g, c) PROVE PutAway("skip", g, c)'
  BY <1>3, MaterializedIs, DroppedIs DEF PutAway, Status
<1>4. ~PutAway("withdraw", g, c)  BY <1>1 DEF PutAway
<1>5. ASSUME rule'[g][c] = "on" => rule[g][c] = "on", PutAway("off", g, c) PROVE PutAway("off", g, c)'
  BY <1>5 DEF PutAway
<1> QED  BY <1>2, <1>3, <1>4, <1>5 DEF Calm, AwayKinds

LEMMA SwitchWorld ==
  ASSUME GroupInv, NEW t \in Tabs, NEW r, r = request[t], NEW c \in GroupCourses, r.kind \in SwitchKinds,
         r.group \in Groups, rule[r.group][c] # "none", sort' = sort,
         Switch(t, r, c) \/ NotSwitched(r, c)
  PROVE  World(t) /\ (Switch(t, r, c) => rule'[r.group][c] = r.kind)
<1> DEFINE g == r.group
<1>1. Materialized(g, c) \in ItemStates /\ Dropped(g, c) \in ItemStates  BY MaterializedIs, DroppedIs
<1>2. CASE Switch(t, r, c)
  <2>1. PICK row \in {Materialized(g, c), Dropped(g, c)} : Put(g, c, row)  BY <1>2 DEF Switch
  <2>2. /\ item' \in [Groups -> [GroupCourses -> ItemStates]] /\ item'[g][c] = row
        /\ \A h \in Groups, d \in GroupCourses : h # g \/ d # c => item'[h][d] = item[h][d]
    BY <2>1, <1>1, PutOne
  <2>3. /\ rule' \in [Groups -> [GroupCourses -> {"none", "on", "off"}]] /\ rule'[g][c] = r.kind
        /\ \A h \in Groups, d \in GroupCourses : h # g \/ d # c => rule'[h][d] = rule[h][d]
    BY <1>2 DEF Switch, GroupInv, GroupsTypeOK, SwitchKinds
  <2>4. ASSUME NEW h \in Groups, NEW d \in GroupCourses PROVE Fine(t, h, d)
    <3>1. CASE h # g \/ d # c
      <4>1. Harmless(h, d)  BY <3>1, <2>2, <2>3, Untouched
      <4> QED  BY <4>1, HarmlessIsFine
    <3>2. CASE h = g /\ d = c
      <4>1. /\ Grows(h, d) /\ Listed(h, d) /\ StoredHere(h, d) /\ Bare(h, d)
            /\ (rule'[h][d] = "on" => rule[h][d] = "on") => Calm(h, d)
        BY <3>2, <2>1, <2>2, <2>3, RuleRowTurns DEF SwitchKinds
      <4>2. ~Brings(request[t], h) => r.kind = "off"  BY <3>2 DEF Brings, SwitchKinds
      <4> QED  BY <4>1, <4>2, <2>3, <3>2 DEF Fine
    <3> QED  BY <3>1, <3>2
  <2> QED  BY <2>2, <2>3, <2>4 DEF World, RowsTyped
<1>3. CASE NotSwitched(r, c)
  <2>1. PICK row \in {Dropped(g, c), item[g][c]} : item' = item \/ Put(g, c, row)  BY <1>3 DEF NotSwitched
  <2>2. /\ item' \in [Groups -> [GroupCourses -> ItemStates]]
        /\ item'[g][c] \in {Dropped(g, c), item[g][c]}
        /\ \A h \in Groups, d \in GroupCourses : h # g \/ d # c => item'[h][d] = item[h][d]
    BY <2>1, <1>1, RowIs, PutOne DEF GroupInv, GroupsTypeOK
  <2>3. rule' = rule  BY <1>3 DEF NotSwitched
  <2>4. ASSUME NEW h \in Groups, NEW d \in GroupCourses PROVE Fine(t, h, d)
    <3>1. CASE h # g \/ d # c
      <4>1. Harmless(h, d)  BY <3>1, <2>2, <2>3, Untouched
      <4> QED  BY <4>1, HarmlessIsFine
    <3>2. CASE h = g /\ d = c
      <4>1. rule'[h][d] \in {"on", "off"}  BY <3>2, <2>3, RowIs
      <4>2. Harmless(h, d)  BY <3>2, <2>2, <2>3, <4>1, RuleRowTurns DEF Harmless
      <4> QED  BY <4>2, HarmlessIsFine
    <3> QED  BY <3>1, <3>2
  <2>5. rule' \in [Groups -> [GroupCourses -> {"none", "on", "off"}]]  BY <2>3 DEF GroupInv, GroupsTypeOK
  <2>6. Switch(t, r, c) => rule'[g][c] = r.kind
    BY DEF Switch, GroupInv, GroupsTypeOK, SwitchKinds
  <2> QED  BY <2>2, <2>4, <2>5, <2>6 DEF World, RowsTyped
<1> QED  BY <1>2, <1>3

\* A tick's row, and a row booked, are nobody's request.
LEMMA PutHarmless ==
  ASSUME GroupInv, NEW g \in Groups, NEW c \in GroupCourses, NEW row \in ItemStates, Put(g, c, row),
         sort' = sort, rule' = rule, Harmless(g, c)
  PROVE  Nature /\ \A t \in Tabs : World(t)
<1>1. /\ item' \in [Groups -> [GroupCourses -> ItemStates]]
      /\ \A h \in Groups, d \in GroupCourses : h # g \/ d # c => item'[h][d] = item[h][d]
  BY PutOne
<1>2. \A h \in Groups, d \in GroupCourses : h # g \/ d # c => Harmless(h, d)  BY <1>1, Untouched
<1>3. \A h \in Groups, d \in GroupCourses : Harmless(h, d)  BY <1>2
<1>4. RowsTyped  BY <1>1 DEF RowsTyped, GroupInv, GroupsTypeOK
<1> QED  BY <1>3, <1>4, HarmlessIsFine DEF Nature, World

LEMMA MadeHarmless ==
  ASSUME GroupInv, NEW g \in Groups, NEW c \in GroupCourses, rule[g][c] # "none", sort' = sort, rule' = rule,
         Put(g, c, Materialized(g, c)) \/ Put(g, c, Dropped(g, c))
  PROVE  Nature /\ \A t \in Tabs : World(t)
<1>1. PICK row \in {Materialized(g, c), Dropped(g, c)} : Put(g, c, row)  OBVIOUS
<1>2. row \in ItemStates  BY MaterializedIs, DroppedIs
<1>3. item'[g][c] = row  BY <1>1, <1>2, PutOne
<1>4. rule'[g][c] \in {"on", "off"}  BY RowIs
<1>5. Harmless(g, c)  BY <1>3, <1>4, RuleRowTurns DEF Harmless
<1> QED  BY <1>1, <1>2, <1>5, PutHarmless

LEMMA BookedHarmless ==
  ASSUME GroupInv, NEW g \in Groups, NEW c \in GroupCourses, Status(g, c) = "pending", sort' = sort, rule' = rule,
         Put(g, c, [Absent EXCEPT !.status = "booked"])
  PROVE  Nature
<1>1. [Absent EXCEPT !.status = "booked"] \in ItemStates  BY DEF Absent, ItemStates, Statuses
<1>2. item'[g][c].status = "booked"  BY <1>1, PutOne DEF Absent
<1>3. Harmless(g, c)
  BY <1>2 DEF Harmless, Grows, Listed, Bare, Calm, StoredHere, Kept, Status, PutAway, GroupInv, StoredOK, AwayKinds
<1> QED  BY <1>1, <1>3, PutHarmless

\* A row moved from the site: put away at the course, or brought back there on request.
LEMMA MoveWorld ==
  ASSUME GroupInv, NEW t \in Tabs, NEW kind \in MoveKinds, NEW g \in Groups, NEW c \in GroupCourses,
         request[t].kind = kind, request[t].group = g, CanMove(kind, g, c), Move(kind, g, c), sort' = sort, rule' = rule
  PROVE  World(t) /\ (kind \in AwayKinds => PutAway(kind, g, c)')
<1>k. kind \in {"skip", "unskip", "withdraw"}  BY DEF MoveKinds
<1>1. CASE kind \in {"skip", "unskip"}
  <2> DEFINE to == IF kind = "skip" THEN "skipped" ELSE "pending"
  <2>1. Put(g, c, [Absent EXCEPT !.status = to])  BY <1>1 DEF Move
  <2>2. [Absent EXCEPT !.status = to] \in ItemStates  BY DEF Absent, ItemStates, Statuses
  <2>3. /\ item' \in [Groups -> [GroupCourses -> ItemStates]] /\ item'[g][c] = [Absent EXCEPT !.status = to]
        /\ \A h \in Groups, d \in GroupCourses : h # g \/ d # c => item'[h][d] = item[h][d]
    BY <2>1, <2>2, PutOne
  <2>4. item'[g][c].status = to  BY <2>3 DEF Absent
  <2>5. Status(g, c) = IF kind = "skip" THEN "pending" ELSE "skipped"  BY <1>1 DEF CanMove, MovesFrom
  <2>6. ASSUME NEW h \in Groups, NEW d \in GroupCourses PROVE Fine(t, h, d)
    <3>1. CASE h # g \/ d # c
      <4>1. Harmless(h, d)  BY <3>1, <2>3, Untouched
      <4> QED  BY <4>1, HarmlessIsFine
    <3>2. CASE h = g /\ d = c
      <4>1. Grows(h, d) /\ Listed(h, d) /\ StoredHere(h, d) /\ Bare(h, d)
        BY <3>2, <2>4, <2>5 DEF Grows, Listed, StoredHere, Bare, Kept, Status, GroupInv, StoredOK
      <4>2. kind = "skip" => Calm(h, d)
        BY <3>2, <2>4, <2>5 DEF Calm, PutAway, Status, AwayKinds
      <4>3. kind # "skip" => Brings(request[t], h)  BY <1>1, <3>2 DEF Brings
      <4> QED  BY <4>1, <4>2, <4>3 DEF Fine
    <3> QED  BY <3>1, <3>2
  <2>7. RowsTyped  BY <2>3 DEF RowsTyped, GroupInv, GroupsTypeOK
  <2>8. kind \in AwayKinds => PutAway(kind, g, c)'  BY <1>1, <2>4 DEF AwayKinds, PutAway, Status
  <2> QED  BY <2>6, <2>7, <2>8 DEF World
<1>2. CASE kind = "withdraw"
  <2>1. Status(g, c) = "pending" /\ sort[g] = "one_offs"  BY <1>2 DEF CanMove, MovesFrom
  <2>2. item' = [h \in Groups |-> [item[h] EXCEPT
                    ![c] = IF h = g THEN [@ EXCEPT !.status = "withdrawn"]
                           ELSE IF h \in Restorable(c) THEN Back(@) ELSE @]]
    BY <1>2 DEF Move
  <2>3. \A h \in Groups : /\ Back(item[h][c]) \in ItemStates
                          /\ Back(item[h][c]).status = IF item[h][c].from = "none" THEN "pending" ELSE item[h][c].from
    BY RowIs DEF Back, ItemStates, Statuses, LiveStatuses
  <2>4. [item[g][c] EXCEPT !.status = "withdrawn"] \in ItemStates  BY RowIs DEF ItemStates, Statuses
  <2>5. \A h \in Groups, d \in GroupCourses :
          item'[h][d] = IF d # c THEN item[h][d] ELSE IF h = g THEN [item[h][d] EXCEPT !.status = "withdrawn"]
                        ELSE IF h \in Restorable(c) THEN Back(item[h][d]) ELSE item[h][d]
    BY <2>2 DEF GroupInv, GroupsTypeOK
  <2>6. ASSUME NEW h \in Groups, NEW d \in GroupCourses PROVE item'[h][d] \in ItemStates
    <3>1. item[h][d] \in ItemStates  BY RowIs
    <3>2. CASE d # c  BY <3>1, <3>2, <2>5
    <3>3. CASE d = c /\ h = g
      <4>1. item'[h][d] = [item[g][c] EXCEPT !.status = "withdrawn"]  BY <3>3, <2>5
      <4> QED  BY <4>1, <2>4
    <3>4. CASE d = c /\ h # g
      <4>1. item'[h][d] \in {Back(item[h][c]), item[h][c]}  BY <3>4, <2>5
      <4> QED  BY <4>1, <2>3, <3>1, <3>4
    <3> QED  BY <3>2, <3>3, <3>4
  <2>7. RowsTyped
    <3>1. \A h \in Groups : item'[h] \in [GroupCourses -> ItemStates]
      <4> SUFFICES ASSUME NEW h \in Groups PROVE item'[h] \in [GroupCourses -> ItemStates]  OBVIOUS
      <4>1. DOMAIN item'[h] = GroupCourses /\ item'[h] = [d \in GroupCourses |-> item'[h][d]]  BY <2>2 DEF GroupInv, GroupsTypeOK
      <4> QED  BY <4>1, <2>6
    <3>2. item' = [h \in Groups |-> item'[h]]  BY <2>2
    <3> QED  BY <3>1, <3>2 DEF RowsTyped, GroupInv, GroupsTypeOK
  <2>8. item'[g][c].status = "withdrawn"
    <3>1. item'[g][c] = [item[g][c] EXCEPT !.status = "withdrawn"] /\ item[g][c] \in ItemStates  BY <2>5, RowIs
    <3> QED  BY <3>1 DEF ItemStates
  <2>9. ASSUME NEW h \in Groups, NEW d \in GroupCourses PROVE Harmless(h, d)
    <3>1. CASE item'[h][d] = item[h][d]  BY <3>1, Untouched
    <3>2. CASE h = g /\ d = c
      BY <3>2, <2>8, <2>1 DEF Harmless, Grows, Listed, StoredHere, Bare, Calm, PutAway, AwayKinds, Kept, Status, GroupInv, StoredOK
    <3>3. CASE h # g /\ d = c /\ h \in Restorable(c)
      <4>1. /\ On(h, c) /\ Status(h, c) \in {"superseded", "withdrawn"}  BY <3>3 DEF Restorable
      <4>2. item'[h][d] = Back(item[h][c])  BY <3>3, <2>5
      <4>3. sort[h] = "rules" /\ Kept(h, c)  BY <4>1 DEF On, Kept, GroupInv, StoredOK
      <4>4. item'[h][d].status = IF item[h][c].from = "none" THEN "pending" ELSE item[h][c].from  BY <4>2, <2>3
      <4>5. Grows(h, d) /\ Listed(h, d) /\ StoredHere(h, d) /\ Bare(h, d)
        BY <3>3, <4>1, <4>3 DEF Grows, Listed, StoredHere, Bare, Kept, On
      <4>6. Calm(h, d)  BY <3>3, <4>1, <4>3, <4>4 DEF Calm, PutAway, Status, AwayKinds
      <4> QED  BY <4>5, <4>6 DEF Harmless
    <3> QED  BY <3>1, <3>2, <3>3, <2>5
  <2>10. \A h \in Groups, d \in GroupCourses : Fine(t, h, d)  BY <2>9, HarmlessIsFine
  <2>11. PutAway(kind, g, c)'  BY <1>2, <2>1, <2>8 DEF PutAway, Status
  <2> QED  BY <2>7, <2>10, <2>11 DEF World
<1> QED  BY <1>1, <1>2, <1>k

-----------------------------------------------------------------------------
(* The requests.                                                           *)

Turns(t, r) ==
    /\ request'[t] = r /\ OthersSame(t) /\ request' = [u \in Tabs |-> request'[u]]

LEMMA BecomeTurns ==
  ASSUME GroupInv, NEW t \in Tabs, NEW r, Becomes(t, r) PROVE Turns(t, r)
<1>1. request \in [Tabs -> {Waiting} \cup Requests]  BY DEF GroupInv, GroupsTypeOK
<1>2. \A u \in Tabs : u # t => request'[u] = request[u]  BY <1>1 DEF Becomes
<1>3. OthersSame(t)  BY <1>1, <1>2, SameIsSame DEF OthersSame
<1> QED  BY <1>1, <1>3 DEF Becomes, Turns

LEMMA RenewedTurns ==
  ASSUME GroupInv, NEW t \in Tabs, NEW r, NEW g, NEW c, Renewed(t, r, g, c) PROVE Turns(t, r)
<1>1. request \in [Tabs -> {Waiting} \cup Requests]  BY DEF GroupInv, GroupsTypeOK
<1>2. ASSUME NEW u \in Tabs, u # t PROVE SameAsked(request'[u], request[u])
  <2>1. CASE request[u].kind \in {"on", "off"} /\ request[u].group = g
    <3>1. request'[u] = [request[u] EXCEPT !.fresh = @ \ {c}]  BY <1>2, <2>1 DEF Renewed
    <3>2. request[u] \in Requests  BY <1>1, <2>1 DEF Waiting
    <3>3. request'[u] \in Requests /\ request'[u] # Waiting /\ request[u] # Waiting
      BY <3>1, <3>2 DEF Requests, Waiting, SaveKinds, MoveKinds, SwitchKinds
    <3>4. /\ request'[u].kind = request[u].kind /\ request'[u].group = request[u].group
          /\ request'[u].at = request[u].at /\ request'[u].step = request[u].step
          /\ request'[u].todo = request[u].todo /\ request'[u].saved = request[u].saved
          /\ request'[u].failed = request[u].failed /\ request'[u].wanted = request[u].wanted
          /\ request'[u].shaken = request[u].shaken
      BY <3>1, <3>2 DEF Requests
    <3> QED  BY <3>3, <3>4 DEF SameAsked
  <2>2. CASE ~(request[u].kind \in {"on", "off"} /\ request[u].group = g)
    <3>1. request'[u] = request[u]  BY <1>2, <2>2 DEF Renewed
    <3> QED  BY <3>1, <1>1, SameIsSame
  <2> QED  BY <2>1, <2>2
<1>3. OthersSame(t)  BY <1>2 DEF OthersSame
<1>4. request'[t] = r /\ request' = [u \in Tabs |-> request'[u]]  BY DEF Renewed
<1> QED  BY <1>3, <1>4 DEF Turns

LEMMA EndsWell ==
  ASSUME GroupInv, NEW t \in Tabs, request[t].kind # "none", Turns(t, Waiting), World(t),
         sort' = sort, said' = said, settled' = settled
  PROVE  GroupInv'
<1>1. Own(t)  BY DEF Own, Turns
<1> QED  BY <1>1, OneStep DEF Turns

\* A request in flight is typed, and says what it says.
LEMMA RequestIs ==
  ASSUME GroupInv, NEW t \in Tabs, request[t].kind # "none"
  PROVE  /\ request[t] \in Requests
         /\ request[t].group \in Groups /\ request[t].at \in GroupCourses /\ request[t].todo \in SUBSET GroupCourses
         /\ request[t].kind \in SaveKinds => SaveSound(request[t])
         /\ request[t].kind \in MoveKinds \cup SwitchKinds => RestSound(request[t]) /\ AwaySound(request[t])
BY KindsOf DEF GroupInv, GroupsTypeOK, SavesOK, RestOK, AwayOK, Requests

\* What the answer of one course makes of a request.
LEMMA DoneIs ==
  ASSUME NEW r \in Requests, NEW c \in GroupCourses
  PROVE  /\ Done(r, c) \in Requests
         /\ Done(r, c).kind = r.kind /\ Done(r, c).group = r.group /\ Done(r, c).at = r.at
         /\ Done(r, c).step = r.step /\ Done(r, c).shaken = r.shaken /\ Done(r, c).wanted = r.wanted
         /\ Done(r, c).todo = r.todo \ {c} /\ Done(r, c).saved = r.saved /\ Done(r, c).failed = r.failed
BY DEF Requests, Done

LEMMA RefusedIs ==
  ASSUME NEW r \in Requests, NEW c \in GroupCourses
  PROVE  /\ Refused(r, c) \in Requests /\ NotSaved(r, c) = Refused(r, c)
         /\ Refused(r, c).kind = r.kind /\ Refused(r, c).group = r.group /\ Refused(r, c).at = r.at
         /\ Refused(r, c).step = r.step /\ Refused(r, c).shaken = r.shaken /\ Refused(r, c).wanted = r.wanted
         /\ Refused(r, c).todo = r.todo \ {c} /\ Refused(r, c).saved = r.saved
         /\ Refused(r, c).failed = r.failed \cup {c}
BY DEF Requests, Refused, NotSaved

LEMMA StepIs ==
  ASSUME NEW r \in Requests, NEW s \in {"first", "list", "rest", "save", "rows"}
  PROVE  LET q == [r EXCEPT !.step = s] IN
         /\ q \in Requests /\ q.step = s
         /\ q.kind = r.kind /\ q.group = r.group /\ q.at = r.at /\ q.shaken = r.shaken /\ q.wanted = r.wanted
         /\ q.todo = r.todo /\ q.saved = r.saved /\ q.failed = r.failed
BY DEF Requests

LEMMA SavedIs ==
  ASSUME NEW r \in Requests, NEW c \in GroupCourses
  PROVE  LET q == [r EXCEPT !.saved = @ \cup {c}] IN
         /\ q \in Requests /\ q.step = r.step
         /\ q.kind = r.kind /\ q.group = r.group /\ q.at = r.at /\ q.shaken = r.shaken /\ q.wanted = r.wanted
         /\ q.todo = r.todo /\ q.saved = r.saved \cup {c} /\ q.failed = r.failed
BY DEF Requests

\* A save goes on soundly when what it stored is what it says it stored.
LEMMA SaveGoesOn ==
  ASSUME GroupInv, NEW t \in Tabs, request[t].kind \in SaveKinds, NEW q \in Requests, Turns(t, q), World(t),
         sort' = sort, said' = said, settled' = settled,
         q.kind = request[t].kind, q.group = request[t].group, q.shaken = request[t].shaken,
         q.step \in {"save", "rows"}, q.step = "rows" => q.kind = "rules" /\ q.todo # {},
         GroupCourses \subseteq q.todo \cup q.saved \cup q.failed,
         \A c \in GroupCourses : c \in q.saved <=> Kept(q.group, c)'
  PROVE  GroupInv'
<1>1. request[t].kind # "none"  BY DEF SaveKinds
<1>2. SaveSound(request[t])  BY <1>1, RequestIs
<1>3. SaveSound(request[t])'  BY <1>2 DEF SaveSound, Turns, Kept, Status
<1>4. request[t].kind \notin MoveKinds \cup SwitchKinds  BY DEF SaveKinds, MoveKinds, SwitchKinds
<1>5. Own(t)  BY <1>3, <1>4 DEF Own, Turns
<1> QED  BY <1>1, <1>5, OneStep DEF Turns

LEMMA SaveOneOffStep ==
  ASSUME GroupsAssumption, GroupInv, NEW t \in Tabs, SaveOneOff(t) PROVE GroupInv'
<1>0. PICK r, c, g : r = request[t] /\ c = Min(r.todo) /\ g = r.group  OBVIOUS
<1>1. r.kind = "one_offs" /\ r.kind # "none" /\ r.kind \in SaveKinds /\ r.step = "save" /\ r.todo # {}
  BY <1>0 DEF SaveOneOff, SaveKinds
<1>2. r \in Requests /\ g \in Groups /\ r.todo \in SUBSET GroupCourses /\ SaveSound(r)  BY <1>0, <1>1, RequestIs
<1>3. c \in r.todo /\ c \in GroupCourses  BY <1>0, <1>1, <1>2, MinIn
<1>4. sort' = sort /\ rule' = rule /\ said' = said /\ settled' = settled  BY <1>0 DEF SaveOneOff
<1>5. CASE CanCreate(c)
  <2>0. PICK q : q = [Done(r, c) EXCEPT !.saved = @ \cup {c}]  OBVIOUS
  <2>1. Create(g, c) /\ Becomes(t, q)  BY <1>0, <2>0, <1>5 DEF SaveOneOff
  <2>2. World(t) /\ Kept(g, c)' /\ \A d \in GroupCourses : d # c => (Kept(g, d)' <=> Kept(g, d))
    BY <1>0, <2>0, <1>1, <1>2, <1>3, <1>4, <1>5, <2>1, CreateWorld
  <2>3. Turns(t, q)  BY <1>0, <2>0, <2>1, BecomeTurns
  <2>4. /\ q \in Requests /\ q.kind = r.kind /\ q.group = g /\ q.shaken = r.shaken /\ q.step = "save"
        /\ q.todo = r.todo \ {c} /\ q.saved = r.saved \cup {c} /\ q.failed = r.failed
    <3>1. PICK p : p = Done(r, c)  OBVIOUS
    <3>2. /\ p \in Requests /\ p.kind = r.kind /\ p.group = r.group /\ p.step = r.step /\ p.shaken = r.shaken
          /\ p.todo = r.todo \ {c} /\ p.saved = r.saved /\ p.failed = r.failed
      BY <3>1, <1>2, <1>3, DoneIs
    <3>3. q = [p EXCEPT !.saved = @ \cup {c}]  BY <2>0, <3>1
    <3>4. /\ q \in Requests /\ q.kind = p.kind /\ q.group = p.group /\ q.step = p.step /\ q.shaken = p.shaken
          /\ q.todo = p.todo /\ q.saved = p.saved \cup {c} /\ q.failed = p.failed
      BY <3>2, <3>3, <1>3 DEF Requests
    <3> QED  BY <3>2, <3>4, <1>0, <1>1
  <2>5. \A d \in GroupCourses : d \in q.saved <=> Kept(q.group, d)'  BY <1>0, <2>0, <2>2, <2>4, <1>2 DEF SaveSound
  <2>6. GroupCourses \subseteq q.todo \cup q.saved \cup q.failed  BY <1>0, <2>0, <2>4, <1>2 DEF SaveSound
  <2> QED  BY <1>0, <2>0, <1>1, <1>4, <2>2, <2>3, <2>4, <2>5, <2>6, SaveGoesOn
<1>6. CASE ~CanCreate(c)
  <2>0. PICK q : q = Refused(r, c)  OBVIOUS
  <2>1. Becomes(t, q) /\ item' = item  BY <1>0, <2>0, <1>2, <1>3, <1>6, RefusedIs DEF SaveOneOff
  <2>2. World(t)  BY <1>0, <2>0, <1>4, <2>1, NothingStored
  <2>3. Turns(t, q)  BY <1>0, <2>0, <2>1, BecomeTurns
  <2>4. /\ q \in Requests /\ q.kind = r.kind /\ q.group = g /\ q.shaken = r.shaken /\ q.step = "save"
        /\ q.todo = r.todo \ {c} /\ q.saved = r.saved /\ q.failed = r.failed \cup {c}
    BY <1>0, <2>0, <1>1, <1>2, <1>3, RefusedIs
  <2>5. \A d \in GroupCourses : d \in q.saved <=> Kept(q.group, d)'  BY <1>0, <2>0, <2>1, <2>4, <1>2, <1>4 DEF SaveSound, Kept, Status
  <2>6. GroupCourses \subseteq q.todo \cup q.saved \cup q.failed  BY <1>0, <2>0, <2>4, <1>2 DEF SaveSound
  <2> QED  BY <1>0, <2>0, <1>1, <1>4, <2>2, <2>3, <2>4, <2>5, <2>6, SaveGoesOn
<1> QED  BY <1>0, <1>5, <1>6

LEMMA SaveRuleWorld ==
  ASSUME GroupInv, NEW t \in Tabs, request[t].kind = "rules", NEW g \in Groups, request[t].group = g, NEW c \in GroupCourses,
         sort[g] = "rules", sort' = sort, item' = item, rule' = [rule EXCEPT ![g][c] = "on"]
  PROVE  World(t) /\ Kept(g, c)' /\ \A d \in GroupCourses : d # c => (Kept(g, d)' <=> Kept(g, d))
<1>1. /\ rule' \in [Groups -> [GroupCourses -> {"none", "on", "off"}]] /\ rule'[g][c] = "on"
      /\ \A h \in Groups, d \in GroupCourses : h # g \/ d # c => rule'[h][d] = rule[h][d]
  BY DEF GroupInv, GroupsTypeOK
<1>2. ASSUME NEW h \in Groups, NEW d \in GroupCourses PROVE Fine(t, h, d)
  <2>1. CASE h # g \/ d # c
    <3>1. Harmless(h, d)  BY <2>1, <1>1, Untouched
    <3> QED  BY <3>1, HarmlessIsFine
  <2>2. CASE h = g /\ d = c
    <3>1. Brings(request[t], h) /\ Saves(request[t], h)  BY <2>2 DEF Brings, Saves, SaveKinds
    <3> QED  BY <2>2, <3>1, <1>1 DEF Fine, Grows, Listed, StoredHere, Kept, Status, GroupInv, StoredOK
  <2> QED  BY <2>1, <2>2
<1>3. RowsTyped  BY <1>1 DEF RowsTyped, GroupInv, GroupsTypeOK
<1>4. Kept(g, c)'  BY <1>1 DEF Kept
<1>5. \A d \in GroupCourses : d # c => (Kept(g, d)' <=> Kept(g, d))  BY <1>1 DEF Kept, Status
<1> QED  BY <1>2, <1>3, <1>4, <1>5 DEF World

LEMMA SaveRuleStep ==
  ASSUME GroupsAssumption, GroupInv, NEW t \in Tabs, SaveRule(t) PROVE GroupInv'
<1>0. PICK r, c, g : r = request[t] /\ c = Min(r.todo) /\ g = r.group  OBVIOUS
<1>1. r.kind = "rules" /\ r.kind # "none" /\ r.kind \in SaveKinds /\ r.step = "save" /\ r.todo # {}
  BY <1>0 DEF SaveRule, SaveKinds
<1>2. r \in Requests /\ g \in Groups /\ r.todo \in SUBSET GroupCourses /\ SaveSound(r)  BY <1>0, <1>1, RequestIs
<1>3. c \in r.todo /\ c \in GroupCourses  BY <1>0, <1>1, <1>2, MinIn
<1>4. sort' = sort /\ item' = item /\ said' = said /\ settled' = settled  BY <1>0 DEF SaveRule
<1>5. CASE ~Conflict(g, c)
  <2>0. PICK q : q = [r EXCEPT !.step = "rows", !.saved = @ \cup {c}]  OBVIOUS
  <2>1. rule' = [rule EXCEPT ![g][c] = "on"] /\ Becomes(t, q)  BY <1>0, <2>0, <1>5 DEF SaveRule
  <2>2. World(t) /\ Kept(g, c)' /\ \A d \in GroupCourses : d # c => (Kept(g, d)' <=> Kept(g, d))
    BY <1>0, <2>0, <1>1, <1>2, <1>3, <1>4, <2>1, SaveRuleWorld DEF SaveSound
  <2>3. Turns(t, q)  BY <1>0, <2>0, <2>1, BecomeTurns
  <2>4. /\ q \in Requests /\ q.kind = r.kind /\ q.group = g /\ q.shaken = r.shaken /\ q.step = "rows"
        /\ q.todo = r.todo /\ q.saved = r.saved \cup {c} /\ q.failed = r.failed
    BY <1>0, <2>0, <1>2, <1>3 DEF Requests
  <2>5. \A d \in GroupCourses : d \in q.saved <=> Kept(q.group, d)'  BY <1>0, <2>0, <2>2, <2>4, <1>2 DEF SaveSound
  <2>6. GroupCourses \subseteq q.todo \cup q.saved \cup q.failed  BY <1>0, <2>0, <2>4, <1>2 DEF SaveSound
  <2> QED  BY <1>0, <2>0, <1>1, <1>4, <2>2, <2>3, <2>4, <2>5, <2>6, SaveGoesOn
<1>6. CASE Conflict(g, c)
  <2>0. PICK q : q = Refused(r, c)  OBVIOUS
  <2>1. Becomes(t, q) /\ rule' = rule  BY <1>0, <2>0, <1>2, <1>3, <1>6, RefusedIs DEF SaveRule
  <2>2. World(t)  BY <1>0, <2>0, <1>4, <2>1, NothingStored
  <2>3. Turns(t, q)  BY <1>0, <2>0, <2>1, BecomeTurns
  <2>4. /\ q \in Requests /\ q.kind = r.kind /\ q.group = g /\ q.shaken = r.shaken /\ q.step = "save"
        /\ q.todo = r.todo \ {c} /\ q.saved = r.saved /\ q.failed = r.failed \cup {c}
    BY <1>0, <2>0, <1>1, <1>2, <1>3, RefusedIs
  <2>5. \A d \in GroupCourses : d \in q.saved <=> Kept(q.group, d)'  BY <1>0, <2>0, <2>1, <2>4, <1>2, <1>4 DEF SaveSound, Kept, Status
  <2>6. GroupCourses \subseteq q.todo \cup q.saved \cup q.failed  BY <1>0, <2>0, <2>4, <1>2 DEF SaveSound
  <2> QED  BY <1>0, <2>0, <1>1, <1>4, <2>2, <2>3, <2>4, <2>5, <2>6, SaveGoesOn
<1> QED  BY <1>0, <1>5, <1>6

LEMMA SaveRowsStep ==
  ASSUME GroupsAssumption, GroupInv, NEW t \in Tabs, SaveRows(t) PROVE GroupInv'
<1>0. PICK r, c, g, s : r = request[t] /\ c = Min(r.todo) /\ g = r.group /\ s = [r EXCEPT !.step = "save"]  OBVIOUS
<1>1. r.kind = "rules" /\ r.kind # "none" /\ r.kind \in SaveKinds /\ r.step = "rows"
  BY <1>0 DEF SaveRows, SaveKinds
<1>2. r \in Requests /\ g \in Groups /\ r.todo \in SUBSET GroupCourses /\ SaveSound(r)  BY <1>0, <1>1, RequestIs
<1>3. c \in r.todo /\ c \in GroupCourses  BY <1>0, <1>1, <1>2, MinIn DEF SaveSound
<1>4. sort' = sort /\ rule' = rule /\ said' = said /\ settled' = settled  BY <1>0 DEF SaveRows
<1>5. /\ s \in Requests /\ s.step = "save" /\ s.kind = r.kind /\ s.group = g /\ s.shaken = r.shaken
      /\ s.todo = r.todo /\ s.saved = r.saved /\ s.failed = r.failed
  BY <1>0, <1>2, StepIs
<1>6. CASE On(g, c)
  <2>0. PICK q : q = Done(s, c)  OBVIOUS
  <2>1. Put(g, c, Materialized(g, c)) /\ Becomes(t, q)  BY <1>0, <2>0, <1>6 DEF SaveRows
  <2>2. rule[g][c] # "none"  BY <1>0, <2>0, <1>6 DEF On
  <2>3. Nature /\ World(t)  BY <1>0, <2>0, <1>2, <1>3, <1>4, <2>1, <2>2, MadeHarmless
  <2>4. Turns(t, q)  BY <1>0, <2>0, <2>1, BecomeTurns
  <2>5. /\ q \in Requests /\ q.kind = r.kind /\ q.group = g /\ q.shaken = r.shaken /\ q.step = "save"
        /\ q.todo = r.todo \ {c} /\ q.saved = r.saved /\ q.failed = r.failed
    BY <2>0, <1>3, <1>5, DoneIs
  <2>6. \A d \in GroupCourses : Kept(g, d)' <=> Kept(g, d)  BY <1>0, <2>0, <2>3, <1>2 DEF Nature, Harmless, Grows, Bare
  <2>7. c \in r.saved  BY <1>0, <2>0, <1>2, <1>3, <2>2 DEF SaveSound, Kept
  <2>8. \A d \in GroupCourses : d \in q.saved <=> Kept(q.group, d)'  BY <1>0, <2>0, <2>5, <2>6, <1>2 DEF SaveSound
  <2>9. GroupCourses \subseteq q.todo \cup q.saved \cup q.failed  BY <1>0, <2>0, <2>5, <2>7, <1>2 DEF SaveSound
  <2> QED  BY <1>0, <2>0, <1>1, <1>4, <2>3, <2>4, <2>5, <2>8, <2>9, SaveGoesOn
<1>7. CASE ~On(g, c)
  <2>0. PICK q : q = Refused(s, c)  OBVIOUS
  <2>1. Becomes(t, q) /\ item' = item  BY <1>0, <2>0, <1>7 DEF SaveRows
  <2>2. World(t)  BY <1>0, <2>0, <1>4, <2>1, NothingStored
  <2>3. Turns(t, q)  BY <1>0, <2>0, <2>1, BecomeTurns
  <2>4. /\ q \in Requests /\ q.kind = r.kind /\ q.group = g /\ q.shaken = r.shaken /\ q.step = "save"
        /\ q.todo = r.todo \ {c} /\ q.saved = r.saved /\ q.failed = r.failed \cup {c}
    BY <2>0, <1>3, <1>5, RefusedIs
  <2>5. \A d \in GroupCourses : d \in q.saved <=> Kept(q.group, d)'  BY <1>0, <2>0, <2>1, <2>4, <1>2, <1>4 DEF SaveSound, Kept, Status
  <2>6. GroupCourses \subseteq q.todo \cup q.saved \cup q.failed  BY <1>0, <2>0, <2>4, <1>2 DEF SaveSound
  <2> QED  BY <1>0, <2>0, <1>1, <1>4, <2>2, <2>3, <2>4, <2>5, <2>6, SaveGoesOn
<1> QED  BY <1>0, <1>6, <1>7

\* What is asked of a group goes on soundly when each course it is done with was put away.
LEMMA RestGoesOn ==
  ASSUME GroupInv, NEW t \in Tabs, NEW r \in Requests, r = request[t], r.kind \in MoveKinds \cup SwitchKinds,
         NEW q \in Requests, Turns(t, q), World(t), sort' = sort, said' = said, settled' = settled,
         q.kind = r.kind, q.group = r.group, q.shaken = r.shaken, q.at = r.at,
         q.step \in {"list", "rest"}, q.step = "list" => q.todo = {},
         \A c \in q.todo : c \in r.todo \/ r.kind \in MoveKinds \/ rule'[r.group][c] # "none",
         NEW done \in SUBSET GroupCourses, r.kind \in AwayKinds => \A c \in done : PutAway(r.kind, r.group, c)',
         q.wanted \ (q.todo \cup q.failed)
            \subseteq done \cup (IF r.step \in {"list", "rest"} THEN r.wanted \ (r.todo \cup r.failed) ELSE {})
  PROVE  GroupInv'
<1>1. r.kind # "none" /\ r.kind \notin SaveKinds  BY DEF SaveKinds, MoveKinds, SwitchKinds
<1>2. RestSound(r) /\ AwaySound(r) /\ r.group \in Groups /\ r.at \in GroupCourses /\ r.todo \subseteq GroupCourses
  BY <1>1, RequestIs
<1>3. \A c \in GroupCourses : Listed(r.group, c)  BY <1>2 DEF World, Fine
<1>4. r.kind \notin MoveKinds \/ r.kind \notin SwitchKinds  BY DEF MoveKinds, SwitchKinds
<1>5. RestSound(q)'  BY <1>2, <1>3, <1>4 DEF RestSound, Listed
<1>6. AwaySound(q)'
  <2> SUFFICES ASSUME q.kind \in AwayKinds, ~q.shaken, NEW c \in q.wanted \ (q.todo \cup q.failed)
               PROVE  PutAway(q.kind, q.group, c)'
    BY DEF AwaySound
  <2>1. CASE c \in done  BY <2>1
  <2>2. CASE c \notin done
    <3>1. c \in r.wanted \ (r.todo \cup r.failed) /\ r.step \in {"list", "rest"}  BY <2>2
    <3>2. PutAway(r.kind, r.group, c)  BY <3>1, <1>2 DEF AwaySound
    <3>3. c \in GroupCourses  BY DEF Requests
    <3>4. ~Brings(r, r.group)  BY DEF Brings, AwayKinds
    <3>5. Calm(r.group, c)  BY <3>3, <3>4, <1>2 DEF World, Fine
    <3> QED  BY <3>2, <3>5 DEF Calm
  <2> QED  BY <2>1, <2>2
<1>7. RestSound(request[t])' /\ AwaySound(request[t])'
  BY <1>5, <1>6 DEF Turns, RestSound, AwaySound, PutAway, Status
<1>8. Own(t)  BY <1>1, <1>7 DEF Own, Turns
<1> QED  BY <1>1, <1>8, OneStep DEF Turns

LEMMA MoveFirstStep ==
  ASSUME GroupInv, NEW t \in Tabs, MoveFirst(t) PROVE GroupInv'
<1>0. PICK r : r = request[t]  OBVIOUS
<1>1. r.kind \in MoveKinds /\ r.kind # "none" /\ r.step = "first"  BY <1>0 DEF MoveFirst, MovesFrom, MoveKinds
<1>2. r \in Requests /\ r.group \in Groups /\ r.at \in GroupCourses /\ RestSound(r)  BY <1>0, <1>1, RequestIs
<1>3. sort' = sort /\ rule' = rule /\ said' = said /\ settled' = settled  BY DEF MoveFirst
<1>4. CASE CanMove(r.kind, r.group, r.at)
  <2>1. PICK q : q = [r EXCEPT !.step = "list"]  OBVIOUS
  <2>2. Move(r.kind, r.group, r.at) /\ Becomes(t, q)  BY <1>0, <1>4, <2>1 DEF MoveFirst
  <2>3. World(t) /\ (r.kind \in AwayKinds => PutAway(r.kind, r.group, r.at)')
    BY <1>0, <1>1, <1>2, <1>3, <1>4, <2>2, MoveWorld
  <2>4. Turns(t, q)  BY <2>2, BecomeTurns
  <2>5. /\ q \in Requests /\ q.step = "list" /\ q.kind = r.kind /\ q.group = r.group /\ q.at = r.at
        /\ q.shaken = r.shaken /\ q.wanted = r.wanted /\ q.todo = r.todo /\ q.failed = r.failed
    BY <1>2, <2>1 DEF Requests
  <2>6. q.todo = {} /\ q.wanted \subseteq {r.at}  BY <1>1, <1>2, <2>5 DEF RestSound
  <2>7. {r.at} \in SUBSET GroupCourses  BY <1>2
  <2> QED  BY <1>0, <1>1, <1>2, <1>3, <2>3, <2>4, <2>5, <2>6, <2>7, RestGoesOn
<1>5. CASE ~CanMove(r.kind, r.group, r.at)
  <2>1. Becomes(t, Waiting) /\ item' = item  BY <1>0, <1>5 DEF MoveFirst
  <2> QED  BY <1>0, <1>1, <1>3, <2>1, BecomeTurns, NothingStored, EndsWell
<1> QED  BY <1>4, <1>5

LEMMA ListRowsStep ==
  ASSUME GroupInv, NEW t \in Tabs, ListRows(t) PROVE GroupInv'
<1>0. PICK r : r = request[t]  OBVIOUS
<1>1. r.kind \in MoveKinds /\ r.kind # "none" /\ r.step = "list"  BY <1>0 DEF ListRows, MovesFrom, MoveKinds
<1>2. r \in Requests /\ r.group \in Groups /\ r.at \in GroupCourses /\ RestSound(r)  BY <1>0, <1>1, RequestIs
<1>3. sort' = sort /\ rule' = rule /\ item' = item /\ said' = said /\ settled' = settled  BY DEF ListRows
<1>4. PICK others \in SUBSET GroupCourses : others = {c \in GroupCourses \ {r.at} : Status(r.group, c) = r.was}  OBVIOUS
<1>5. PICK q : q = [r EXCEPT !.step = "rest", !.todo = others, !.wanted = @ \cup others]  OBVIOUS
<1>6. Becomes(t, q)  BY <1>0, <1>4, <1>5 DEF ListRows
<1>7. Turns(t, q)  BY <1>6, BecomeTurns
<1>8. /\ q \in Requests /\ q.step = "rest" /\ q.kind = r.kind /\ q.group = r.group /\ q.at = r.at
      /\ q.shaken = r.shaken /\ q.wanted = r.wanted \cup others /\ q.todo = others /\ q.failed = r.failed
  BY <1>2, <1>5 DEF Requests
<1>9. q.wanted \ (q.todo \cup q.failed)
        \subseteq {} \cup (IF r.step \in {"list", "rest"} THEN r.wanted \ (r.todo \cup r.failed) ELSE {})
  BY <1>1, <1>2, <1>8 DEF RestSound
<1>10. World(t)  BY <1>3, NothingStored
<1>d. {} \in SUBSET GroupCourses /\ \A d \in {} : PutAway(r.kind, r.group, d)'  OBVIOUS
<1> QED  BY <1>0, <1>1, <1>2, <1>3, <1>7, <1>8, <1>9, <1>d, <1>10, RestGoesOn

LEMMA MoveSiblingStep ==
  ASSUME GroupInv, NEW t \in Tabs, MoveSibling(t) PROVE GroupInv'
<1>0. PICK r : r = request[t]  OBVIOUS
<1>1. r.kind \in MoveKinds /\ r.kind # "none" /\ r.step = "rest"  BY <1>0 DEF MoveSibling, MovesFrom, MoveKinds
<1>2. r \in Requests /\ r.group \in Groups /\ r.todo \in SUBSET GroupCourses /\ RestSound(r)  BY <1>0, <1>1, RequestIs
<1>3. sort' = sort /\ rule' = rule /\ said' = said /\ settled' = settled  BY DEF MoveSibling
<1>4. PICK c \in r.todo : IF CanMove(r.kind, r.group, c) THEN Move(r.kind, r.group, c) /\ Becomes(t, Done(r, c))
                          ELSE Becomes(t, Refused(r, c)) /\ UNCHANGED item
  BY <1>0 DEF MoveSibling
<1>c. c \in GroupCourses  BY <1>2
<1>5. CASE CanMove(r.kind, r.group, c)
  <2>1. PICK q : q = Done(r, c)  OBVIOUS
  <2>2. World(t) /\ (r.kind \in AwayKinds => PutAway(r.kind, r.group, c)')
    BY <1>0, <1>1, <1>2, <1>3, <1>4, <1>5, <1>c, MoveWorld
  <2>3. Turns(t, q)  BY <1>4, <1>5, <2>1, BecomeTurns
  <2>4. /\ q \in Requests /\ q.step = "rest" /\ q.kind = r.kind /\ q.group = r.group /\ q.at = r.at
        /\ q.shaken = r.shaken /\ q.wanted = r.wanted /\ q.todo = r.todo \ {c} /\ q.failed = r.failed
    BY <1>1, <1>2, <1>c, <2>1, DoneIs
  <2>5. {c} \in SUBSET GroupCourses /\ (r.kind \in AwayKinds => \A d \in {c} : PutAway(r.kind, r.group, d)')
    BY <1>c, <2>2
  <2>6. q.wanted \ (q.todo \cup q.failed)
        \subseteq {c} \cup (IF r.step \in {"list", "rest"} THEN r.wanted \ (r.todo \cup r.failed) ELSE {})
    BY <1>1, <2>4
  <2>8. /\ q.step \in {"list", "rest"} /\ (q.step = "list" => q.todo = {})
        /\ \A d \in q.todo : d \in r.todo \/ r.kind \in MoveKinds \/ rule'[r.group][d] # "none"
    BY <2>4
  <2>9. r \in Requests /\ r = request[t] /\ r.kind \in MoveKinds \cup SwitchKinds  BY <1>0, <1>1, <1>2
  <2> QED  BY <2>8, <2>9, <1>3, <2>2, <2>3, <2>4, <2>5, <2>6, RestGoesOn
<1>6. CASE ~CanMove(r.kind, r.group, c)
  <2>1. PICK q : q = Refused(r, c)  OBVIOUS
  <2>2. World(t)  BY <1>3, <1>4, <1>6, NothingStored
  <2>3. Turns(t, q)  BY <1>4, <1>6, <2>1, BecomeTurns
  <2>4. /\ q \in Requests /\ q.step = "rest" /\ q.kind = r.kind /\ q.group = r.group /\ q.at = r.at
        /\ q.shaken = r.shaken /\ q.wanted = r.wanted /\ q.todo = r.todo \ {c} /\ q.failed = r.failed \cup {c}
    BY <1>1, <1>2, <1>c, <2>1, RefusedIs
  <2>6. q.wanted \ (q.todo \cup q.failed)
        \subseteq {} \cup (IF r.step \in {"list", "rest"} THEN r.wanted \ (r.todo \cup r.failed) ELSE {})
    BY <1>1, <2>4
  <2>7. {} \in SUBSET GroupCourses /\ \A d \in {} : PutAway(r.kind, r.group, d)'  OBVIOUS
  <2>8. /\ q.step \in {"list", "rest"} /\ (q.step = "list" => q.todo = {})
        /\ \A d \in q.todo : d \in r.todo \/ r.kind \in MoveKinds \/ rule'[r.group][d] # "none"
    BY <2>4
  <2>9. r \in Requests /\ r = request[t] /\ r.kind \in MoveKinds \cup SwitchKinds  BY <1>0, <1>1, <1>2
  <2> QED  BY <2>8, <2>9, <1>3, <2>2, <2>3, <2>4, <2>6, <2>7, RestGoesOn
<1> QED  BY <1>5, <1>6

LEMMA SwitchFirstStep ==
  ASSUME GroupInv, NEW t \in Tabs, SwitchFirst(t) PROVE GroupInv'
<1>0. PICK r : r = request[t]  OBVIOUS
<1>1. r.kind \in SwitchKinds /\ r.kind # "none" /\ r.step = "first"  BY <1>0 DEF SwitchFirst, SwitchKinds
<1>2. r \in Requests /\ r.group \in Groups /\ r.at \in GroupCourses /\ RestSound(r)  BY <1>0, <1>1, RequestIs
<1>3. sort' = sort /\ said' = said /\ settled' = settled  BY DEF SwitchFirst
<1>4. rule[r.group][r.at] # "none"  BY <1>1, <1>2 DEF RestSound
<1>5. CASE CanSwitch(r, r.at)
  <2>1. PICK q : q = [r EXCEPT !.step = "list"]  OBVIOUS
  <2>2. Switch(t, r, r.at) /\ Renewed(t, q, r.group, r.at)  BY <1>0, <1>5, <2>1 DEF SwitchFirst
  <2>3. World(t) /\ rule'[r.group][r.at] = r.kind  BY <1>0, <1>1, <1>2, <1>3, <1>4, <2>2, SwitchWorld
  <2>4. Turns(t, q)  BY <2>2, RenewedTurns
  <2>5. /\ q \in Requests /\ q.step = "list" /\ q.kind = r.kind /\ q.group = r.group /\ q.at = r.at
        /\ q.shaken = r.shaken /\ q.wanted = r.wanted /\ q.todo = r.todo /\ q.failed = r.failed
    BY <1>2, <2>1 DEF Requests
  <2>6. q.todo = {} /\ q.wanted \subseteq {r.at}  BY <1>1, <1>2, <2>5 DEF RestSound
  <2>7. {r.at} \in SUBSET GroupCourses  BY <1>2
  <2>8. r.kind \in AwayKinds => PutAway(r.kind, r.group, r.at)'  BY <1>1, <2>3 DEF AwayKinds, SwitchKinds, PutAway
  <2> QED  BY <1>0, <1>1, <1>2, <1>3, <2>3, <2>4, <2>5, <2>6, <2>7, <2>8, RestGoesOn
<1>6. CASE ~CanSwitch(r, r.at)
  <2>1. Becomes(t, Waiting) /\ NotSwitched(r, r.at)  BY <1>0, <1>6 DEF SwitchFirst
  <2>2. World(t)  BY <1>0, <1>1, <1>2, <1>3, <1>4, <2>1, SwitchWorld
  <2> QED  BY <1>0, <1>1, <1>3, <2>1, <2>2, BecomeTurns, EndsWell
<1> QED  BY <1>5, <1>6

LEMMA ListRulesStep ==
  ASSUME GroupInv, NEW t \in Tabs, ListRules(t) PROVE GroupInv'
<1>0. PICK r : r = request[t]  OBVIOUS
<1>1. r.kind \in SwitchKinds /\ r.kind # "none" /\ r.step = "list"  BY <1>0 DEF ListRules, SwitchKinds
<1>2. r \in Requests /\ r.group \in Groups /\ r.at \in GroupCourses /\ RestSound(r)  BY <1>0, <1>1, RequestIs
<1>3. sort' = sort /\ rule' = rule /\ item' = item /\ said' = said /\ settled' = settled  BY DEF ListRules
<1>4. PICK others \in SUBSET GroupCourses :
        others = {c \in GroupCourses \ {r.at} : rule[r.group][c] = IF r.kind = "on" THEN "off" ELSE "on"}
  OBVIOUS
<1>5. PICK q : q = [r EXCEPT !.step = "rest", !.todo = others, !.fresh = others, !.wanted = @ \cup others]  OBVIOUS
<1>6. Becomes(t, q)  BY <1>0, <1>4, <1>5 DEF ListRules
<1>7. Turns(t, q)  BY <1>6, BecomeTurns
<1>8. /\ q \in Requests /\ q.step = "rest" /\ q.kind = r.kind /\ q.group = r.group /\ q.at = r.at
      /\ q.shaken = r.shaken /\ q.wanted = r.wanted \cup others /\ q.todo = others /\ q.failed = r.failed
  BY <1>2, <1>5 DEF Requests
<1>9. q.wanted \ (q.todo \cup q.failed)
        \subseteq {} \cup (IF r.step \in {"list", "rest"} THEN r.wanted \ (r.todo \cup r.failed) ELSE {})
  BY <1>1, <1>2, <1>8 DEF RestSound
<1>10. World(t)  BY <1>3, NothingStored
<1>11. \A c \in q.todo : rule'[r.group][c] # "none"  BY <1>3, <1>4, <1>8
<1>d. {} \in SUBSET GroupCourses /\ \A d \in {} : PutAway(r.kind, r.group, d)'  OBVIOUS
<1>e. /\ q.step \in {"list", "rest"} /\ (q.step = "list" => q.todo = {})
      /\ \A d \in q.todo : d \in r.todo \/ r.kind \in MoveKinds \/ rule'[r.group][d] # "none"
  BY <1>8, <1>11
<1>f. r \in Requests /\ r = request[t] /\ r.kind \in MoveKinds \cup SwitchKinds  BY <1>0, <1>1, <1>2
<1> QED  BY <1>e, <1>f, <1>3, <1>7, <1>8, <1>9, <1>d, <1>10, <1>11, RestGoesOn

LEMMA SwitchSiblingStep ==
  ASSUME GroupInv, NEW t \in Tabs, SwitchSibling(t) PROVE GroupInv'
<1>0. PICK r : r = request[t]  OBVIOUS
<1>1. r.kind \in SwitchKinds /\ r.kind # "none" /\ r.step = "rest"  BY <1>0 DEF SwitchSibling, SwitchKinds
<1>2. r \in Requests /\ r.group \in Groups /\ r.todo \in SUBSET GroupCourses /\ RestSound(r)  BY <1>0, <1>1, RequestIs
<1>3. sort' = sort /\ said' = said /\ settled' = settled  BY DEF SwitchSibling
<1>4. PICK c \in r.todo : IF CanSwitch(r, c) THEN Switch(t, r, c) /\ Renewed(t, Done(r, c), r.group, c)
                          ELSE NotSwitched(r, c) /\ Becomes(t, Refused(r, c))
  BY <1>0 DEF SwitchSibling
<1>c. c \in GroupCourses /\ rule[r.group][c] # "none"  BY <1>1, <1>2 DEF RestSound
<1>5. CASE CanSwitch(r, c)
  <2>1. PICK q : q = Done(r, c)  OBVIOUS
  <2>2. World(t) /\ rule'[r.group][c] = r.kind  BY <1>0, <1>1, <1>2, <1>3, <1>4, <1>5, <1>c, SwitchWorld
  <2>3. Turns(t, q)  BY <1>4, <1>5, <2>1, RenewedTurns
  <2>4. /\ q \in Requests /\ q.step = "rest" /\ q.kind = r.kind /\ q.group = r.group /\ q.at = r.at
        /\ q.shaken = r.shaken /\ q.wanted = r.wanted /\ q.todo = r.todo \ {c} /\ q.failed = r.failed
    BY <1>1, <1>2, <1>c, <2>1, DoneIs
  <2>5. {c} \in SUBSET GroupCourses  BY <1>c
  <2>6. q.wanted \ (q.todo \cup q.failed)
        \subseteq {c} \cup (IF r.step \in {"list", "rest"} THEN r.wanted \ (r.todo \cup r.failed) ELSE {})
    BY <1>1, <2>4
  <2>7. r.kind \in AwayKinds => \A d \in {c} : PutAway(r.kind, r.group, d)'
    BY <1>1, <2>2 DEF AwayKinds, SwitchKinds, PutAway
  <2>8. /\ q.step \in {"list", "rest"} /\ (q.step = "list" => q.todo = {})
        /\ \A d \in q.todo : d \in r.todo \/ r.kind \in MoveKinds \/ rule'[r.group][d] # "none"
    BY <2>4
  <2>9. r \in Requests /\ r = request[t] /\ r.kind \in MoveKinds \cup SwitchKinds  BY <1>0, <1>1, <1>2
  <2> QED  BY <2>8, <2>9, <1>3, <2>2, <2>3, <2>4, <2>5, <2>6, <2>7, RestGoesOn
<1>6. CASE ~CanSwitch(r, c)
  <2>1. PICK q : q = Refused(r, c)  OBVIOUS
  <2>2. World(t)  BY <1>0, <1>1, <1>2, <1>3, <1>4, <1>6, <1>c, SwitchWorld
  <2>3. Turns(t, q)  BY <1>4, <1>6, <2>1, BecomeTurns
  <2>4. /\ q \in Requests /\ q.step = "rest" /\ q.kind = r.kind /\ q.group = r.group /\ q.at = r.at
        /\ q.shaken = r.shaken /\ q.wanted = r.wanted /\ q.todo = r.todo \ {c} /\ q.failed = r.failed \cup {c}
    BY <1>1, <1>2, <1>c, <2>1, RefusedIs
  <2>6. q.wanted \ (q.todo \cup q.failed)
        \subseteq {} \cup (IF r.step \in {"list", "rest"} THEN r.wanted \ (r.todo \cup r.failed) ELSE {})
    BY <1>1, <2>4
  <2>7. {} \in SUBSET GroupCourses /\ \A d \in {} : PutAway(r.kind, r.group, d)'  OBVIOUS
  <2>8. /\ q.step \in {"list", "rest"} /\ (q.step = "list" => q.todo = {})
        /\ \A d \in q.todo : d \in r.todo \/ r.kind \in MoveKinds \/ rule'[r.group][d] # "none"
    BY <2>4
  <2>9. r \in Requests /\ r = request[t] /\ r.kind \in MoveKinds \cup SwitchKinds  BY <1>0, <1>1, <1>2
  <2> QED  BY <2>8, <2>9, <1>3, <2>2, <2>3, <2>4, <2>6, <2>7, RestGoesOn
<1> QED  BY <1>5, <1>6

LEMMA DiesStep ==
  ASSUME GroupInv, NEW t \in Tabs, Dies(t) PROVE GroupInv'
BY BecomeTurns, NothingStored, EndsWell DEF Dies

-----------------------------------------------------------------------------
(* What is asked, and what is answered.                                    *)

\* Tab t asks q, and every request under way overlaps with it.
Asks(t, q) ==
    /\ request'[t] = q /\ request' = [u \in Tabs |-> request'[u]]
    /\ \A u \in Tabs : u # t =>
          /\ request'[u] \in {Waiting} \cup Requests /\ request'[u].kind = request[u].kind
          /\ request[u].kind # "none" =>
                /\ request'[u].shaken /\ request'[u].group = request[u].group /\ request'[u].at = request[u].at
                /\ request'[u].step = request[u].step /\ request'[u].todo = request[u].todo
                /\ request'[u].saved = request[u].saved /\ request'[u].failed = request[u].failed
                /\ request'[u].wanted = request[u].wanted

LEMMA OverlappedAsks ==
  ASSUME GroupInv, NEW t \in Tabs, NEW q, request' = [Overlapped(t) EXCEPT ![t] = q] PROVE Asks(t, q)
<1>1. request \in [Tabs -> {Waiting} \cup Requests]  BY DEF GroupInv, GroupsTypeOK
<1>2. request'[t] = q /\ request' = [u \in Tabs |-> request'[u]]  BY DEF Overlapped
<1>3. ASSUME NEW u \in Tabs, u # t
      PROVE  /\ request'[u] \in {Waiting} \cup Requests /\ request'[u].kind = request[u].kind
             /\ request[u].kind # "none" =>
                /\ request'[u].shaken /\ request'[u].group = request[u].group /\ request'[u].at = request[u].at
                /\ request'[u].step = request[u].step /\ request'[u].todo = request[u].todo
                /\ request'[u].saved = request[u].saved /\ request'[u].failed = request[u].failed
                /\ request'[u].wanted = request[u].wanted
  <2>1. CASE request[u].kind = "none"
    <3>1. request'[u] = request[u]  BY <1>3, <2>1 DEF Overlapped
    <3> QED  BY <3>1, <1>1, <2>1
  <2>2. CASE request[u].kind # "none"
    <3>1. request'[u] = [request[u] EXCEPT !.shaken = TRUE]  BY <1>3, <2>2 DEF Overlapped
    <3>2. request[u] \in Requests  BY <1>1, <2>2 DEF Waiting
    <3>3. PICK a, b : a = request[u] /\ b = request'[u]  OBVIOUS
    <3>4. a \in Requests /\ b = [a EXCEPT !.shaken = TRUE]  BY <3>1, <3>2, <3>3
    <3>5. b \in Requests  BY <3>4 DEF Requests
    <3>6. /\ b.shaken /\ b.kind = a.kind /\ b.group = a.group /\ b.at = a.at /\ b.step = a.step /\ b.todo = a.todo
          /\ b.saved = a.saved /\ b.failed = a.failed /\ b.wanted = a.wanted
      BY <3>4 DEF Requests
    <3> QED  BY <3>3, <3>5, <3>6
  <2> QED  BY <2>1, <2>2
<1> QED  BY <1>2, <1>3 DEF Asks

LEMMA AskKeeps ==
  ASSUME GroupInv, NEW t \in Tabs, request[t] = Waiting, NEW q \in Requests, Asks(t, q),
         q.shaken <=> \E u \in Tabs : request[u].kind # "none",
         item' = item, rule' = rule, said' = said, sort' \in [Groups -> {"none"} \cup SaveKinds],
         \A g \in Groups : sort[g] # "none" => sort'[g] = sort[g], sort'[q.group] # "none",
         settled' \subseteq settled, \A x \in settled' : ~Brings(q, x[2]),
         q.step \notin {"list", "rest"},
         \A u \in Tabs : q.kind \in SaveKinds => ~Saves(request[u], q.group),
         q.kind \in SaveKinds => SaveSound(q)', q.kind \notin SaveKinds => RestSound(q)'
  PROVE  GroupInv'
<1>0. request \in [Tabs -> {Waiting} \cup Requests]  BY DEF GroupInv, GroupsTypeOK
<1>1. GroupsTypeOK'
  <2>1. \A u \in Tabs : request'[u] \in {Waiting} \cup Requests  BY DEF Asks
  <2>2. request' \in [Tabs -> {Waiting} \cup Requests]  BY <2>1 DEF Asks
  <2> QED  BY <2>2 DEF GroupInv, GroupsTypeOK
<1>w. Waiting.kind = "none"  BY DEF Waiting
<1>u. ASSUME NEW u \in Tabs, u # t, request'[u].kind # "none"
      PROVE  /\ request[u] \in Requests /\ request[u].group \in Groups /\ request[u].kind # "none"
             /\ request'[u].kind = request[u].kind /\ request'[u].group = request[u].group
             /\ sort[request[u].group] # "none" /\ sort'[request[u].group] = sort[request[u].group]
  <2>1. request'[u].kind = request[u].kind /\ request'[u].group = request[u].group  BY <1>u DEF Asks
  <2>2. request[u] \in Requests /\ request[u].group \in Groups  BY <1>0, <1>u, <2>1, <1>w DEF Requests
  <2> QED  BY <2>1, <2>2, <1>u DEF GroupInv, AskedOK
<1>2. StoredOK'  BY DEF GroupInv, StoredOK, Status
<1>3. SaidOK'  BY DEF GroupInv, SaidOK
<1>q. request'[t] = q /\ q.kind # "none" /\ (q.kind \in SaveKinds \/ q.kind \in MoveKinds \cup SwitchKinds)
  BY DEF Asks, Requests, SaveKinds, MoveKinds, SwitchKinds
<1>4. AskedOK'  BY <1>u, <1>q DEF AskedOK
<1>5. SavesOK'
  <2> SUFFICES ASSUME NEW u \in Tabs, request'[u].kind \in SaveKinds PROVE SaveSound(request[u])'  BY DEF SavesOK
  <2>1. CASE u = t  BY <2>1, <1>q DEF SaveSound, Kept, Status
  <2>2. CASE u # t
    <3>1. request'[u].kind # "none"  BY DEF SaveKinds
    <3>2. SaveSound(request[u])  BY <3>1, <1>u, <2>2 DEF GroupInv, SavesOK
    <3>3. /\ request'[u].step = request[u].step /\ request'[u].todo = request[u].todo
          /\ request'[u].saved = request[u].saved /\ request'[u].failed = request[u].failed
      BY <3>1, <2>2 DEF Asks
    <3>4. \A g, c : Kept(g, c)' <=> Kept(g, c)  BY DEF Kept, Status
    <3> QED  BY <3>1, <3>2, <3>3, <3>4, <1>u, <2>2 DEF SaveSound
  <2> QED  BY <2>1, <2>2
<1>6. SaveAlone'
  <2> SUFFICES ASSUME NEW u \in Tabs, NEW v \in Tabs, NEW g \in Groups, u # v, Saves(request'[u], g), Saves(request'[v], g)
               PROVE  FALSE
    BY DEF SaveAlone
  <2>1. \A w \in Tabs : w # t /\ Saves(request'[w], g) => Saves(request[w], g)  BY <1>u DEF Saves, SaveKinds
  <2>2. \A w \in Tabs : Saves(q, g) => ~Saves(request[w], g)  BY DEF Saves
  <2>3. CASE u = t  BY <2>1, <2>2, <2>3, <1>q
  <2>4. CASE v = t  BY <2>1, <2>2, <2>4, <1>q
  <2>5. CASE u # t /\ v # t  BY <2>1, <2>5 DEF GroupInv, SaveAlone
  <2> QED  BY <2>3, <2>4, <2>5
<1>7. RestOK'
  <2> SUFFICES ASSUME NEW u \in Tabs, request'[u].kind \in MoveKinds \cup SwitchKinds PROVE RestSound(request[u])'  BY DEF RestOK
  <2>1. CASE u = t
    <3>1. q.kind \notin SaveKinds  BY <2>1, <1>q DEF SaveKinds, MoveKinds, SwitchKinds
    <3> QED  BY <2>1, <3>1, <1>q DEF RestSound
  <2>2. CASE u # t
    <3>1. request'[u].kind # "none"  BY DEF MoveKinds, SwitchKinds
    <3>2. RestSound(request[u])  BY <3>1, <1>u, <2>2 DEF GroupInv, RestOK
    <3>3. /\ request'[u].step = request[u].step /\ request'[u].todo = request[u].todo
          /\ request'[u].at = request[u].at /\ request'[u].wanted = request[u].wanted
      BY <3>1, <1>u, <2>2 DEF Asks
    <3> QED  BY <3>1, <3>2, <3>3, <1>u, <2>2 DEF RestSound
  <2> QED  BY <2>1, <2>2
<1>8. AwayOK'
  <2> SUFFICES ASSUME NEW u \in Tabs PROVE AwaySound(request[u])'  BY DEF AwayOK
  <2>1. CASE u = t  BY <2>1, <1>q DEF AwaySound
  <2>2. CASE u # t /\ request'[u].kind # "none"
    <3>1. request'[u].shaken  BY <2>2 DEF Asks
    <3> QED  BY <3>1 DEF AwaySound
  <2>3. CASE request'[u].kind = "none"  BY <2>3 DEF AwaySound, AwayKinds
  <2> QED  BY <2>1, <2>2, <2>3
<1>9. ShakenOK'
  <2> SUFFICES ASSUME NEW u \in Tabs, NEW v \in Tabs, u # v, request'[u].kind # "none", request'[v].kind # "none"
               PROVE  request'[u].shaken
    BY DEF ShakenOK
  <2>1. CASE u = t
    <3>1. request[v].kind # "none"  BY <2>1, <1>u
    <3> QED  BY <2>1, <3>1, <1>q
  <2>2. CASE u # t  BY <2>2, <1>u DEF Asks
  <2> QED  BY <2>1, <2>2
<1>10. SettledOK'
  <2> SUFFICES ASSUME NEW x \in settled'
               PROVE  /\ PutAway(x[1], x[2], x[3])' /\ sort'[x[2]] # "none"
                      /\ \A u \in Tabs : ~Brings(request'[u], x[2])
    BY DEF SettledOK
  <2>1. x[1] \in AwayKinds /\ x[2] \in Groups /\ x[3] \in GroupCourses  BY DEF GroupInv, GroupsTypeOK
  <2>2. PutAway(x[1], x[2], x[3]) /\ sort[x[2]] # "none" /\ \A u \in Tabs : ~Brings(request[u], x[2])
    BY DEF GroupInv, SettledOK
  <2>3. sort'[x[2]] = sort[x[2]]  BY <2>1, <2>2
  <2>4. PutAway(x[1], x[2], x[3])'  BY <2>1, <2>2, <2>3 DEF PutAway, Status
  <2>5. ASSUME NEW u \in Tabs PROVE ~Brings(request'[u], x[2])
    <3>1. CASE u = t  BY <3>1, <1>q
    <3>2. CASE u # t /\ request'[u].kind # "none"  BY <3>2, <1>u, <2>2 DEF Brings
    <3>3. CASE request'[u].kind = "none"  BY <3>3 DEF Brings
    <3> QED  BY <3>1, <3>2, <3>3
  <2> QED  BY <2>2, <2>3, <2>4, <2>5
<1>11. OutcomeOK'  BY DEF GroupInv, OutcomeOK, Kept, Status
<1> QED  BY <1>1, <1>2, <1>3, <1>4, <1>5, <1>6, <1>7, <1>8, <1>9, <1>10, <1>11 DEF GroupInv

\* What a request is when it is asked.
LEMMA AskedIs ==
  ASSUME NEW kind \in SaveKinds \cup MoveKinds \cup SwitchKinds, NEW g \in Groups, NEW c \in GroupCourses
  PROVE  /\ Asked(kind, g, c) \in Requests
         /\ Asked(kind, g, c).kind = kind /\ Asked(kind, g, c).group = g /\ Asked(kind, g, c).at = c
         /\ Asked(kind, g, c).step = "first" /\ Asked(kind, g, c).todo = {} /\ Asked(kind, g, c).saved = {}
         /\ Asked(kind, g, c).failed = {} /\ Asked(kind, g, c).wanted = {c}
         /\ Asked(kind, g, c).shaken <=> \E t \in Tabs : request[t].kind # "none"
<1>1. (\E t \in Tabs : request[t].kind # "none") \in BOOLEAN  OBVIOUS
<1> QED  BY <1>1 DEF Asked, Requests

LEMMA AskSave ==
  ASSUME GroupsAssumption, GroupInv, NEW t \in Tabs, request[t] = Waiting, NEW g \in Groups, NEW kind \in SaveKinds,
         sort[g] = "none", sort' = [sort EXCEPT ![g] = kind],
         request' = [Overlapped(t) EXCEPT ![t] = [Asked(kind, g, 1) EXCEPT !.step = "save", !.todo = GroupCourses]],
         item' = item, rule' = rule, said' = said, settled' = settled
  PROVE  GroupInv'
<1>1. 1 \in GroupCourses  BY DEF GroupsAssumption, GroupCourses
<1>2. PICK a : a = Asked(kind, g, 1)  OBVIOUS
<1>3. PICK q : q = [a EXCEPT !.step = "save", !.todo = GroupCourses]  OBVIOUS
<1>4. /\ a \in Requests /\ a.kind = kind /\ a.group = g /\ a.saved = {} /\ a.failed = {}
      /\ a.shaken <=> \E u \in Tabs : request[u].kind # "none"
  BY <1>1, <1>2, AskedIs
<1>5. /\ q \in Requests /\ q.kind = a.kind /\ q.group = a.group /\ q.saved = a.saved /\ q.failed = a.failed
      /\ q.shaken = a.shaken /\ q.step = "save" /\ q.todo = GroupCourses
  BY <1>3, <1>4 DEF Requests
<1>6. Asks(t, q)  BY <1>2, <1>3, OverlappedAsks
<1>7. sort' \in [Groups -> {"none"} \cup SaveKinds] /\ sort'[g] = kind /\ \A h \in Groups : h # g => sort'[h] = sort[h]
  BY DEF GroupInv, GroupsTypeOK
<1>8. said[g].told = "none"  BY DEF GroupInv, SaidOK
<1>9. \A c \in GroupCourses : ~Kept(g, c)
  <2> SUFFICES ASSUME NEW c \in GroupCourses PROVE ~Kept(g, c)  OBVIOUS
  <2> QED  BY DEF GroupInv, StoredOK, Kept, SaveKinds
<1>10. SaveSound(q)'
  <2>1. \A c \in GroupCourses : ~Kept(g, c)'  BY <1>9 DEF Kept, Status
  <2> QED  BY <1>4, <1>5, <1>7, <1>8, <2>1 DEF SaveSound
<1>11. \A u \in Tabs : ~Saves(request[u], g)
  BY DEF GroupInv, AskedOK, Saves, SaveKinds
<1>12. \A x \in settled : ~Brings(q, x[2])
  BY <1>4, <1>5 DEF GroupInv, SettledOK, Brings
<1>13. kind # "none"  BY DEF SaveKinds
<1>14. /\ q.shaken <=> \E u \in Tabs : request[u].kind # "none"
       /\ \A h \in Groups : sort[h] # "none" => sort'[h] = sort[h]
       /\ sort'[q.group] # "none" /\ q.step \notin {"list", "rest"} /\ settled' \subseteq settled
       /\ \A x \in settled' : ~Brings(q, x[2])
       /\ \A u \in Tabs : q.kind \in SaveKinds => ~Saves(request[u], q.group)
       /\ q.kind \in SaveKinds
  BY <1>4, <1>5, <1>7, <1>11, <1>12, <1>13
<1> QED  BY <1>5, <1>6, <1>7, <1>10, <1>14, AskKeeps

LEMMA AskRest ==
  ASSUME GroupInv, NEW t \in Tabs, request[t] = Waiting, NEW g \in Groups, NEW c \in GroupCourses,
         NEW kind \in MoveKinds \cup SwitchKinds, NEW q \in Requests, Asks(t, q),
         q.kind = kind, q.group = g, q.at = c, q.step = "first", q.todo = {}, q.wanted = {c},
         q.shaken <=> \E u \in Tabs : request[u].kind # "none",
         Kept(g, c), kind = "withdraw" => sort[g] = "one_offs", kind \in SwitchKinds => rule[g][c] # "none",
         sort' = sort, item' = item, rule' = rule, said' = said, settled' = Reopened(kind, g)
  PROVE  GroupInv'
<1>1. sort[g] # "none"  BY DEF GroupInv, StoredOK, Kept, SaveKinds
<1>2. RestSound(q)'  BY DEF RestSound
<1>3. settled' \subseteq settled  BY DEF Reopened
<1>4. \A x \in settled' : ~Brings(q, x[2])  BY DEF Reopened, Brings, MoveKinds, SwitchKinds
<1>5. q.kind \notin SaveKinds  BY DEF SaveKinds, MoveKinds, SwitchKinds
<1>6. sort' \in [Groups -> {"none"} \cup SaveKinds]  BY DEF GroupInv, GroupsTypeOK
<1>7. /\ \A h \in Groups : sort[h] # "none" => sort'[h] = sort[h]
      /\ sort'[q.group] # "none" /\ q.step \notin {"list", "rest"}
      /\ \A u \in Tabs : q.kind \in SaveKinds => ~Saves(request[u], q.group)
  BY <1>1, <1>5
<1> QED  BY <1>2, <1>3, <1>4, <1>5, <1>6, <1>7, AskKeeps

LEMMA AskStep ==
  ASSUME GroupsAssumption, GroupInv, NEW t \in Tabs, Ask(t) PROVE GroupInv'
<1>1. request[t] = Waiting /\ item' = item /\ rule' = rule /\ said' = said  BY DEF Ask
<1>2. CASE \E g \in Groups, kind \in {"one_offs", "rules"} :
            /\ sort[g] = "none" /\ sort' = [sort EXCEPT ![g] = kind]
            /\ request' = [Overlapped(t) EXCEPT ![t] = [Asked(kind, g, 1) EXCEPT !.step = "save", !.todo = GroupCourses]]
            /\ UNCHANGED settled
  <2>1. PICK g \in Groups, kind \in SaveKinds :
            /\ sort[g] = "none" /\ sort' = [sort EXCEPT ![g] = kind]
            /\ request' = [Overlapped(t) EXCEPT ![t] = [Asked(kind, g, 1) EXCEPT !.step = "save", !.todo = GroupCourses]]
            /\ UNCHANGED settled
    BY <1>2 DEF SaveKinds
  <2> QED  BY <1>1, <2>1, AskSave
<1>3. CASE \E g \in Groups, c \in GroupCourses, kind \in {"skip", "unskip", "withdraw"} :
            /\ Status(g, c) = MovesFrom[kind] /\ (kind = "withdraw" => sort[g] = "one_offs")
            /\ request' = [Overlapped(t) EXCEPT ![t] = [Asked(kind, g, c) EXCEPT !.was = Status(g, c)]]
            /\ settled' = Reopened(kind, g) /\ UNCHANGED sort
  <2>1. PICK g \in Groups, c \in GroupCourses, kind \in MoveKinds :
            /\ Status(g, c) = MovesFrom[kind] /\ (kind = "withdraw" => sort[g] = "one_offs")
            /\ request' = [Overlapped(t) EXCEPT ![t] = [Asked(kind, g, c) EXCEPT !.was = Status(g, c)]]
            /\ settled' = Reopened(kind, g) /\ sort' = sort
    BY <1>3 DEF MoveKinds
  <2>2. PICK a, s : a = Asked(kind, g, c) /\ s = Status(g, c)  OBVIOUS
  <2>3. PICK q : q = [a EXCEPT !.was = s]  OBVIOUS
  <2>4. /\ a \in Requests /\ a.kind = kind /\ a.group = g /\ a.at = c /\ a.step = "first" /\ a.todo = {} /\ a.wanted = {c}
        /\ a.shaken <=> \E u \in Tabs : request[u].kind # "none"
    BY <2>2, AskedIs
  <2>5. s \in Statuses  BY <2>2, RowIs DEF Status
  <2>6. /\ q \in Requests /\ q.kind = a.kind /\ q.group = a.group /\ q.at = a.at /\ q.step = a.step
        /\ q.todo = a.todo /\ q.wanted = a.wanted /\ q.shaken = a.shaken
    BY <2>3, <2>4, <2>5 DEF Requests
  <2>7. Asks(t, q)  BY <2>1, <2>2, <2>3, OverlappedAsks
  <2>8. Kept(g, c)  BY <2>1 DEF Kept, MovesFrom, MoveKinds
  <2>9. kind \notin SwitchKinds  BY DEF SwitchKinds, MoveKinds
  <2> QED  BY <1>1, <2>1, <2>4, <2>6, <2>7, <2>8, <2>9, AskRest
<1>4. CASE \E g \in Groups, c \in GroupCourses, kind \in {"on", "off"} :
            /\ rule[g][c] = IF kind = "on" THEN "off" ELSE "on"
            /\ request' = [Overlapped(t) EXCEPT ![t] = [Asked(kind, g, c) EXCEPT !.fresh = {c}]]
            /\ settled' = Reopened(kind, g) /\ UNCHANGED sort
  <2>1. PICK g \in Groups, c \in GroupCourses, kind \in SwitchKinds :
            /\ rule[g][c] = IF kind = "on" THEN "off" ELSE "on"
            /\ request' = [Overlapped(t) EXCEPT ![t] = [Asked(kind, g, c) EXCEPT !.fresh = {c}]]
            /\ settled' = Reopened(kind, g) /\ sort' = sort
    BY <1>4 DEF SwitchKinds
  <2>2. PICK a : a = Asked(kind, g, c)  OBVIOUS
  <2>3. PICK q : q = [a EXCEPT !.fresh = {c}]  OBVIOUS
  <2>4. /\ a \in Requests /\ a.kind = kind /\ a.group = g /\ a.at = c /\ a.step = "first" /\ a.todo = {} /\ a.wanted = {c}
        /\ a.shaken <=> \E u \in Tabs : request[u].kind # "none"
    BY <2>2, AskedIs
  <2>5. /\ q \in Requests /\ q.kind = a.kind /\ q.group = a.group /\ q.at = a.at /\ q.step = a.step
        /\ q.todo = a.todo /\ q.wanted = a.wanted /\ q.shaken = a.shaken
    BY <2>3, <2>4 DEF Requests
  <2>6. Asks(t, q)  BY <2>1, <2>2, <2>3, OverlappedAsks
  <2>7. rule[g][c] # "none" /\ Kept(g, c)  BY <2>1 DEF Kept
  <2>8. kind # "withdraw"  BY DEF SwitchKinds
  <2> QED  BY <1>1, <2>1, <2>4, <2>5, <2>6, <2>7, <2>8, AskRest
<1> QED  BY <1>2, <1>3, <1>4 DEF Ask

\* A save's answer: what it says is what is stored.
LEMMA AnswerSave ==
  ASSUME GroupInv, NEW t \in Tabs, NEW r \in Requests, r = request[t], r.step = "save", r.todo = {}, r.kind # "none",
         Becomes(t, Waiting), sort' = sort, item' = item, rule' = rule, settled' = settled,
         said' = [said EXCEPT ![r.group] = [told |-> IF r.saved = {} THEN "nothing" ELSE "saved", failed |-> r.failed]]
  PROVE  GroupInv'
<1>1. request \in [Tabs -> {Waiting} \cup Requests]  BY DEF GroupInv, GroupsTypeOK
<1>2. request'[t] = Waiting /\ request' \in [Tabs -> {Waiting} \cup Requests] /\ \A u \in Tabs : u # t => request'[u] = request[u]
  BY <1>1 DEF Becomes
<1>w. Waiting.kind = "none"  BY DEF Waiting
<1>n. \A u \in Tabs : request'[u].kind # "none" => u # t /\ request'[u] = request[u]  BY <1>2, <1>w
<1>3. r.kind \in SaveKinds
  <2>1. r.kind \notin MoveKinds \cup SwitchKinds  BY DEF GroupInv, RestOK, RestSound
  <2> QED  BY <2>1 DEF Requests
<1>4. PICK g \in Groups : g = r.group  BY DEF Requests
<1>5. SaveSound(r)  BY <1>3 DEF GroupInv, SavesOK
<1>6. /\ said' \in [Groups -> [told : {"none", "nothing", "saved"}, failed : SUBSET GroupCourses]]
      /\ said'[g].told = (IF r.saved = {} THEN "nothing" ELSE "saved") /\ said'[g].failed = r.failed
      /\ \A h \in Groups : h # g => said'[h] = said[h]
  <2>1. PICK a : a = [told |-> IF r.saved = {} THEN "nothing" ELSE "saved", failed |-> r.failed]  OBVIOUS
  <2>2. a \in [told : {"none", "nothing", "saved"}, failed : SUBSET GroupCourses]  BY <2>1 DEF Requests
  <2>3. said \in [Groups -> [told : {"none", "nothing", "saved"}, failed : SUBSET GroupCourses]]  BY DEF GroupInv, GroupsTypeOK
  <2>4. said' = [said EXCEPT ![g] = a]  BY <1>4, <2>1
  <2>5. said'[g] = a /\ \A h \in Groups : h # g => said'[h] = said[h]  BY <2>3, <2>4
  <2>6. a.told = (IF r.saved = {} THEN "nothing" ELSE "saved") /\ a.failed = r.failed  BY <2>1
  <2>7. said' \in [Groups -> [told : {"none", "nothing", "saved"}, failed : SUBSET GroupCourses]]  BY <2>2, <2>3, <2>4
  <2> QED  BY <2>5, <2>6, <2>7
<1>7. GroupsTypeOK'  BY <1>2, <1>6 DEF GroupInv, GroupsTypeOK
<1>8. StoredOK'  BY DEF GroupInv, StoredOK, Status
<1>9. SaidOK'
  <2>1. sort[g] # "none"  BY <1>4 DEF GroupInv, AskedOK
  <2> QED  BY <2>1, <1>6 DEF GroupInv, SaidOK
<1>10. AskedOK'  BY <1>n DEF GroupInv, AskedOK
<1>k. \A h, c : Kept(h, c)' <=> Kept(h, c)  BY DEF Kept, Status
<1>11. SavesOK'
  <2> SUFFICES ASSUME NEW u \in Tabs, request'[u].kind \in SaveKinds PROVE SaveSound(request[u])'  BY DEF SavesOK
  <2>1. u # t /\ request'[u] = request[u]  BY <1>n DEF SaveKinds
  <2>2. SaveSound(request[u])  BY <2>1 DEF GroupInv, SavesOK
  <2>3. request[u] \in Requests  BY <1>1, <1>w, <2>1 DEF SaveKinds
  <2>4. request[u].group \in Groups  BY <2>3 DEF Requests
  <2>5. request[u].group # g  BY <1>3, <1>4, <2>1, <2>4 DEF GroupInv, SaveAlone, Saves
  <2> QED  BY <2>1, <2>2, <2>4, <2>5, <1>6, <1>k DEF SaveSound
<1>12. SaveAlone'  BY <1>n DEF GroupInv, SaveAlone, Saves, SaveKinds
<1>13. RestOK'
  <2> SUFFICES ASSUME NEW u \in Tabs, request'[u].kind \in MoveKinds \cup SwitchKinds PROVE RestSound(request[u])'  BY DEF RestOK
  <2>1. u # t /\ request'[u] = request[u]  BY <1>n DEF MoveKinds, SwitchKinds
  <2>2. RestSound(request[u])  BY <2>1 DEF GroupInv, RestOK
  <2> QED  BY <2>1, <2>2 DEF RestSound
<1>p. \A k, h, c : PutAway(k, h, c)' <=> PutAway(k, h, c)  BY DEF PutAway, Status
<1>14. AwayOK'
  <2> SUFFICES ASSUME NEW u \in Tabs PROVE AwaySound(request[u])'  BY DEF AwayOK
  <2>1. CASE u = t  BY <2>1, <1>2, <1>w DEF AwaySound, AwayKinds
  <2>2. CASE u # t
    <3>1. AwaySound(request[u]) /\ request'[u] = request[u]  BY <2>2, <1>2 DEF GroupInv, AwayOK
    <3> QED  BY <3>1, <1>p DEF AwaySound
  <2> QED  BY <2>1, <2>2
<1>15. ShakenOK'  BY <1>n DEF GroupInv, ShakenOK
<1>16. SettledOK'
  <2>1. \A u \in Tabs : \A h : Brings(request'[u], h) => Brings(request[u], h)  BY <1>n DEF Brings
  <2> QED  BY <2>1, <1>p DEF GroupInv, SettledOK
<1>17. OutcomeOK'
  <2> SUFFICES ASSUME NEW h \in Groups
               PROVE  /\ said'[h].told = "nothing" => \A c \in GroupCourses : ~Kept(h, c)
                      /\ said'[h].told = "saved" => /\ \E c \in GroupCourses : Kept(h, c)
                                                    /\ \A c \in GroupCourses : ~Kept(h, c) => c \in said'[h].failed
    BY <1>k DEF OutcomeOK
  <2>1. CASE h # g  BY <2>1, <1>6 DEF GroupInv, OutcomeOK
  <2>2. CASE h = g
    <3>1. \A c \in GroupCourses : c \in r.saved <=> Kept(g, c)  BY <1>4, <1>5 DEF SaveSound
    <3>2. GroupCourses \subseteq r.saved \cup r.failed  BY <1>5 DEF SaveSound
    <3>3. r.saved \subseteq GroupCourses  BY DEF Requests
    <3> QED  BY <2>2, <1>6, <3>1, <3>2, <3>3
  <2> QED  BY <2>1, <2>2
<1> QED  BY <1>7, <1>8, <1>9, <1>10, <1>11, <1>12, <1>13, <1>14, <1>15, <1>16, <1>17 DEF GroupInv

\* Any other answer: what it put away stays away, and nobody is bringing it back.
LEMMA AnswerRest ==
  ASSUME GroupInv, NEW t \in Tabs, NEW r \in Requests, r = request[t], r.step = "rest", r.todo = {}, r.kind # "none",
         Becomes(t, Waiting), sort' = sort, item' = item, rule' = rule, said' = said,
         settled' = IF r.failed = {} /\ ~r.shaken /\ r.kind \in {"skip", "withdraw", "off"}
                    THEN settled \cup {<<r.kind, r.group, c>> : c \in r.wanted} ELSE settled
  PROVE  GroupInv'
<1>1. request \in [Tabs -> {Waiting} \cup Requests]  BY DEF GroupInv, GroupsTypeOK
<1>2. request'[t] = Waiting /\ request' \in [Tabs -> {Waiting} \cup Requests] /\ \A u \in Tabs : u # t => request'[u] = request[u]
  BY <1>1 DEF Becomes
<1>w. Waiting.kind = "none"  BY DEF Waiting
<1>n. \A u \in Tabs : request'[u].kind # "none" => u # t /\ request'[u] = request[u]  BY <1>2, <1>w
<1>g. r.group \in Groups /\ r.wanted \subseteq GroupCourses  BY DEF Requests
<1>3. \A x \in settled' : x \in settled \/ (/\ ~r.shaken /\ r.failed = {} /\ r.kind \in AwayKinds
                                            /\ \E c \in r.wanted : x = <<r.kind, r.group, c>>)
  BY DEF AwayKinds
<1>4. GroupsTypeOK'
  <2>1. settled' \subseteq AwayKinds \X Groups \X GroupCourses  BY <1>3, <1>g DEF GroupInv, GroupsTypeOK
  <2> QED  BY <1>2, <2>1 DEF GroupInv, GroupsTypeOK
<1>5. StoredOK' /\ SaidOK'  BY DEF GroupInv, StoredOK, SaidOK, Status
<1>6. AskedOK'  BY <1>n DEF GroupInv, AskedOK
<1>k. \A h, c : Kept(h, c)' <=> Kept(h, c)  BY DEF Kept, Status
<1>p. \A k, h, c : PutAway(k, h, c)' <=> PutAway(k, h, c)  BY DEF PutAway, Status
<1>7. SavesOK'
  <2> SUFFICES ASSUME NEW u \in Tabs, request'[u].kind \in SaveKinds PROVE SaveSound(request[u])'  BY DEF SavesOK
  <2>1. u # t /\ request'[u] = request[u]  BY <1>n DEF SaveKinds
  <2>2. SaveSound(request[u])  BY <2>1 DEF GroupInv, SavesOK
  <2> QED  BY <2>1, <2>2, <1>k DEF SaveSound
<1>8. SaveAlone'  BY <1>n DEF GroupInv, SaveAlone, Saves, SaveKinds
<1>9. RestOK'
  <2> SUFFICES ASSUME NEW u \in Tabs, request'[u].kind \in MoveKinds \cup SwitchKinds PROVE RestSound(request[u])'  BY DEF RestOK
  <2>1. u # t /\ request'[u] = request[u]  BY <1>n DEF MoveKinds, SwitchKinds
  <2>2. RestSound(request[u])  BY <2>1 DEF GroupInv, RestOK
  <2> QED  BY <2>1, <2>2 DEF RestSound
<1>10. AwayOK'
  <2> SUFFICES ASSUME NEW u \in Tabs PROVE AwaySound(request[u])'  BY DEF AwayOK
  <2>1. CASE u = t  BY <2>1, <1>2, <1>w DEF AwaySound, AwayKinds
  <2>2. CASE u # t
    <3>1. AwaySound(request[u]) /\ request'[u] = request[u]  BY <2>2, <1>2 DEF GroupInv, AwayOK
    <3> QED  BY <3>1, <1>p DEF AwaySound
  <2> QED  BY <2>1, <2>2
<1>11. ShakenOK'  BY <1>n DEF GroupInv, ShakenOK
<1>12. SettledOK'
  <2>1. \A u \in Tabs : \A h : Brings(request'[u], h) => Brings(request[u], h)  BY <1>n DEF Brings
  <2> SUFFICES ASSUME NEW x \in settled'
               PROVE  PutAway(x[1], x[2], x[3]) /\ sort[x[2]] # "none" /\ \A u \in Tabs : ~Brings(request'[u], x[2])
    BY <1>p DEF SettledOK
  <2>2. CASE x \in settled  BY <2>1, <2>2 DEF GroupInv, SettledOK
  <2>3. CASE x \notin settled
    <3>1. PICK c \in r.wanted : /\ ~r.shaken /\ r.failed = {} /\ r.kind \in AwayKinds /\ x = <<r.kind, r.group, c>>
      BY <2>3, <1>3
    <3>2. x[1] = r.kind /\ x[2] = r.group /\ x[3] = c  BY <3>1
    <3>3. PutAway(r.kind, r.group, c)  BY <3>1 DEF GroupInv, AwayOK, AwaySound
    <3>4. sort[r.group] # "none"  BY DEF GroupInv, AskedOK
    <3>5. \A u \in Tabs : request'[u].kind = "none"  BY <1>n, <3>1 DEF GroupInv, ShakenOK
    <3> QED  BY <3>2, <3>3, <3>4, <3>5 DEF Brings
  <2> QED  BY <2>2, <2>3
<1>13. OutcomeOK'  BY <1>k DEF GroupInv, OutcomeOK
<1> QED  BY <1>4, <1>5, <1>6, <1>7, <1>8, <1>9, <1>10, <1>11, <1>12, <1>13 DEF GroupInv

LEMMA AnswerStep ==
  ASSUME GroupInv, NEW t \in Tabs, Answer(t) PROVE GroupInv'
<1>1. PICK r : r = request[t]  OBVIOUS
<1>2. r.kind # "none" /\ r.step \in {"save", "rest"} /\ r.todo = {} /\ Becomes(t, Waiting)  BY <1>1 DEF Answer
<1>3. r \in Requests  BY <1>1, <1>2, RequestIs
<1>4. sort' = sort /\ item' = item /\ rule' = rule  BY DEF Answer
<1>5. CASE r.step = "save"
  <2>1. /\ settled' = settled
        /\ said' = [said EXCEPT ![r.group] = [told |-> IF r.saved = {} THEN "nothing" ELSE "saved", failed |-> r.failed]]
    BY <1>1, <1>5 DEF Answer
  <2> QED  BY <1>1, <1>2, <1>3, <1>4, <1>5, <2>1, AnswerSave
<1>6. CASE r.step = "rest"
  <2>1. /\ said' = said
        /\ settled' = IF r.failed = {} /\ ~r.shaken /\ r.kind \in {"skip", "withdraw", "off"}
                      THEN settled \cup {<<r.kind, r.group, c>> : c \in r.wanted} ELSE settled
    BY <1>1, <1>6 DEF Answer
  <2> QED  BY <1>1, <1>2, <1>3, <1>4, <1>6, <2>1, AnswerRest
<1> QED  BY <1>2, <1>5, <1>6

-----------------------------------------------------------------------------
(* The job, the watcher, the tick, the clock.                              *)

LEMMA NatureStep ==
  ASSUME GroupInv, Nature, request' = request, sort' = sort, said' = said, settled' = settled
  PROVE  GroupInv'
<1>1. \A g \in Groups, c \in GroupCourses : Harmless(g, c)  BY DEF Nature
<1>k. \A g \in Groups, c \in GroupCourses : Kept(g, c)' <=> Kept(g, c)  BY <1>1 DEF Harmless, Grows, Bare
<1>r. \A u \in Tabs : request[u].kind # "none" => request[u] \in Requests /\ request[u].group \in Groups
                                                 /\ request[u].at \in GroupCourses /\ request[u].todo \subseteq GroupCourses
                                                 /\ request[u].wanted \subseteq GroupCourses
  BY KindsOf DEF GroupInv, GroupsTypeOK, Requests
<1>2. GroupsTypeOK'  BY DEF GroupInv, GroupsTypeOK, Nature, RowsTyped
<1>3. StoredOK'  BY <1>1 DEF Harmless, StoredHere, StoredOK, Status
<1>4. SaidOK' /\ AskedOK' /\ SaveAlone' /\ ShakenOK'  BY DEF GroupInv, SaidOK, AskedOK, SaveAlone, ShakenOK
<1>5. SavesOK'
  <2> SUFFICES ASSUME NEW u \in Tabs, request[u].kind \in SaveKinds PROVE SaveSound(request[u])'  BY DEF SavesOK
  <2>1. SaveSound(request[u]) /\ request[u].group \in Groups  BY <1>r DEF GroupInv, SavesOK, SaveKinds
  <2>2. PICK r : r = request[u]  OBVIOUS
  <2>3. SaveSound(r)'  BY <2>1, <2>2, <1>k DEF SaveSound
  <2> QED  BY <2>2, <2>3 DEF SaveSound, Kept, Status
<1>6. RestOK'
  <2> SUFFICES ASSUME NEW u \in Tabs, request[u].kind \in MoveKinds \cup SwitchKinds PROVE RestSound(request[u])'  BY DEF RestOK
  <2>1. RestSound(request[u])  BY DEF GroupInv, RestOK
  <2>2. request[u].group \in Groups /\ request[u].at \in GroupCourses /\ request[u].todo \subseteq GroupCourses
    BY <1>r DEF MoveKinds, SwitchKinds
  <2>3. \A c \in GroupCourses : Listed(request[u].group, c)  BY <2>2, <1>1 DEF Harmless
  <2> QED  BY <2>1, <2>2, <2>3 DEF RestSound, Listed
<1>7. AwayOK'
  <2> SUFFICES ASSUME NEW u \in Tabs PROVE AwaySound(request[u])'  BY DEF AwayOK
  <2>1. PICK r : r = request[u]  OBVIOUS
  <2>2. AwaySound(r)  BY <2>1 DEF GroupInv, AwayOK
  <2>3. AwaySound(r)'
    <3> SUFFICES ASSUME r.kind \in AwayKinds, ~r.shaken, r.step \in {"list", "rest"}, NEW c \in r.wanted \ (r.todo \cup r.failed)
                 PROVE  PutAway(r.kind, r.group, c)'
      BY DEF AwaySound
    <3>1. PutAway(r.kind, r.group, c)  BY <2>2 DEF AwaySound
    <3>2. r.group \in Groups /\ c \in GroupCourses  BY <1>r, <2>1 DEF AwayKinds
    <3>3. Calm(r.group, c)  BY <3>2, <1>1 DEF Harmless
    <3> QED  BY <3>1, <3>3 DEF Calm
  <2>4. request'[u] = r /\ request[u] = r  BY <2>1
  <2> QED  BY <2>3, <2>4 DEF AwaySound
<1>8. SettledOK'
  <2> SUFFICES ASSUME NEW x \in settled
               PROVE  PutAway(x[1], x[2], x[3])' /\ sort[x[2]] # "none" /\ \A u \in Tabs : ~Brings(request[u], x[2])
    BY DEF SettledOK
  <2>1. x[1] \in AwayKinds /\ x[2] \in Groups /\ x[3] \in GroupCourses  BY DEF GroupInv, GroupsTypeOK
  <2>2. PutAway(x[1], x[2], x[3]) /\ sort[x[2]] # "none" /\ \A u \in Tabs : ~Brings(request[u], x[2])
    BY DEF GroupInv, SettledOK
  <2>3. Calm(x[2], x[3])  BY <2>1, <1>1 DEF Harmless
  <2>4. PutAway(x[1], x[2], x[3])'  BY <2>1, <2>2, <2>3 DEF Calm
  <2> QED  BY <2>2, <2>4
<1>9. OutcomeOK'
  <2> SUFFICES ASSUME NEW g \in Groups
               PROVE  /\ said[g].told = "nothing" => \A c \in GroupCourses : ~Kept(g, c)'
                      /\ said[g].told = "saved" => /\ \E c \in GroupCourses : Kept(g, c)'
                                                   /\ \A c \in GroupCourses : ~Kept(g, c)' => c \in said[g].failed
    BY DEF OutcomeOK
  <2> QED  BY <1>k DEF GroupInv, OutcomeOK
<1> QED  BY <1>2, <1>3, <1>4, <1>5, <1>6, <1>7, <1>8, <1>9 DEF GroupInv

LEMMA UnleaseStep ==
  ASSUME GroupInv, NEW c \in GroupCourses, Unlease(c) PROVE GroupInv'
<1>1. sort' = sort /\ rule' = rule /\ request' = request /\ said' = said /\ settled' = settled  BY DEF Unlease
<1>2. CASE item' = item  BY <1>1, <1>2, NothingStored, NatureStep
<1>3. CASE item' # item
  <2>1. PICK g \in Groups : Status(g, c) = "pending" /\ Put(g, c, [Absent EXCEPT !.status = "booked"])
    BY <1>3 DEF Unlease, Holders
  <2> QED  BY <1>1, <2>1, BookedHarmless, NatureStep
<1> QED  BY <1>2, <1>3

LEMMA TickStep ==
  ASSUME GroupInv, NEW g \in Groups, NEW c \in GroupCourses, Tick(g, c) PROVE GroupInv'
<1>1. sort' = sort /\ rule' = rule /\ request' = request /\ said' = said /\ settled' = settled  BY DEF Tick
<1>2. rule[g][c] # "none" /\ (Put(g, c, Materialized(g, c)) \/ Put(g, c, Dropped(g, c)))  BY DEF Tick
<1> QED  BY <1>1, <1>2, MadeHarmless, NatureStep

LEMMA QuietStep ==
  ASSUME GroupInv, UNCHANGED <<sort, item, rule, request, said, settled>> PROVE GroupInv'
BY NothingStored, NatureStep

-----------------------------------------------------------------------------
(* The invariant.                                                          *)

LEMMA GroupsStart == ASSUME GroupsAssumption, GroupsInit PROVE GroupInv
<1>1. GroupsTypeOK
  <2>1. sort \in [Groups -> {"none"} \cup SaveKinds]  BY DEF GroupsInit, SaveKinds
  <2>2. [Absent EXCEPT !.status = "pending"] \in ItemStates /\ Absent \in ItemStates
    BY DEF ItemStates, Statuses, Absent
  <2>3. item \in [Groups -> [GroupCourses -> ItemStates]]  BY <2>2 DEF GroupsInit
  <2>4. rule \in [Groups -> [GroupCourses -> {"none", "on", "off"}]]  BY DEF GroupsInit
  <2>5. request \in [Tabs -> {Waiting} \cup Requests]  BY DEF GroupsInit
  <2>6. said \in [Groups -> [told : {"none", "nothing", "saved"}, failed : SUBSET GroupCourses]]  BY DEF GroupsInit
  <2>7. settled \subseteq AwayKinds \X Groups \X GroupCourses  BY DEF GroupsInit
  <2> QED  BY <2>1, <2>3, <2>4, <2>5, <2>6, <2>7 DEF GroupsTypeOK
<1>2. \A t \in Tabs : request[t].kind = "none"  BY DEF GroupsInit, Waiting
<1>3. StoredOK  BY DEF GroupsInit, StoredOK, Status, Absent
<1>4. SaidOK /\ OutcomeOK  BY DEF GroupsInit, SaidOK, OutcomeOK
<1>5. AskedOK /\ SavesOK /\ SaveAlone /\ RestOK /\ AwayOK /\ ShakenOK
  BY <1>2 DEF AskedOK, SavesOK, SaveAlone, Saves, RestOK, AwayOK, AwaySound, ShakenOK, SaveKinds, MoveKinds, SwitchKinds, AwayKinds
<1>6. SettledOK  BY DEF GroupsInit, SettledOK
<1> QED  BY <1>1, <1>3, <1>4, <1>5, <1>6 DEF GroupInv

\* Every group's requests stay sound, whatever happens between two of their store calls:
\* the types; a save knows exactly what it stored; a request nothing overlapped with has put
\* away each course it is done with; and nobody is bringing back what an answer put away.
THEOREM GroupsInvariant == GroupsSpec => []GroupInv
<1>a. GroupsAssumption  BY GroupsAssumption
<1>1. GroupsInit => GroupInv  BY <1>a, GroupsStart
<1>2. GroupInv /\ [GroupsNext]_groupVars => GroupInv'
  <2> SUFFICES ASSUME GroupInv, [GroupsNext]_groupVars PROVE GroupInv'  OBVIOUS
  <2>1. CASE UNCHANGED groupVars  BY <2>1, QuietStep DEF groupVars
  <2>2. ASSUME NEW t \in Tabs,
               \/ Ask(t) \/ SaveOneOff(t) \/ SaveRule(t) \/ SaveRows(t) \/ MoveFirst(t) \/ ListRows(t)
               \/ MoveSibling(t) \/ SwitchFirst(t) \/ ListRules(t) \/ SwitchSibling(t) \/ Answer(t) \/ Dies(t)
        PROVE  GroupInv'
    BY <2>2, <1>a, AskStep, SaveOneOffStep, SaveRuleStep, SaveRowsStep, MoveFirstStep, ListRowsStep, MoveSiblingStep,
       SwitchFirstStep, ListRulesStep, SwitchSiblingStep, AnswerStep, DiesStep
  <2>3. ASSUME NEW c \in GroupCourses, Lease(c) \/ Closes(c) PROVE GroupInv'
    BY <2>3, QuietStep DEF Lease, Closes
  <2>4. ASSUME NEW c \in GroupCourses, Unlease(c) PROVE GroupInv'  BY <2>4, UnleaseStep
  <2>5. ASSUME NEW c \in GroupCourses, NEW g \in Groups, Tick(g, c) PROVE GroupInv'  BY <2>5, TickStep
  <2> QED  BY <2>1, <2>2, <2>3, <2>4, <2>5 DEF GroupsNext
<1> QED  BY <1>1, <1>2, PTL DEF GroupsSpec

\* PutAwayEverywhere (services.py _transition): what an answer without complaint put away
\* stays put away at every course it was put away at, until the user asks for it again, for
\* any number of courses, tabs and requests.
THEOREM StaysAway == GroupsSpec => []PutAwayEverywhere
<1>1. GroupInv => PutAwayEverywhere
  <2> SUFFICES ASSUME GroupInv, NEW x \in settled
               PROVE  IF x[1] = "off" THEN ~On(x[2], x[3]) ELSE Status(x[2], x[3]) \notin {"pending", "booked"}
    BY DEF PutAwayEverywhere
  <2>1. x[1] \in AwayKinds /\ PutAway(x[1], x[2], x[3])  BY DEF GroupInv, GroupsTypeOK, SettledOK
  <2> QED  BY <2>1 DEF PutAway, AwayKinds, On
<1> QED  BY <1>1, GroupsInvariant, PTL

\* SavedOrTold (group_services create_group_one_off, create_group_rule): a save that raises
\* stored nothing at any course, and one that does not raise named every course it left out.
THEOREM SavesTold == GroupsSpec => []SavedOrTold
<1>1. GroupInv => SavedOrTold
  <2> SUFFICES ASSUME GroupInv, NEW g \in Groups
               PROVE  LET saved == {c \in GroupCourses : rule[g][c] # "none" \/ Status(g, c) # "absent"} IN
                      /\ said[g].told = "nothing" => saved = {}
                      /\ said[g].told = "saved" => saved # {} /\ GroupCourses \ saved \subseteq said[g].failed
    BY DEF SavedOrTold
  <2> DEFINE saved == {c \in GroupCourses : rule[g][c] # "none" \/ Status(g, c) # "absent"}
  <2>1. \A c \in GroupCourses : c \in saved <=> Kept(g, c)  BY DEF Kept
  <2>2. saved \subseteq GroupCourses  OBVIOUS
  <2> HIDE DEF saved
  <2>3. /\ said[g].told = "nothing" => saved = {}
        /\ said[g].told = "saved" => saved # {} /\ GroupCourses \ saved \subseteq said[g].failed
    BY <2>1, <2>2 DEF GroupInv, OutcomeOK
  <2> QED  BY <2>3 DEF saved
<1> QED  BY <1>1, GroupsInvariant, PTL
=============================================================================
