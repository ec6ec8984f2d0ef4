-------------------------- MODULE AppLifecycle_proofs --------------------------
(***************************************************************************)
(* Proofs about AppLifecycle, for any applications, users, requests, tasks  *)
(* and limit, and any failures.  IInv is inductive: a request that answers  *)
(* holds the key it wrote until it shows it, a request that writes a        *)
(* feature saw a plan that has it, one that queues a deletion disabled the  *)
(* application, and a walk through the pages has given every AppUser up to  *)
(* the last id that stayed in it.                                           *)
(***************************************************************************)
EXTENDS AppLifecycle, FiniteSetTheorems, WellFoundedInduction, TLAPS

AppFields == {"disabled", "pinProtected", "requireAppMFA", "name", "accessTokenTTL"} \cup KeyKinds
Switches  == {"disabled", "pinProtected", "requireAppMFA"}

-------------------------------------------------------------------------------
\* What the updates of the repository do to a document of an application.
LEMMA SetKey ==
  ASSUME NEW doc \in AppDoc, NEW f \in KeyKinds, NEW v \in Key
  PROVE  /\ Set(doc, Only(f, v)) \in AppDoc
         /\ Set(doc, Only(f, v))[f] = v
         /\ \A g \in AppFields \ {f} : Set(doc, Only(f, v))[g] = doc[g]
BY DEF AppDoc, Set, Only, KeyKinds, AppFields

LEMMA SetSwitch ==
  ASSUME NEW doc \in AppDoc, NEW f \in Switches, NEW v \in BOOLEAN
  PROVE  /\ Set(doc, Only(f, v)) \in AppDoc
         /\ Set(doc, Only(f, v))[f] = v
         /\ \A g \in AppFields \ {f} : Set(doc, Only(f, v))[g] = doc[g]
BY DEF AppDoc, Set, Only, Switches, AppFields, KeyKinds

LEMMA SetSetting ==
  ASSUME NEW doc \in AppDoc, NEW f \in Settings, NEW v \in {0, 1}
  PROVE  /\ Set(doc, Only(f, v)) \in AppDoc
         /\ Set(doc, Only(f, v))[f] = v
         /\ \A g \in AppFields \ {f} : Set(doc, Only(f, v))[g] = doc[g]
BY DEF AppDoc, Set, Only, Settings, AppFields, KeyKinds

\* A new application.
LEMMA NewAppType ==
  ASSUME NEW a \in AppIds, NEW n \in 1..MaxKey
  PROVE  /\ NewApp(a, n) \in AppDoc
         /\ NewApp(a, n).apiKey = [n |-> n, prefix |-> FALSE]
         /\ NewApp(a, n).appSigningKey = [n |-> n, prefix |-> FALSE]
         /\ ~NewApp(a, n).pinProtected /\ ~NewApp(a, n).requireAppMFA
<1>1. [n |-> n, prefix |-> FALSE] \in Key
  BY DEF Key
<1> QED
  BY <1>1 DEF NewApp, NewKeys, AppDoc, Set, KeyKinds

\* One document is updated by its id.
LEMMA Updated ==
  ASSUME NEW docs, NEW id, NEW payload
  PROVE  /\ DOMAIN UpdatePartialByID(docs, id, payload) = DOMAIN docs
         /\ \A i \in DOMAIN docs : UpdatePartialByID(docs, id, payload)[i] =
              IF i = id THEN Set(docs[i], payload) ELSE docs[i]
BY DEF UpdatePartialByID

\* All applications are of the workspace, and none is of the workspace that the
\* deletion hands on, nor is an AppUser.
LEMMA AllMatch ==
  ASSUME apps \in [DOMAIN apps -> AppDoc]
  PROVE  Matching(apps, [workspaceID |-> Workspace]) = DOMAIN apps
BY DEF Matching, Match, AppDoc

LEMMA NoneHanded ==
  ASSUME ConstantsAssumption, NEW D, D = AppDoc \/ D = UserDoc, NEW docs, docs \in [DOMAIN docs -> D],
         NoDoc \notin DOMAIN docs, NEW filter, filter.workspaceID = HandedWorkspace,
         "workspaceID" \in DOMAIN filter
  PROVE  RemoveFromDatabase(docs, filter) = {docs}
<1>1. ASSUME NEW i \in DOMAIN docs PROVE ~Match(docs[i], filter)
  <2>1. docs[i].workspaceID = Workspace
    BY DEF AppDoc, UserDoc
  <2>2. docs[i]["workspaceID"] # filter["workspaceID"]
    BY <2>1 DEF HandedWorkspace, ConstantsAssumption
  <2> QED
    BY <2>2 DEF Match
<1>2. Matching(docs, filter) = {}
  BY <1>1 DEF Matching
<1>3. RemoveFromDatabase(docs, filter) = {[j \in DOMAIN docs \ {NoDoc} |-> docs[j]]}
  BY <1>2 DEF RemoveFromDatabase, FirstOf
<1>4. [j \in DOMAIN docs \ {NoDoc} |-> docs[j]] = docs
  OBVIOUS
<1> QED
  BY <1>3, <1>4

\* Collections stay functions to documents.
LEMMA CollectionCreated ==
  ASSUME NEW S, NEW docs, docs \in [DOMAIN docs -> S], NEW id, NEW doc \in S
  PROVE  CreateOne(docs, id, doc) \in [DOMAIN CreateOne(docs, id, doc) -> S]
BY DEF CreateOne

LEMMA CollectionUpdated ==
  ASSUME NEW S, NEW docs, docs \in [DOMAIN docs -> S], NEW id, NEW payload,
         \A doc \in S : Set(doc, payload) \in S
  PROVE  UpdatePartialByID(docs, id, payload) \in [DOMAIN docs -> S]
BY DEF UpdatePartialByID

-------------------------------------------------------------------------------
Pager == [app : Int, blocked : BOOLEAN \cup {None}, size : PageSizes \cup {0}, sort : {0, 1, -1},
          last : UserIds \cup {NoDoc}, got : Seq(UserIds), stayed : SUBSET UserIds, done : BOOLEAN]

\* The collections are functions, and a walk is a walk.
Typed ==
  /\ TypeOK
  /\ apps \in [DOMAIN apps -> AppDoc] /\ users \in [DOMAIN users -> UserDoc]
  /\ pager \in Pager

\* Only a request that is about to answer holds keys.
OfferInv == \A r \in Requests : pc[r] # "answer" => offer[r] = {}

\* A request that writes a feature saw a plan of its application that has it, and the
\* plan is the same or the request is known to have been overtaken.
PlanInv ==
  \A r \in Requests :
    /\ pc[r] \in InToggle => app[r] \in AppIds
    /\ pc[r] = "setPin" => plan[app[r]] \in {"Essential", "Premium"} \/ r \in moved
    /\ pc[r] = "setMFA" => plan[app[r]] = "Premium" \/ r \in moved

\* A request that deletes an application found it, and disabled it before it queues.
DeletionInv ==
  /\ QueuedIsDisabled
  /\ \A r \in Requests :
       /\ pc[r] \in {"disable", "enqueue"} => app[r] \in DOMAIN apps
       /\ pc[r] = "enqueue" => apps[app[r]].disabled \/ "disable" \in faults

AppInv == OfferInv /\ PlanInv /\ DeletionInv /\ AppsBound /\ LiveKeysHeld

\* The order of the ids in a walk.
Ahead(sort, x, y) == IF sort = 1 THEN x < y ELSE x > y
Before(x, y) == Ahead(pager.sort, x, y)
Given(u) == \E i \in DOMAIN pager.got : pager.got[i] = u

\* A walk has given, in order, every AppUser up to the last id that stayed in it.
WalkInv ==
  /\ pager # NoPager => pager.size \in PageSizes /\ pager.sort \in {1, -1}
  /\ \A u \in pager.stayed : InWalk(pager, u, users)
  /\ pager.last = NoDoc => pager.got = <<>>
  /\ \A i \in DOMAIN pager.got : pager.got[i] = pager.last \/ Before(pager.got[i], pager.last)
  /\ \A i, j \in DOMAIN pager.got : i < j => Before(pager.got[i], pager.got[j])
  /\ \A u \in pager.stayed :
       pager.last # NoDoc /\ (u = pager.last \/ Before(u, pager.last)) => Given(u)
  /\ pager.done => \A u \in pager.stayed : Given(u)

IInv == Typed /\ AppInv /\ WalkInv

\* A request that moves on: keys are held only to be answered, and none is forgotten
\* that a client has or is about to have.
LEMMA Moved ==
  ASSUME Typed, OfferInv, NEW r \in Requests, NEW where \in PCs, NEW a \in AppIds \cup {NoDoc},
         NEW keys \in SUBSET Shown, Goto(r, where, a, keys), where = "answer" \/ keys = {}
  PROVE  /\ pc' \in [Requests -> PCs] /\ app' \in [Requests -> AppIds \cup {NoDoc}]
         /\ offer' \in [Requests -> SUBSET Shown]
         /\ pc'[r] = where /\ app'[r] = a /\ offer'[r] = keys
         /\ \A q \in Requests \ {r} : pc'[q] = pc[q] /\ offer'[q] = offer[q] /\ app'[q] = app[q]
         /\ OfferInv'
         /\ shown \subseteq shown' /\ offer[r] \subseteq shown' \cup keys => Out \subseteq Out'
<1>1. /\ pc' = [pc EXCEPT ![r] = where] /\ app' = [app EXCEPT ![r] = a]
      /\ offer' = [offer EXCEPT ![r] = keys]
  BY DEF Goto
<1>2. /\ pc \in [Requests -> PCs] /\ app \in [Requests -> AppIds \cup {NoDoc}]
      /\ offer \in [Requests -> SUBSET Shown]
  BY DEF Typed, TypeOK
<1>3. /\ pc' \in [Requests -> PCs] /\ app' \in [Requests -> AppIds \cup {NoDoc}]
      /\ offer' \in [Requests -> SUBSET Shown]
      /\ pc'[r] = where /\ app'[r] = a /\ offer'[r] = keys
      /\ \A q \in Requests \ {r} : pc'[q] = pc[q] /\ offer'[q] = offer[q] /\ app'[q] = app[q]
  BY <1>1, <1>2
<1>4. OfferInv'
  BY <1>3 DEF OfferInv
<1>5. ASSUME shown \subseteq shown', offer[r] \subseteq shown' \cup keys
      PROVE  Out \subseteq Out'
  <2> SUFFICES ASSUME NEW s \in Out PROVE s \in Out'
    OBVIOUS
  <2>1. s \in shown \/ \E q \in Requests : s \in offer[q]
    BY DEF Out
  <2>2. s \in shown' \/ \E q \in Requests : s \in offer'[q]
    BY <1>3, <1>5, <2>1
  <2> QED
    BY <2>2 DEF Out
<1> QED
  BY <1>3, <1>4, <1>5

\* One that holds no keys.
LEMMA MovedOn ==
  ASSUME Typed, OfferInv, NEW r \in Requests, NEW where \in PCs, NEW a \in AppIds \cup {NoDoc},
         Goto(r, where, a, {})
  PROVE  /\ pc' \in [Requests -> PCs] /\ app' \in [Requests -> AppIds \cup {NoDoc}]
         /\ offer' \in [Requests -> SUBSET Shown]
         /\ pc'[r] = where /\ app'[r] = a
         /\ \A q \in Requests \ {r} : pc'[q] = pc[q] /\ offer'[q] = offer[q] /\ app'[q] = app[q]
         /\ OfferInv'
         /\ shown \subseteq shown' /\ offer[r] \subseteq shown' => Out \subseteq Out'
<1>1. PICK keys \in SUBSET Shown : keys = {}
  OBVIOUS
<1>2. Goto(r, where, a, keys) /\ keys \subseteq shown'
  BY <1>1
<1>3. offer[r] \subseteq shown' => offer[r] \subseteq shown' \cup keys
  OBVIOUS
<1> QED
  BY <1>1, <1>2, <1>3, Moved

\* Keys that are held stay live where the documents keep their keys.
LEMMA KeysKept ==
  ASSUME LiveKeysHeld, Out \subseteq Out', faults \subseteq faults', DOMAIN apps' \subseteq DOMAIN apps,
         \A a \in DOMAIN apps' : apps'[a].apiKey = apps[a].apiKey
                                 /\ apps'[a].appSigningKey = apps[a].appSigningKey
  PROVE  LiveKeysHeld'
<1> SUFFICES ASSUME "died" \notin faults, NEW a \in DOMAIN apps'
             PROVE  /\ \E s \in Out' : s.app = a /\ ~s.key.prefix /\ Authenticates(s)'
                    /\ \E s \in Out' : s.app = a /\ s.kind = "appSigningKey" /\ Decrypts(s)'
  BY DEF LiveKeysHeld
<1>1. PICK s \in Out : s.app = a /\ ~s.key.prefix /\ Authenticates(s)
  BY DEF LiveKeysHeld
<1>2. Authenticates(s)'
  BY <1>1 DEF Authenticates
<1>3. PICK x \in Out : x.app = a /\ x.kind = "appSigningKey" /\ Decrypts(x)
  BY DEF LiveKeysHeld
<1>4. Decrypts(x)'
  BY <1>3 DEF Decrypts
<1> QED
  BY <1>1, <1>2, <1>3, <1>4

Inserting == {r \in Requests : pc[r] = "insert"}

\* Finite sets that are counted.
LEMMA Counted ==
  ASSUME ConstantsAssumption, TypeOK
  PROVE  /\ IsFiniteSet(DOMAIN apps) /\ Cardinality(DOMAIN apps) \in Nat
         /\ IsFiniteSet(Inserting) /\ Cardinality(Inserting) \in Nat
         /\ Cardinality(Inserting) <= Cardinality(Requests) /\ Cardinality(Requests) \in Nat
<1>1. DOMAIN apps \subseteq AppIds /\ Inserting \subseteq Requests
  BY DEF TypeOK, Inserting
<1>2. IsFiniteSet(AppIds) /\ IsFiniteSet(Requests)
  BY DEF ConstantsAssumption
<1> QED
  BY <1>1, <1>2, FS_Subset, FS_CardinalityType

LEMMA BoundKept ==
  ASSUME ConstantsAssumption, TypeOK, AppsBound, TypeOK', DOMAIN apps' \subseteq DOMAIN apps,
         Inserting' \subseteq Inserting
  PROVE  AppsBound'
<1>1. /\ Cardinality(DOMAIN apps') <= Cardinality(DOMAIN apps) /\ Cardinality(DOMAIN apps') \in Nat
      /\ Cardinality(Inserting') <= Cardinality(Inserting) /\ Cardinality(Inserting') \in Nat
  BY Counted, FS_Subset, FS_CardinalityType
<1>2. Limit \in Nat
  BY DEF ConstantsAssumption
<1>3. Cardinality(DOMAIN apps) + Cardinality(Inserting) <= Limit - 1 + Cardinality(Requests)
  BY DEF AppsBound, Inserting
<1>4. Cardinality(DOMAIN apps') + Cardinality(Inserting') <= Limit - 1 + Cardinality(Requests)
  BY <1>1, <1>2, <1>3, Counted
<1> QED
  BY <1>4 DEF AppsBound, Inserting

\* What a request found to delete stays where no document goes and none is enabled
\* again.
LEMMA DeletionKept ==
  ASSUME DeletionInv, faults \subseteq faults',
         \A i \in DOMAIN apps : i \in DOMAIN apps' /\ (apps[i].disabled => apps'[i].disabled),
         \A q \in Requests : pc'[q] \in {"disable", "enqueue"} => pc'[q] = pc[q] /\ app'[q] = app[q],
         \A t \in Tasks : task'[t].st # "none" => task[t].st # "none" /\ task'[t].app = task[t].app
  PROVE  DeletionInv'
<1>1. QueuedIsDisabled'
  BY DEF DeletionInv, QueuedIsDisabled
<1>2. ASSUME NEW q \in Requests
      PROVE  /\ pc'[q] \in {"disable", "enqueue"} => app'[q] \in DOMAIN apps'
             /\ pc'[q] = "enqueue" => apps'[app'[q]].disabled \/ "disable" \in faults'
  BY DEF DeletionInv
<1> QED
  BY <1>1, <1>2 DEF DeletionInv

\* The documents of the walk and the walk itself are untouched.
LEMMA WalkKept ==
  ASSUME WalkInv, UNCHANGED <<users, pager>>
  PROVE  WalkInv'
BY DEF WalkInv, InWalk, Ahead, Before, Given

\* Nothing of the applications is touched.
LEMMA AppsKept ==
  ASSUME AppInv, UNCHANGED <<apps, plan, reqVars, shown, moved>>, faults \subseteq faults',
         \A t \in Tasks : task'[t].st # "none" => task[t].st # "none" /\ task'[t].app = task[t].app
  PROVE  AppInv'
<1>1. Out' = Out
  BY DEF Out, reqVars
<1>2. LiveKeysHeld'
  BY <1>1, KeysKept DEF AppInv
<1>3. DeletionInv'
  <2>1. /\ \A i \in DOMAIN apps : i \in DOMAIN apps' /\ (apps[i].disabled => apps'[i].disabled)
        /\ \A q \in Requests : pc'[q] = pc[q] /\ app'[q] = app[q]
    BY DEF reqVars
  <2> QED
    BY <2>1, DeletionKept DEF AppInv
<1> QED
  BY <1>2, <1>3 DEF AppInv, OfferInv, PlanInv, AppsBound, reqVars

-------------------------------------------------------------------------------
\* Creation.
LEMMA CountAppsKept ==
  ASSUME ConstantsAssumption, IInv, NEW r \in Requests, CountApps(r)
  PROVE  IInv'
<1>1. /\ pc[r] = "idle" /\ Goto(r, "insert", NoDoc, {}) /\ "insert" \in PCs /\ Typed /\ OfferInv
      /\ offer[r] = {}
      /\ UNCHANGED <<apps, users, plan, task, nextKey, shown, moved, pager, faults>>
  BY DEF CountApps, IInv, AppInv, OfferInv, PCs
<1>2. /\ pc' \in [Requests -> PCs] /\ app' \in [Requests -> AppIds \cup {NoDoc}]
      /\ offer' \in [Requests -> SUBSET Shown] /\ pc'[r] = "insert" /\ OfferInv'
      /\ Out \subseteq Out' /\ \A q \in Requests \ {r} : pc'[q] = pc[q] /\ app'[q] = app[q]
  <2>1. shown \subseteq shown' /\ offer[r] \subseteq shown' /\ NoDoc \in AppIds \cup {NoDoc}
    BY <1>1
  <2> QED
    BY <1>1, <2>1, MovedOn
<1>3. Typed'
  BY <1>1, <1>2 DEF Typed, TypeOK
<1>4. AppsBound'
  <2>1. Cardinality(DOMAIN apps) < Limit
    <3>1. Matching(apps, [workspaceID |-> Workspace]) = DOMAIN apps
      BY <1>1, AllMatch DEF Typed
    <3>2. ~(Cardinality(DOMAIN apps) >= Limit)
      BY <3>1 DEF CountApps, LimitReached, CountDocs
    <3> QED
      BY <1>1, <3>2, Counted DEF Typed, ConstantsAssumption
  <2>2. TypeOK' /\ apps' = apps
    BY <1>1, <1>3 DEF Typed
  <2>3. Cardinality(Inserting') <= Cardinality(Requests) /\ Cardinality(Inserting') \in Nat
    <3>1. Inserting' \subseteq Requests
      BY DEF Inserting
    <3> QED
      BY <3>1, FS_Subset, FS_CardinalityType DEF ConstantsAssumption
  <2>4. Cardinality(DOMAIN apps) + Cardinality(Inserting') <= Limit - 1 + Cardinality(Requests)
    BY <1>1, <2>1, <2>3, Counted DEF Typed, ConstantsAssumption
  <2> QED
    BY <2>2, <2>4 DEF AppsBound, Inserting
<1>5. LiveKeysHeld'
  BY <1>1, <1>2, KeysKept DEF IInv, AppInv
<1>6. PlanInv'
  BY <1>1, <1>2 DEF IInv, AppInv, PlanInv, InToggle
<1>7. DeletionInv'
  <2>1. \A q \in Requests : pc'[q] \in {"disable", "enqueue"} => pc'[q] = pc[q] /\ app'[q] = app[q]
    BY <1>2
  <2> QED
    BY <1>1, <2>1, DeletionKept DEF IInv, AppInv
<1> QED
  BY <1>1, <1>2, <1>3, <1>4, <1>5, <1>6, <1>7, WalkKept DEF IInv, AppInv

LEMMA InsertAppKept ==
  ASSUME ConstantsAssumption, IInv, NEW r \in Requests, InsertApp(r)
  PROVE  IInv'
<1>0. PICK n \in 1..MaxKey : n = nextKey
  <2>1. nextKey \in 1..(MaxKey + 1) /\ nextKey <= MaxKey /\ MaxKey \in Nat
    BY DEF IInv, Typed, TypeOK, InsertApp, ConstantsAssumption
  <2> QED
    BY <2>1
<1>1. PICK a \in AppIds \ DOMAIN apps :
        /\ apps' = CreateOne(apps, a, NewApp(a, n))
        /\ Goto(r, "answer", a, ShownAtCreation(a, n))
  BY <1>0 DEF InsertApp
<1>2. /\ pc[r] = "insert" /\ nextKey' = n + 1 /\ "answer" \in PCs
      /\ UNCHANGED <<users, plan, task, shown, moved, pager, faults>> /\ Typed /\ OfferInv
      /\ offer[r] = {} /\ MaxKey \in Nat
  BY <1>0 DEF InsertApp, IInv, AppInv, OfferInv, PCs, ConstantsAssumption
<1>3. a \notin DOMAIN apps /\ nextKey' \in 1..(MaxKey + 1)
  BY <1>1, <1>2
<1> DEFINE keys == ShownAtCreation(a, n)
           doc == NewApp(a, n)
<1>4. keys \in SUBSET Shown
  <2>1. ASSUME NEW kind \in KeyKinds, NEW prefix \in BOOLEAN
        PROVE  [app |-> a, kind |-> kind, key |-> [n |-> n, prefix |-> prefix]] \in Shown
    BY DEF Shown, Key
  <2> SUFFICES ASSUME NEW s \in keys PROVE s \in Shown
    OBVIOUS
  <2>2. PICK kind \in KeyKinds :
          s = [app |-> a, kind |-> kind,
               key |-> [n |-> n, prefix |-> kind \in {"sandBoxAPIKey", "sandBoxAppSigningKey"}]]
    BY DEF ShownAtCreation
  <2>3. (kind \in {"sandBoxAPIKey", "sandBoxAppSigningKey"}) \in BOOLEAN
    OBVIOUS
  <2> QED
    BY <2>1, <2>2, <2>3
<1>5. /\ doc \in AppDoc /\ doc.apiKey = [n |-> n, prefix |-> FALSE]
      /\ doc.appSigningKey = [n |-> n, prefix |-> FALSE]
  BY NewAppType
<1>6. /\ [app |-> a, kind |-> "apiKey", key |-> [n |-> n, prefix |-> FALSE]] \in keys
      /\ [app |-> a, kind |-> "appSigningKey", key |-> [n |-> n, prefix |-> FALSE]] \in keys
  <2>1. ASSUME NEW k \in {"apiKey", "appSigningKey"}
        PROVE  [app |-> a, kind |-> k, key |-> [n |-> n, prefix |-> FALSE]] \in keys
    <3>1. k \in KeyKinds /\ (k \in {"sandBoxAPIKey", "sandBoxAppSigningKey"}) = FALSE
      BY DEF KeyKinds
    <3>2. [app |-> a, kind |-> k,
           key |-> [n |-> n, prefix |-> k \in {"sandBoxAPIKey", "sandBoxAppSigningKey"}]] \in keys
      BY <3>1 DEF ShownAtCreation
    <3> QED
      BY <3>1, <3>2
  <2> QED
    BY <2>1
<1> HIDE DEF keys, doc
<1>7. /\ pc' \in [Requests -> PCs] /\ app' \in [Requests -> AppIds \cup {NoDoc}]
      /\ offer' \in [Requests -> SUBSET Shown] /\ pc'[r] = "answer" /\ OfferInv'
      /\ offer'[r] = keys /\ Out \subseteq Out'
      /\ \A q \in Requests \ {r} : pc'[q] = pc[q] /\ app'[q] = app[q]
  <2>1. Goto(r, "answer", a, keys) /\ shown \subseteq shown' /\ offer[r] \subseteq shown' \cup keys
    BY <1>1, <1>2 DEF keys
  <2> QED
    BY <1>1, <1>2, <1>4, <2>1, Moved
<1>8. apps' = CreateOne(apps, a, doc)
  BY <1>1 DEF doc
<1>9. /\ DOMAIN apps' = DOMAIN apps \cup {a} /\ apps'[a] = doc
      /\ \A i \in DOMAIN apps : apps'[i] = apps[i]
  <2>1. /\ DOMAIN apps' = DOMAIN apps \cup {a} /\ apps'[a] = doc
        /\ \A i \in DOMAIN apps \ {a} : apps'[i] = apps[i]
    BY <1>8 DEF CreateOne
  <2> QED
    BY <1>3, <2>1
<1>10. apps' \in [DOMAIN apps' -> AppDoc]
  BY <1>2, <1>5, <1>8, CollectionCreated DEF Typed
<1>11. Typed'
  <2>1. TypeOK'
    BY <1>1, <1>2, <1>3, <1>7, <1>9, <1>10 DEF Typed, TypeOK
  <2> QED
    BY <1>2, <1>10, <2>1 DEF Typed
<1>12. AppsBound'
  <2>1. Inserting' = Inserting \ {r} /\ r \in Inserting
    BY <1>2, <1>7 DEF Inserting
  <2>2. /\ Cardinality(Inserting') = Cardinality(Inserting) - 1
        /\ Cardinality(DOMAIN apps') = Cardinality(DOMAIN apps) + 1
    BY <1>2, <1>3, <1>9, <2>1, Counted, FS_RemoveElement, FS_AddElement DEF Typed
  <2>3. Cardinality(DOMAIN apps') + Cardinality(Inserting') <= Limit - 1 + Cardinality(Requests)
    BY <1>2, <2>2, Counted DEF IInv, AppInv, AppsBound, Inserting, Typed
  <2> QED
    BY <2>3 DEF AppsBound, Inserting
<1>13. LiveKeysHeld'
  <2> SUFFICES ASSUME "died" \notin faults, NEW i \in DOMAIN apps'
               PROVE  /\ \E s \in Out' : s.app = i /\ ~s.key.prefix /\ Authenticates(s)'
                      /\ \E s \in Out' : s.app = i /\ s.kind = "appSigningKey" /\ Decrypts(s)'
    BY <1>2 DEF LiveKeysHeld
  <2>1. CASE i = a
    <3> DEFINE x == [app |-> a, kind |-> "apiKey", key |-> [n |-> n, prefix |-> FALSE]]
               y == [app |-> a, kind |-> "appSigningKey", key |-> [n |-> n, prefix |-> FALSE]]
    <3>1. x \in Out' /\ y \in Out'
      BY <1>6, <1>7 DEF Out
    <3>2. Authenticates(x)' /\ Decrypts(y)'
      BY <1>5, <1>9 DEF Authenticates, Decrypts
    <3> QED
      BY <2>1, <3>1, <3>2
  <2>2. CASE i # a
    <3>1. i \in DOMAIN apps
      BY <1>9, <2>2
    <3>2. PICK s \in Out : s.app = i /\ ~s.key.prefix /\ Authenticates(s)
      BY <3>1 DEF IInv, AppInv, LiveKeysHeld
    <3>3. Authenticates(s)'
      BY <1>9, <3>2 DEF Authenticates
    <3>4. PICK x \in Out : x.app = i /\ x.kind = "appSigningKey" /\ Decrypts(x)
      BY <3>1 DEF IInv, AppInv, LiveKeysHeld
    <3>5. Decrypts(x)'
      BY <1>9, <3>4 DEF Decrypts
    <3> QED
      BY <1>7, <3>2, <3>3, <3>4, <3>5
  <2> QED
    BY <2>1, <2>2
<1>14. PlanInv'
  BY <1>2, <1>7 DEF IInv, AppInv, PlanInv, InToggle
<1>15. DeletionInv'
  <2>1. /\ \A q \in Requests : pc'[q] \in {"disable", "enqueue"} => pc'[q] = pc[q] /\ app'[q] = app[q]
        /\ \A i \in DOMAIN apps : i \in DOMAIN apps' /\ (apps[i].disabled => apps'[i].disabled)
    BY <1>7, <1>9
  <2> QED
    BY <1>2, <2>1, DeletionKept DEF IInv, AppInv
<1> QED
  BY <1>2, <1>7, <1>11, <1>12, <1>13, <1>14, <1>15, WalkKept DEF IInv, AppInv

\* A request moves on, to no insertion, and no document is touched.  It has shown
\* what it held, or died.
LEMMA StepKept ==
  ASSUME ConstantsAssumption, IInv, NEW r \in Requests, NEW where \in PCs \ {"insert", "enqueue"},
         NEW a \in AppIds \cup {NoDoc}, Goto(r, where, a, {}),
         UNCHANGED <<apps, users, plan, nextKey, pager>>,
         moved \ {r} \subseteq moved', moved' \subseteq Requests,
         task' \in [Tasks -> [st : {"none", "find", "remove", "users", "done"},
                              app : AppIds \cup {NoDoc}]],
         shown \subseteq shown', shown' \subseteq Shown, faults \subseteq faults', faults' \in MayFail,
         offer[r] \subseteq shown' \/ "died" \in faults',
         where \in InToggle => a \in AppIds,
         where = "setPin" => plan[a] \in {"Essential", "Premium"},
         where = "setMFA" => plan[a] = "Premium",
         where = "disable" => a \in DOMAIN apps, QueuedIsDisabled'
  PROVE  IInv'
<1>1. Typed /\ OfferInv
  BY DEF IInv, AppInv
<1>2. /\ pc' \in [Requests -> PCs] /\ app' \in [Requests -> AppIds \cup {NoDoc}]
      /\ offer' \in [Requests -> SUBSET Shown] /\ pc'[r] = where /\ app'[r] = a /\ OfferInv'
      /\ offer[r] \subseteq shown' => Out \subseteq Out'
      /\ \A q \in Requests \ {r} : pc'[q] = pc[q] /\ app'[q] = app[q]
  BY <1>1, MovedOn
<1>3. Typed'
  BY <1>1, <1>2 DEF Typed, TypeOK
<1>4. AppsBound'
  <2>1. Inserting' \subseteq Inserting
    BY <1>2 DEF Inserting
  <2> QED
    BY <1>1, <1>3, <2>1, BoundKept DEF Typed, IInv, AppInv
<1>5. LiveKeysHeld'
  <2>1. CASE "died" \in faults'
    BY <2>1 DEF LiveKeysHeld
  <2>2. CASE offer[r] \subseteq shown'
    BY <1>2, <2>2, KeysKept DEF IInv, AppInv
  <2> QED
    BY <2>1, <2>2
<1>6. PlanInv'
  <2> SUFFICES ASSUME NEW q \in Requests
               PROVE  /\ pc'[q] \in InToggle => app'[q] \in AppIds
                      /\ pc'[q] = "setPin" => plan[app'[q]] \in {"Essential", "Premium"} \/ q \in moved'
                      /\ pc'[q] = "setMFA" => plan[app'[q]] = "Premium" \/ q \in moved'
    BY DEF PlanInv, InToggle
  <2>1. CASE q = r
    BY <1>2, <2>1
  <2>2. CASE q # r
    BY <1>2, <2>2 DEF IInv, AppInv, PlanInv
  <2> QED
    BY <2>1, <2>2
<1>7. DeletionInv'
  BY <1>2 DEF IInv, AppInv, DeletionInv
<1> QED
  BY <1>2, <1>3, <1>4, <1>5, <1>6, <1>7, WalkKept DEF IInv, AppInv

LEMMA AnswerKept ==
  ASSUME ConstantsAssumption, IInv, NEW r \in Requests, Answer(r)
  PROVE  IInv'
<1>1. /\ Goto(r, "idle", NoDoc, {}) /\ shown' = shown \cup offer[r] /\ "idle" \in PCs
      /\ UNCHANGED <<apps, users, plan, task, nextKey, moved, pager, faults>>
      /\ NoDoc \in AppIds \cup {NoDoc}
  BY DEF Answer, Ended, PCs
<1>2. /\ offer[r] \subseteq Shown /\ shown \subseteq Shown /\ faults \in MayFail
      /\ task \in [Tasks -> [st : {"none", "find", "remove", "users", "done"},
                             app : AppIds \cup {NoDoc}]]
  BY DEF IInv, Typed, TypeOK
<1>3. shown \subseteq shown' /\ shown' \subseteq Shown /\ offer[r] \subseteq shown'
  BY <1>1, <1>2
<1>4. moved \subseteq Requests /\ QueuedIsDisabled'
  BY <1>1 DEF IInv, Typed, TypeOK, AppInv, DeletionInv, QueuedIsDisabled
<1> QED
  BY <1>1, <1>2, <1>3, <1>4, StepKept DEF InToggle

LEMMA RequestDiesKept ==
  ASSUME ConstantsAssumption, IInv, NEW r \in Requests, RequestDies(r)
  PROVE  IInv'
<1>1. /\ Goto(r, "idle", NoDoc, {}) /\ "idle" \in PCs
      /\ faults \subseteq faults' /\ faults' \in MayFail /\ "died" \in faults'
      /\ UNCHANGED <<apps, users, plan, task, nextKey, shown, pager>> /\ moved' = moved \ {r}
      /\ NoDoc \in AppIds \cup {NoDoc}
  BY DEF RequestDies, Ended, Fault, PCs
<1>2. /\ shown \subseteq Shown
      /\ task \in [Tasks -> [st : {"none", "find", "remove", "users", "done"},
                             app : AppIds \cup {NoDoc}]]
  BY DEF IInv, Typed, TypeOK
<1>3. moved \subseteq Requests /\ QueuedIsDisabled'
  BY <1>1 DEF IInv, Typed, TypeOK, AppInv, DeletionInv, QueuedIsDisabled
<1> QED
  BY <1>1, <1>2, <1>3, StepKept DEF InToggle

\* The handlers that only read before they write.
LEMMA ReadersKept ==
  ASSUME ConstantsAssumption, IInv, NEW r \in Requests, NEW a \in AppIds,
         TogglePinProtectionSetting(r, a) \/ ToggleMFAProtectionSetting(r, a) \/ FindForDeletion(r, a)
  PROVE  IInv'
<1>1. PICK where \in PCs \ {"insert", "enqueue"} :
        /\ Goto(r, where, a, {}) /\ pc[r] = "idle"
        /\ UNCHANGED <<apps, users, plan, task, nextKey, shown, moved, pager, faults>>
        /\ where = "setPin" => plan[a] \in {"Essential", "Premium"}
        /\ where = "setMFA" => plan[a] = "Premium"
        /\ where = "disable" => a \in DOMAIN apps
  <2>1. CASE TogglePinProtectionSetting(r, a)
    BY <2>1 DEF TogglePinProtectionSetting, PCs
  <2>2. CASE ToggleMFAProtectionSetting(r, a)
    BY <2>2 DEF ToggleMFAProtectionSetting, PCs
  <2>3. CASE FindForDeletion(r, a)
    BY <2>3 DEF FindForDeletion, FindByID, PCs
  <2> QED
    BY <2>1, <2>2, <2>3
<1>2. /\ offer[r] = {} /\ shown \subseteq Shown /\ faults \in MayFail
      /\ task \in [Tasks -> [st : {"none", "find", "remove", "users", "done"},
                             app : AppIds \cup {NoDoc}]]
  BY <1>1 DEF IInv, AppInv, OfferInv, Typed, TypeOK
<1>3. moved \subseteq Requests /\ QueuedIsDisabled'
  BY <1>1 DEF IInv, Typed, TypeOK, AppInv, DeletionInv, QueuedIsDisabled
<1> QED
  BY <1>1, <1>2, <1>3, StepKept

LEMMA EnqueueDeletionKept ==
  ASSUME ConstantsAssumption, IInv, NEW r \in Requests, EnqueueDeletion(r)
  PROVE  IInv'
<1>1. /\ Goto(r, "idle", NoDoc, {}) /\ "idle" \in PCs /\ pc[r] = "enqueue"
      /\ UNCHANGED <<apps, users, plan, nextKey, shown, moved, pager>>
      /\ NoDoc \in AppIds \cup {NoDoc}
  BY DEF EnqueueDeletion, Ended, PCs
<1>2. /\ offer[r] = {} /\ shown \subseteq Shown /\ faults \in MayFail /\ app[r] \in AppIds \cup {NoDoc}
      /\ task \in [Tasks -> [st : {"none", "find", "remove", "users", "done"},
                             app : AppIds \cup {NoDoc}]]
  BY <1>1 DEF IInv, AppInv, OfferInv, Typed, TypeOK
<1>3. /\ faults \subseteq faults' /\ faults' \in MayFail
      /\ task' \in [Tasks -> [st : {"none", "find", "remove", "users", "done"},
                              app : AppIds \cup {NoDoc}]]
  BY <1>2 DEF EnqueueDeletion, Fine, Fault
<1>4. QueuedIsDisabled'
  <2>1. app[r] \in DOMAIN apps /\ (apps[app[r]].disabled \/ "disable" \in faults)
    BY <1>1 DEF IInv, AppInv, DeletionInv
  <2>2. \A t \in Tasks : \/ task'[t] = task[t]
                         \/ task'[t].st # "none" /\ task'[t].app = app[r]
    BY <1>2 DEF EnqueueDeletion
  <2> QED
    BY <1>1, <1>3, <2>1, <2>2 DEF IInv, AppInv, DeletionInv, QueuedIsDisabled
<1>5. moved \subseteq Requests
  BY DEF IInv, Typed, TypeOK
<1> QED
  BY <1>1, <1>2, <1>3, <1>4, <1>5, StepKept DEF InToggle

-------------------------------------------------------------------------------
\* The payload writes no field but f.
Writes(f, payload) ==
  \A doc \in AppDoc : /\ Set(doc, payload) \in AppDoc
                     /\ \A g \in AppFields \ {f} : Set(doc, payload)[g] = doc[g]

\* One field of one application changes.
Changed(a, f, payload) ==
  /\ DOMAIN apps' = DOMAIN apps /\ apps' \in [DOMAIN apps' -> AppDoc]
  /\ a \in DOMAIN apps => apps[a] \in AppDoc /\ apps'[a] = Set(apps[a], payload)
  /\ \A i \in DOMAIN apps : \A g \in AppFields : i # a \/ g # f => apps'[i][g] = apps[i][g]

LEMMA FieldSet ==
  ASSUME Typed, NEW a, NEW f \in AppFields, NEW payload, Writes(f, payload),
         apps' = UpdatePartialByID(apps, a, payload)
  PROVE  Changed(a, f, payload)
<1>1. /\ DOMAIN apps' = DOMAIN apps
      /\ \A i \in DOMAIN apps : apps'[i] = IF i = a THEN Set(apps[i], payload) ELSE apps[i]
  BY Updated
<1>2. \A i \in DOMAIN apps : apps[i] \in AppDoc
  BY DEF Typed
<1>3. apps' \in [DOMAIN apps -> AppDoc]
  <2>1. apps \in [DOMAIN apps -> AppDoc] /\ \A doc \in AppDoc : Set(doc, payload) \in AppDoc
    BY DEF Typed, Writes
  <2> QED
    BY <2>1, CollectionUpdated
<1> QED
  BY <1>1, <1>2, <1>3 DEF Writes, Changed

\* Keys are refreshed.
LEMMA RefreshKept ==
  ASSUME ConstantsAssumption, IInv, NEW r \in Requests, NEW a \in AppIds, NEW kind \in KeyKinds,
         NEW stored \in BOOLEAN, NEW display \in BOOLEAN,
         kind \in {"apiKey", "appSigningKey"} => ~stored /\ ~display,
         Refresh(r, a, kind, stored, display)
  PROVE  IInv'
<1>0. PICK n \in 1..MaxKey : n = nextKey
  <2>1. nextKey \in 1..(MaxKey + 1) /\ nextKey <= MaxKey /\ MaxKey \in Nat
    BY DEF IInv, Typed, TypeOK, Refresh, ConstantsAssumption
  <2> QED
    BY <2>1
<1> DEFINE new == [n |-> n, prefix |-> stored]
           x == [app |-> a, kind |-> kind, key |-> [n |-> n, prefix |-> display]]
<1>1. /\ pc[r] = "idle" /\ nextKey' = n + 1 /\ nextKey' \in 1..(MaxKey + 1) /\ Typed /\ OfferInv
      /\ UNCHANGED <<users, plan, task, shown, moved, pager, faults>> /\ offer[r] = {}
      /\ apps' = UpdatePartialByID(apps, a, Only(kind, new))
  BY <1>0 DEF Refresh, IInv, AppInv, OfferInv, ConstantsAssumption
<1>2. new \in Key /\ x \in Shown
  BY DEF Key, Shown
<1>3. /\ DOMAIN apps' = DOMAIN apps /\ apps' \in [DOMAIN apps' -> AppDoc]
      /\ a \in DOMAIN apps => apps'[a][kind] = new
      /\ \A i \in DOMAIN apps : \A g \in AppFields : i # a \/ g # kind => apps'[i][g] = apps[i][g]
  <2> HIDE DEF new
  <2>1. kind \in AppFields
    BY DEF AppFields
  <2>2. Writes(kind, Only(kind, new))
    BY <1>2, SetKey DEF Writes
  <2>3. Changed(a, kind, Only(kind, new))
    BY <1>1, <2>1, <2>2, FieldSet
  <2> QED
    BY <1>2, <2>3, SetKey DEF Changed
<1>4. /\ pc' \in [Requests -> PCs] /\ app' \in [Requests -> AppIds \cup {NoDoc}]
      /\ offer' \in [Requests -> SUBSET Shown] /\ OfferInv' /\ Out \subseteq Out'
      /\ pc'[r] \in {"idle", "answer"}
      /\ \A q \in Requests \ {r} : pc'[q] = pc[q] /\ app'[q] = app[q]
      /\ a \in DOMAIN apps => x \in Out'
  <2>1. CASE a \in DOMAIN apps
    <3> DEFINE keys == {x}
    <3>1. FindByID(apps, a) # NoDoc
      BY <2>1 DEF FindByID, ConstantsAssumption, NoDoc
    <3>2. Goto(r, "answer", a, keys) /\ x \in keys /\ keys \in SUBSET Shown /\ "answer" \in PCs
      BY <1>0, <1>2, <3>1 DEF Refresh, PCs
    <3>3. shown \subseteq shown' /\ offer[r] \subseteq shown' \cup keys
      BY <1>1
    <3> HIDE DEF keys, x
    <3>4. /\ pc' \in [Requests -> PCs] /\ app' \in [Requests -> AppIds \cup {NoDoc}]
          /\ offer' \in [Requests -> SUBSET Shown] /\ OfferInv' /\ Out \subseteq Out'
          /\ pc'[r] = "answer"
          /\ \A q \in Requests \ {r} : pc'[q] = pc[q] /\ app'[q] = app[q]
          /\ offer'[r] = keys
      BY <1>1, <3>2, <3>3, Moved
    <3>5. x \in Out'
      BY <3>2, <3>4 DEF Out
    <3> QED
      BY <3>4, <3>5
  <2>2. CASE a \notin DOMAIN apps
    <3>1. UNCHANGED <<pc, app, offer>>
      BY <2>2 DEF Refresh, FindByID, NoDoc
    <3>2. Out' = Out
      BY <1>1, <3>1 DEF Out
    <3> QED
      BY <1>1, <2>2, <3>1, <3>2 DEF Typed, TypeOK, OfferInv
  <2> QED
    BY <2>1, <2>2
<1> HIDE DEF new
<1>5. Typed'
  BY <1>1, <1>3, <1>4 DEF Typed, TypeOK
<1>6. AppsBound'
  <2>1. Inserting' \subseteq Inserting
    BY <1>4 DEF Inserting
  <2> QED
    BY <1>1, <1>3, <1>5, <2>1, BoundKept DEF Typed, IInv, AppInv
<1>7. LiveKeysHeld'
  <2> SUFFICES ASSUME "died" \notin faults, NEW i \in DOMAIN apps
               PROVE  /\ \E s \in Out' : s.app = i /\ ~s.key.prefix /\ Authenticates(s)'
                      /\ \E s \in Out' : s.app = i /\ s.kind = "appSigningKey" /\ Decrypts(s)'
    BY <1>1, <1>3 DEF LiveKeysHeld
  <2>1. PICK s \in Out : s.app = i /\ ~s.key.prefix /\ Authenticates(s)
    BY DEF IInv, AppInv, LiveKeysHeld
  <2>2. PICK y \in Out : y.app = i /\ y.kind = "appSigningKey" /\ Decrypts(y)
    BY DEF IInv, AppInv, LiveKeysHeld
  <2>3. "apiKey" \in AppFields /\ "appSigningKey" \in AppFields
    BY DEF AppFields, KeyKinds
  <2>4. \E z \in Out' : z.app = i /\ ~z.key.prefix /\ Authenticates(z)'
    <3>1. CASE i = a /\ kind = "apiKey"
      <4>1. Authenticates(x)'
        BY <1>3, <3>1 DEF Authenticates, new
      <4> QED
        BY <1>4, <3>1, <4>1
    <3>2. CASE ~(i = a /\ kind = "apiKey")
      <4>1. apps'[i]["apiKey"] = apps[i]["apiKey"]
        BY <1>3, <2>3, <3>2
      <4>2. Authenticates(s)'
        BY <1>3, <2>1, <4>1 DEF Authenticates
      <4> QED
        BY <1>4, <2>1, <4>2
    <3> QED
      BY <3>1, <3>2
  <2>5. \E z \in Out' : z.app = i /\ z.kind = "appSigningKey" /\ Decrypts(z)'
    <3>1. CASE i = a /\ kind = "appSigningKey"
      <4>1. Decrypts(x)'
        BY <1>3, <3>1 DEF Decrypts, new
      <4> QED
        BY <1>4, <3>1, <4>1
    <3>2. CASE ~(i = a /\ kind = "appSigningKey")
      <4>1. apps'[i]["appSigningKey"] = apps[i]["appSigningKey"]
        BY <1>3, <2>3, <3>2
      <4>2. Decrypts(y)'
        BY <1>3, <2>2, <4>1 DEF Decrypts
      <4> QED
        BY <1>4, <2>2, <4>2
    <3> QED
      BY <3>1, <3>2
  <2> QED
    BY <2>4, <2>5
<1>8. PlanInv'
  BY <1>1, <1>4 DEF IInv, AppInv, PlanInv, InToggle
<1>9. DeletionInv'
  <2>1. "disabled" \in AppFields /\ kind # "disabled"
    BY DEF AppFields, KeyKinds
  <2>2. \A i \in DOMAIN apps : i \in DOMAIN apps' /\ apps'[i]["disabled"] = apps[i]["disabled"]
    BY <1>3, <2>1
  <2>3. \A q \in Requests : pc'[q] \in {"disable", "enqueue"} => pc'[q] = pc[q] /\ app'[q] = app[q]
    BY <1>4
  <2> QED
    BY <1>1, <2>2, <2>3, DeletionKept DEF IInv, AppInv
<1> QED
  BY <1>1, <1>4, <1>5, <1>6, <1>7, <1>8, <1>9, WalkKept DEF IInv, AppInv

\* A request writes a switch, or fails to, and moves on.
LEMMA SwitchKept ==
  ASSUME ConstantsAssumption, IInv, NEW r \in Requests, NEW where \in {"idle", "enqueue"},
         NEW b \in AppIds \cup {NoDoc}, Goto(r, where, b, {}), offer[r] = {},
         DOMAIN apps' = DOMAIN apps, apps' \in [DOMAIN apps' -> AppDoc],
         \A i \in DOMAIN apps : \A g \in KeyKinds : apps'[i][g] = apps[i][g],
         DeletionInv', moved \ {r} \subseteq moved', moved' \subseteq Requests,
         faults \subseteq faults', faults' \in MayFail,
         UNCHANGED <<users, plan, task, nextKey, shown, pager>>
  PROVE  IInv'
<1>1. Typed /\ OfferInv /\ where \in PCs
  BY DEF IInv, AppInv, PCs
<1>2. /\ pc' \in [Requests -> PCs] /\ app' \in [Requests -> AppIds \cup {NoDoc}]
      /\ offer' \in [Requests -> SUBSET Shown] /\ pc'[r] = where /\ OfferInv'
      /\ Out \subseteq Out' /\ \A q \in Requests \ {r} : pc'[q] = pc[q] /\ app'[q] = app[q]
  <2>1. shown \subseteq shown' /\ offer[r] \subseteq shown'
    OBVIOUS
  <2> QED
    BY <1>1, <2>1, MovedOn
<1>3. Typed'
  BY <1>1, <1>2 DEF Typed, TypeOK
<1>4. AppsBound'
  <2>1. Inserting' \subseteq Inserting
    BY <1>2 DEF Inserting
  <2> QED
    BY <1>1, <1>3, <2>1, BoundKept DEF Typed, IInv, AppInv
<1>5. LiveKeysHeld'
  <2>1. \A i \in DOMAIN apps' : apps'[i]["apiKey"] = apps[i]["apiKey"]
                               /\ apps'[i]["appSigningKey"] = apps[i]["appSigningKey"]
    BY DEF KeyKinds
  <2> QED
    BY <1>2, <2>1, KeysKept DEF IInv, AppInv
<1>6. PlanInv'
  BY <1>2 DEF IInv, AppInv, PlanInv, InToggle
<1> QED
  BY <1>2, <1>3, <1>4, <1>5, <1>6, WalkKept DEF IInv, AppInv

LEMMA SetFeatureKept ==
  ASSUME ConstantsAssumption, IInv, NEW r \in Requests, SetFeature(r)
  PROVE  IInv'
<1>1. PICK on \in BOOLEAN :
        apps' = UpdatePartialByID(apps, app[r],
                  Only(IF pc[r] = "setPin" THEN "pinProtected" ELSE "requireAppMFA", on))
  BY DEF SetFeature
<1>2. /\ Goto(r, "idle", NoDoc, {}) /\ moved' = moved \ {r} /\ moved \subseteq Requests
      /\ UNCHANGED <<users, plan, task, nextKey, shown, pager, faults>> /\ faults \in MayFail
      /\ offer[r] = {} /\ NoDoc \in AppIds \cup {NoDoc} /\ Typed
  BY DEF SetFeature, Ended, InToggle, IInv, AppInv, OfferInv, Typed, TypeOK
<1>3. PICK f \in Switches \ {"disabled"} :
        f = IF pc[r] = "setPin" THEN "pinProtected" ELSE "requireAppMFA"
  BY DEF Switches
<1>4. PICK payload : payload = Only(f, on)
  OBVIOUS
<1>5. apps' = UpdatePartialByID(apps, app[r], payload) /\ Writes(f, payload) /\ f \in AppFields
  BY <1>1, <1>3, <1>4, SetSwitch DEF Writes, Switches, AppFields
<1>6. Changed(app[r], f, payload)
  BY <1>2, <1>5, FieldSet
<1>7. /\ DOMAIN apps' = DOMAIN apps /\ apps' \in [DOMAIN apps' -> AppDoc]
      /\ \A i \in DOMAIN apps : \A g \in KeyKinds \cup {"disabled"} : apps'[i][g] = apps[i][g]
  <2>1. KeyKinds \cup {"disabled"} \subseteq AppFields \ {f}
    BY <1>3 DEF AppFields, KeyKinds, Switches
  <2> QED
    BY <1>6, <2>1 DEF Changed
<1>8. DeletionInv'
  <2>1. \A q \in Requests : pc'[q] \in {"disable", "enqueue"} => pc'[q] = pc[q] /\ app'[q] = app[q]
    BY <1>2 DEF Goto, Typed, TypeOK
  <2>2. \A i \in DOMAIN apps : i \in DOMAIN apps' /\ (apps[i]["disabled"] => apps'[i]["disabled"])
    BY <1>7
  <2> QED
    BY <1>2, <2>1, <2>2, DeletionKept DEF IInv, AppInv
<1> QED
  BY <1>2, <1>7, <1>8, SwitchKept

LEMMA DisableKept ==
  ASSUME ConstantsAssumption, IInv, NEW r \in Requests, Disable(r)
  PROVE  IInv'
<1>1. PICK b \in AppIds : b = app[r] /\ b \in DOMAIN apps
  BY DEF Disable, IInv, AppInv, DeletionInv, Typed, TypeOK
<1>2. /\ Goto(r, "enqueue", b, {}) /\ offer[r] = {} /\ Typed
      /\ UNCHANGED <<users, plan, task, nextKey, shown, moved, pager>> /\ moved \subseteq Requests
  BY <1>1 DEF Disable, IInv, AppInv, OfferInv, Typed, TypeOK
<1>3. faults \subseteq faults' /\ faults' \in MayFail
  BY DEF Disable, Fine, Fault, IInv, Typed, TypeOK
<1>4. /\ DOMAIN apps' = DOMAIN apps /\ apps' \in [DOMAIN apps' -> AppDoc]
      /\ \A i \in DOMAIN apps : \A g \in KeyKinds : apps'[i][g] = apps[i][g]
      /\ \A i \in DOMAIN apps : apps[i].disabled => apps'[i].disabled
      /\ apps'[b].disabled \/ "disable" \in faults'
  <2>1. CASE apps' = UpdatePartialByID(apps, b, [disabled |-> TRUE])
    <3>1. PICK payload : payload = [disabled |-> TRUE]
      OBVIOUS
    <3>2. Writes("disabled", payload) /\ "disabled" \in AppFields
      BY <3>1 DEF Writes, AppDoc, Set, AppFields, KeyKinds
    <3>3. Changed(b, "disabled", payload)
      BY <1>2, <2>1, <3>1, <3>2, FieldSet
    <3>4. apps'[b].disabled
      BY <1>1, <3>1, <3>3 DEF Changed, Set, AppDoc
    <3>5. KeyKinds \subseteq AppFields \ {"disabled"}
      BY DEF AppFields, KeyKinds
    <3>6. \A i \in DOMAIN apps : i # b => apps'[i]["disabled"] = apps[i]["disabled"]
      BY <3>2, <3>3 DEF Changed
    <3> QED
      BY <3>3, <3>4, <3>5, <3>6 DEF Changed
  <2>2. CASE UNCHANGED apps /\ Fault("disable")
    BY <1>2, <2>2 DEF Fault, Typed
  <2> QED
    BY <1>1, <2>1, <2>2 DEF Disable
<1>5. DeletionInv'
  <2>1. QueuedIsDisabled'
    BY <1>2, <1>3, <1>4 DEF IInv, AppInv, DeletionInv, QueuedIsDisabled
  <2>2. /\ pc'[r] = "enqueue" /\ app'[r] = b
        /\ \A q \in Requests \ {r} : pc'[q] = pc[q] /\ app'[q] = app[q]
    BY <1>2 DEF Goto, Typed, TypeOK
  <2> QED
    BY <1>1, <1>3, <1>4, <2>1, <2>2 DEF IInv, AppInv, DeletionInv
<1> QED
  BY <1>2, <1>3, <1>4, <1>5, SwitchKept

\* A setting is written.
LEMMA UpdateApplicationKept ==
  ASSUME ConstantsAssumption, IInv, NEW a \in AppIds, NEW f \in Settings, NEW v \in {0, 1},
         UpdateApplication(a, Only(f, v))
  PROVE  IInv'
<1>1. PICK payload, filter :
        /\ payload = Only(f, v) /\ filter = [id |-> a, workspaceID |-> Workspace]
        /\ apps' = UpdatePartialByFilter(apps, filter, payload)
  BY DEF UpdateApplication
<1>2. Typed /\ UNCHANGED <<users, plan, task, reqVars, shown, moved, pager, faults>>
  BY DEF UpdateApplication, IInv
<1>3. Writes(f, payload)
  BY <1>1, SetSetting DEF Writes
<1>4. /\ DOMAIN apps' = DOMAIN apps /\ apps' \in [DOMAIN apps' -> AppDoc]
      /\ \A i \in DOMAIN apps : \A g \in AppFields \ {f} : apps'[i][g] = apps[i][g]
  <2>1. /\ apps' = [i \in DOMAIN apps |-> IF Match(apps[i], filter) THEN Set(apps[i], payload)
                                          ELSE apps[i]]
        /\ \A i \in DOMAIN apps : apps[i] \in AppDoc
    BY <1>1, <1>2 DEF UpdatePartialByFilter, Typed
  <2>2. ASSUME NEW i \in DOMAIN apps
        PROVE  apps'[i] \in AppDoc /\ \A g \in AppFields \ {f} : apps'[i][g] = apps[i][g]
    BY <1>3, <2>1 DEF Writes
  <2> QED
    BY <2>1, <2>2
<1>5. Typed' /\ Out' = Out
  BY <1>2, <1>4 DEF Typed, TypeOK, reqVars, Out
<1>6. \A i \in DOMAIN apps : /\ apps'[i]["apiKey"] = apps[i]["apiKey"]
                            /\ apps'[i]["appSigningKey"] = apps[i]["appSigningKey"]
                            /\ apps'[i]["disabled"] = apps[i]["disabled"]
  <2>1. {"apiKey", "appSigningKey", "disabled"} \subseteq AppFields \ {f}
    BY DEF AppFields, Settings, KeyKinds
  <2> QED
    BY <1>4, <2>1
<1>7. LiveKeysHeld'
  BY <1>2, <1>4, <1>5, <1>6, KeysKept DEF IInv, AppInv
<1>8. AppsBound' /\ OfferInv' /\ PlanInv'
  BY <1>2, <1>4 DEF reqVars, IInv, AppInv, AppsBound, OfferInv, PlanInv
<1>9. DeletionInv'
  BY <1>2, <1>4, <1>6, DeletionKept DEF reqVars, IInv, AppInv
<1> QED
  BY <1>2, <1>5, <1>7, <1>8, <1>9, WalkKept DEF IInv, AppInv

\* A plan that changes marks the requests that rely on it.
LEMMA BuyPlanKept ==
  ASSUME ConstantsAssumption, IInv, NEW a \in AppIds, NEW p \in Plans, BuyPlan(a, p)
  PROVE  IInv'
<1>1. /\ plan' = [plan EXCEPT ![a] = p]
      /\ moved' = moved \cup {r \in Requests : pc[r] \in InToggle /\ app[r] = a}
      /\ UNCHANGED <<apps, users, task, reqVars, shown, pager, faults>>
  BY DEF BuyPlan
<1>2. Typed' /\ Out' = Out
  BY <1>1 DEF IInv, Typed, TypeOK, reqVars, Out
<1>3. LiveKeysHeld'
  BY <1>1, <1>2, KeysKept DEF IInv, AppInv
<1>4. PlanInv'
  <2> SUFFICES ASSUME NEW r \in Requests
               PROVE  /\ pc[r] \in InToggle => app[r] \in AppIds
                      /\ pc[r] = "setPin" => plan'[app[r]] \in {"Essential", "Premium"} \/ r \in moved'
                      /\ pc[r] = "setMFA" => plan'[app[r]] = "Premium" \/ r \in moved'
    BY <1>1 DEF PlanInv, reqVars
  <2>1. CASE pc[r] \notin InToggle
    BY <2>1 DEF InToggle
  <2>2. CASE pc[r] \in InToggle /\ app[r] = a
    BY <1>1, <2>2
  <2>3. CASE pc[r] \in InToggle /\ app[r] # a
    BY <1>1, <2>3 DEF IInv, AppInv, PlanInv, Typed, TypeOK
  <2> QED
    BY <2>1, <2>2, <2>3
<1>5. AppsBound' /\ OfferInv' /\ DeletionInv'
  BY <1>1, DeletionKept DEF IInv, AppInv, AppsBound, OfferInv, reqVars
<1> QED
  BY <1>1, <1>2, <1>3, <1>4, <1>5, WalkKept DEF IInv, AppInv

-------------------------------------------------------------------------------
\* The tasks of the queue.
LEMMA TaskSteps ==
  ASSUME ConstantsAssumption, IInv, NEW t \in Tasks,
         NEW st \in {"none", "find", "remove", "users", "done"}, StepTask(t, st), task[t].st # "none",
         UNCHANGED <<apps, users, plan, reqVars, shown, moved, pager>>,
         faults \subseteq faults', faults' \in MayFail
  PROVE  IInv'
<1>1. task' \in [Tasks -> [st : {"none", "find", "remove", "users", "done"},
                          app : AppIds \cup {NoDoc}]]
  BY DEF IInv, Typed, TypeOK, StepTask
<1>2. Typed'
  BY <1>1 DEF IInv, Typed, TypeOK, reqVars
<1>3. \A q \in Tasks : task'[q].st # "none" => task[q].st # "none" /\ task'[q].app = task[q].app
  BY DEF IInv, Typed, TypeOK, StepTask
<1> QED
  BY <1>2, <1>3, AppsKept, WalkKept DEF IInv

LEMMA FindDeletedKept ==
  ASSUME ConstantsAssumption, IInv, NEW t \in Tasks, FindDeleted(t)
  PROVE  IInv'
<1>1. PICK st \in {"none", "find", "remove", "users", "done"} : StepTask(t, st)
  BY DEF FindDeleted
<1>2. /\ UNCHANGED <<apps, users, plan, reqVars, shown, moved, pager>> /\ task[t].st # "none"
      /\ faults \subseteq faults' /\ faults' \in MayFail
  BY DEF FindDeleted, IInv, Typed, TypeOK
<1> QED
  BY <1>1, <1>2, TaskSteps

LEMMA WorkerDiesKept ==
  ASSUME ConstantsAssumption, IInv, NEW t \in Tasks, WorkerDies(t)
  PROVE  IInv'
<1>1. StepTask(t, "done") /\ "done" \in {"none", "find", "remove", "users", "done"}
  BY DEF WorkerDies
<1>2. /\ UNCHANGED <<apps, users, plan, reqVars, shown, moved, pager>>
      /\ faults \subseteq faults' /\ faults' \in MayFail /\ task[t].st # "none"
  BY DEF WorkerDies, Fault
<1> QED
  BY <1>1, <1>2, TaskSteps

\* The filters of the two removals match nothing.
LEMMA RemoveAppKept ==
  ASSUME ConstantsAssumption, IInv, NEW t \in Tasks, RemoveApp(t)
  PROVE  IInv' /\ apps' = apps
<1>1. PICK filter :
        /\ filter = [id |-> task[t].app, workspaceID |-> HandedWorkspace]
        /\ apps' \in RemoveFromDatabase(apps, filter)
  BY DEF RemoveApp
<1>2. filter.workspaceID = HandedWorkspace /\ "workspaceID" \in DOMAIN filter
  BY <1>1
<1>3. apps \in [DOMAIN apps -> AppDoc] /\ NoDoc \notin DOMAIN apps
  BY DEF IInv, Typed, TypeOK, ConstantsAssumption, NoDoc
<1>4. apps' = apps
  BY <1>1, <1>2, <1>3, NoneHanded
<1>5. StepTask(t, "users") /\ "users" \in {"none", "find", "remove", "users", "done"}
  BY DEF RemoveApp
<1>6. /\ UNCHANGED <<apps, users, plan, reqVars, shown, moved, pager>> /\ task[t].st # "none"
      /\ faults \subseteq faults' /\ faults' \in MayFail
  BY <1>4 DEF RemoveApp, IInv, Typed, TypeOK
<1> QED
  BY <1>4, <1>5, <1>6, TaskSteps

LEMMA RemoveUsersKept ==
  ASSUME ConstantsAssumption, IInv, NEW t \in Tasks, RemoveUsers(t)
  PROVE  IInv' /\ users' = users
<1>1. PICK filter :
        /\ filter = [appID |-> task[t].app, workspaceID |-> HandedWorkspace]
        /\ users' \in RemoveFromDatabase(users, filter)
  BY DEF RemoveUsers
<1>2. filter.workspaceID = HandedWorkspace /\ "workspaceID" \in DOMAIN filter
  BY <1>1
<1>3. users \in [DOMAIN users -> UserDoc] /\ NoDoc \notin DOMAIN users
  BY DEF IInv, Typed, TypeOK, ConstantsAssumption, NoDoc
<1>4. users' = users
  BY <1>1, <1>2, <1>3, NoneHanded
<1>5. StepTask(t, "done") /\ "done" \in {"none", "find", "remove", "users", "done"}
  BY DEF RemoveUsers
<1>6. /\ UNCHANGED <<apps, users, plan, reqVars, shown, moved, pager>> /\ task[t].st # "none"
      /\ faults \subseteq faults' /\ faults' \in MayFail
  BY <1>4 DEF RemoveUsers, IInv, Typed, TypeOK
<1> QED
  BY <1>4, <1>5, <1>6, TaskSteps

-------------------------------------------------------------------------------
\* The walk of a client.  AppUsers are written while it goes on.
LEMMA UsersWritten ==
  ASSUME ConstantsAssumption, IInv, NEW docs, docs \in [DOMAIN docs -> UserDoc],
         DOMAIN docs \subseteq UserIds, WriteUsers(docs),
         UNCHANGED <<apps, plan, task, reqVars, shown, moved, faults>>
  PROVE  IInv'
<1>1. pager \in Pager /\ WalkInv
  BY DEF IInv, Typed
<1>2. users' = docs /\ pager' = [pager EXCEPT !.stayed = Stayed(docs)]
  BY DEF WriteUsers
<1>3. Stayed(docs) \subseteq pager.stayed /\ \A u \in Stayed(docs) : InWalk(pager, u, docs)
  BY DEF Stayed
<1>4. /\ pager'.app = pager.app /\ pager'.blocked = pager.blocked /\ pager'.size = pager.size
      /\ pager'.sort = pager.sort /\ pager'.last = pager.last /\ pager'.got = pager.got
      /\ pager'.done = pager.done /\ pager'.stayed = Stayed(docs)
  BY <1>1, <1>2 DEF Pager
<1>5. pager' \in Pager
  BY <1>1, <1>2, <1>3 DEF Pager
<1>6. Typed'
  BY <1>2, <1>4, <1>5 DEF IInv, Typed, TypeOK, reqVars, Pager
<1>7. AppInv'
  BY AppsKept DEF IInv
<1>8. pager' # NoPager => pager # NoPager
  <2> SUFFICES ASSUME pager = NoPager PROVE pager' = NoPager
    OBVIOUS
  <2>1. Stayed(docs) = {}
    BY <1>3 DEF NoPager
  <2> QED
    BY <1>2, <2>1 DEF NoPager
<1>9. WalkInv'
  <2>1. \A u \in pager'.stayed : InWalk(pager', u, users')
    BY <1>2, <1>3, <1>4 DEF InWalk
  <2> QED
    BY <1>1, <1>3, <1>4, <1>8, <2>1 DEF WalkInv, Before, Given
<1> QED
  BY <1>6, <1>7, <1>9 DEF IInv

LEMMA SignUpKept ==
  ASSUME ConstantsAssumption, IInv, NEW u \in UserIds, NEW a \in AppIds, SignUp(u, a)
  PROVE  IInv'
<1> DEFINE doc == [appID |-> PublicID(a), workspaceID |-> Workspace, blocked |-> FALSE]
           docs == CreateOne(users, u, doc)
<1>1. doc \in UserDoc /\ users \in [DOMAIN users -> UserDoc] /\ DOMAIN users \subseteq UserIds
  BY DEF UserDoc, IInv, Typed, TypeOK
<1>2. /\ WriteUsers(docs)
      /\ UNCHANGED <<apps, plan, task, reqVars, shown, moved, faults>>
  BY DEF SignUp
<1> HIDE DEF doc
<1>3. docs \in [DOMAIN docs -> UserDoc] /\ DOMAIN docs \subseteq UserIds
  BY <1>1 DEF CreateOne
<1> HIDE DEF docs
<1> QED
  BY <1>2, <1>3, UsersWritten

LEMMA BlockAccountsKept ==
  ASSUME ConstantsAssumption, IInv, NEW ids, NEW id, NEW b \in BOOLEAN, BlockAccounts(ids, id, b)
  PROVE  IInv'
<1> DEFINE docs == [u \in DOMAIN users |->
                      IF u \in ids /\ users[u].appID = id
                      THEN Set(users[u], [blocked |-> b]) ELSE users[u]]
<1>1. /\ WriteUsers(docs)
      /\ UNCHANGED <<apps, plan, task, reqVars, shown, moved, faults>>
  BY DEF BlockAccounts
<1>2. users \in [DOMAIN users -> UserDoc] /\ DOMAIN users \subseteq UserIds
  BY DEF IInv, Typed, TypeOK
<1>3. ASSUME NEW doc \in UserDoc PROVE Set(doc, [blocked |-> b]) \in UserDoc
  BY DEF UserDoc, Set
<1>4. docs \in [DOMAIN docs -> UserDoc] /\ DOMAIN docs \subseteq UserIds
  BY <1>2, <1>3
<1> HIDE DEF docs
<1> QED
  BY <1>1, <1>4, UsersWritten

\* The ids that a page is taken from.
Rest(docs, filter, last, sort) ==
  {i \in Matching(docs, filter) : last # NoDoc => Ahead(sort, last, i)}

Earlier(ids, sort, i) == {j \in ids : Ahead(sort, j, i)}

\* Either order of the ids is a strict total order.
LEMMA AheadOrders ==
  ASSUME NEW sort, NEW x \in Int, NEW y \in Int, NEW z \in Int
  PROVE  /\ ~Ahead(sort, x, x)
         /\ Ahead(sort, x, y) /\ Ahead(sort, y, z) => Ahead(sort, x, z)
         /\ x # y => Ahead(sort, x, y) \/ Ahead(sort, y, x)
<1>1. CASE sort = 1
  BY <1>1 DEF Ahead
<1>2. CASE sort # 1
  BY <1>2 DEF Ahead
<1> QED
  BY <1>1, <1>2

\* FindManyPaginated gives ids that no other one precedes, and some if there are any.
LEMMA Paged ==
  ASSUME NEW docs, NEW filter, NEW last, NEW sort, NEW size \in Nat \ {0},
         NEW D \in SUBSET Int, IsFiniteSet(D), DOMAIN docs \subseteq D
  PROVE  LET page == FindManyPaginated(docs, filter, size, last, sort)
             rest == Rest(docs, filter, last, sort) IN
         /\ page \subseteq rest /\ IsFiniteSet(page) /\ Cardinality(page) \in Nat
         /\ \A x \in page, y \in rest : Ahead(sort, y, x) => y \in page
         /\ page = {} => rest = {}
<1> DEFINE page == FindManyPaginated(docs, filter, size, last, sort)
           rest == Rest(docs, filter, last, sort)
<1>1. page = {i \in rest : Cardinality(Earlier(rest, sort, i)) < size}
  BY DEF FindManyPaginated, Rest, Earlier, Ahead
<1>2. rest \subseteq D
  BY DEF Rest, Matching
<1>3. IsFiniteSet(rest) /\ rest \subseteq Int
  BY <1>2, FS_Subset
<1> HIDE DEF page, rest
<1>4. page \subseteq rest /\ IsFiniteSet(page) /\ Cardinality(page) \in Nat
  BY <1>1, <1>3, FS_Subset, FS_CardinalityType
<1>5. ASSUME NEW x
      PROVE  Earlier(rest, sort, x) \subseteq rest /\ IsFiniteSet(Earlier(rest, sort, x))
             /\ Cardinality(Earlier(rest, sort, x)) \in Nat
  <2>1. Earlier(rest, sort, x) \subseteq rest
    BY DEF Earlier
  <2> QED
    BY <1>3, <2>1, FS_Subset, FS_CardinalityType
<1>6. ASSUME NEW x \in page, NEW y \in rest, Ahead(sort, y, x)
      PROVE  y \in page
  <2>1. Earlier(rest, sort, y) \subseteq Earlier(rest, sort, x)
    <3> SUFFICES ASSUME NEW z \in Earlier(rest, sort, y) PROVE z \in Earlier(rest, sort, x)
      OBVIOUS
    <3>1. z \in rest /\ Ahead(sort, z, y) /\ x \in Int /\ y \in Int /\ z \in Int
      BY <1>3, <1>4 DEF Earlier
    <3>2. Ahead(sort, z, x)
      BY <1>6, <3>1, AheadOrders
    <3> QED
      BY <3>1, <3>2 DEF Earlier
  <2>2. Cardinality(Earlier(rest, sort, y)) <= Cardinality(Earlier(rest, sort, x))
    BY <1>5, <2>1, FS_Subset
  <2> QED
    BY <1>1, <1>5, <2>2
<1>7. ASSUME rest # {} PROVE page # {}
  <2> DEFINE T == {Earlier(rest, sort, i) : i \in rest}
  <2>1. T \subseteq FiniteSubsetsOf(rest)
    BY <1>5 DEF FiniteSubsetsOf
  <2>2. T # {}
    BY <1>7
  <2>3. PICK E \in T : \A F \in T : ~(<<F, E>> \in StrictSubsetOrdering(rest))
    <3> HIDE DEF T
    <3> QED
      BY <2>1, <2>2, FS_StrictSubsetOrderingWellFounded, WFMin
  <2>4. PICK i \in rest : E = Earlier(rest, sort, i)
    BY <2>3
  <2>5. Earlier(rest, sort, i) = {}
    <3> SUFFICES ASSUME NEW j \in Earlier(rest, sort, i) PROVE FALSE
      OBVIOUS
    <3>1. j \in rest /\ Ahead(sort, j, i)
      BY DEF Earlier
    <3>2. Earlier(rest, sort, j) \subseteq Earlier(rest, sort, i)
      <4> SUFFICES ASSUME NEW z \in Earlier(rest, sort, j) PROVE z \in Earlier(rest, sort, i)
        OBVIOUS
      <4>1. z \in rest /\ Ahead(sort, z, j) /\ i \in Int /\ j \in Int /\ z \in Int
        BY <1>3, <3>1 DEF Earlier
      <4>2. Ahead(sort, z, i)
        BY <3>1, <4>1, AheadOrders
      <4> QED
        BY <4>1, <4>2 DEF Earlier
    <3>3. j \notin Earlier(rest, sort, j)
      <4>1. j \in Int
        BY <1>3, <3>1
      <4> QED
        BY <4>1, AheadOrders DEF Earlier
    <3>4. <<Earlier(rest, sort, j), Earlier(rest, sort, i)>> \in StrictSubsetOrdering(rest)
      BY <1>5, <3>2, <3>3 DEF StrictSubsetOrdering
    <3> QED
      BY <2>3, <2>4, <3>1, <3>4
  <2>6. Cardinality(Earlier(rest, sort, i)) = 0
    BY <2>5, FS_EmptySet
  <2> QED
    BY <1>1, <2>6
<1> QED
  BY <1>4, <1>6, <1>7 DEF page, rest

\* A list of ids in order has them all.
Lists(list, ids, sort) ==
  /\ list \in Seq(ids) /\ Len(list) = Cardinality(ids) /\ Len(list) \in Nat
  /\ \A x \in ids : \E i \in 1..Len(list) : list[i] = x
  /\ \A i, j \in 1..Len(list) : i < j => Ahead(sort, list[i], list[j])

LEMMA Listed ==
  ASSUME NEW ids, IsFiniteSet(ids), ids \in SUBSET Int, NEW sort, NEW list \in InOrder(ids, sort)
  PROVE  Lists(list, ids, sort)
<1> DEFINE n == Cardinality(ids)
<1>1. n \in Nat
  BY FS_CardinalityType
<1>2. /\ list \in [1..n -> ids]
      /\ \A i, j \in 1..n : i < j => Ahead(sort, list[i], list[j])
  BY DEF InOrder, Ahead
<1>3. list \in Seq(ids) /\ Len(list) = n
  BY <1>1, <1>2
<1>4. \A i, j \in 1..n : i # j => list[i] # list[j]
  <2> SUFFICES ASSUME NEW i \in 1..n, NEW j \in 1..n, i < j PROVE list[i] # list[j]
    BY <1>1
  <2>1. Ahead(sort, list[i], list[j]) /\ list[i] \in Int
    BY <1>2
  <2> QED
    BY <2>1 DEF Ahead
<1>5. list \in Injection(1..n, ids)
  BY <1>2, <1>4 DEF Injection, IsInjective
<1>6. Cardinality(1..n) = n
  BY <1>1, FS_Interval
<1>7. list \in Surjection(1..n, ids)
  BY <1>5, <1>6, FS_Injection
<1>8. \A x \in ids : \E i \in 1..n : list[i] = x
  BY <1>7 DEF Surjection
<1> QED
  BY <1>1, <1>2, <1>3, <1>8 DEF Lists

LEMMA SeqSubset ==
  ASSUME NEW S, NEW T, S \subseteq T, NEW s \in Seq(S)
  PROVE  s \in Seq(T)
OBVIOUS

LEMMA StartWalkKept ==
  ASSUME ConstantsAssumption, IInv, NEW a \in AppIds, NEW b \in BOOLEAN \cup {None},
         NEW n \in PageSizes, NEW sort \in {1, -1}, StartWalk(a, b, n, sort)
  PROVE  IInv'
<1> DEFINE p == [NoPager EXCEPT !.app = PublicID(a), !.blocked = b, !.size = n, !.sort = sort]
           stay == {u \in DOMAIN users : InWalk(p, u, users)}
<1>1. /\ pager' = [p EXCEPT !.stayed = stay] /\ pager = NoPager
      /\ UNCHANGED <<apps, users, plan, task, reqVars, shown, moved, faults>>
  BY DEF StartWalk
<1>2. /\ p.app = PublicID(a) /\ p.blocked = b
      /\ pager'.app = PublicID(a) /\ pager'.blocked = b /\ pager'.size = n /\ pager'.sort = sort
      /\ pager'.last = NoDoc /\ pager'.got = <<>> /\ pager'.done = FALSE /\ pager'.stayed = stay
  BY <1>1 DEF NoPager
<1>3. PublicID(a) \in Int /\ stay \subseteq UserIds
  BY DEF PublicID, ConstantsAssumption, IInv, Typed, TypeOK
<1>4. pager' \in Pager
  <2>1. NoPager \in Pager
    BY DEF NoPager, Pager
  <2>2. p \in Pager
    BY <1>3, <2>1 DEF Pager
  <2> QED
    BY <1>1, <1>3, <2>2 DEF Pager
<1>5. Typed'
  BY <1>1, <1>2, <1>3, <1>4 DEF IInv, Typed, TypeOK, reqVars
<1>6. AppInv'
  BY <1>1, AppsKept DEF IInv
<1>7. WalkInv'
  BY <1>1, <1>2 DEF WalkInv, InWalk, Before, Given
<1> QED
  BY <1>5, <1>6, <1>7 DEF IInv

\* The filter of the pages chooses the AppUsers of the walk.
LEMMA PageFilterMatches ==
  ASSUME NEW p, NEW docs
  PROVE  \A u : u \in Matching(docs, PageFilter(p)) <=> InWalk(p, u, docs)
BY DEF Matching, Match, PageFilter, InWalk

LEMMA FetchAppUsersKept ==
  ASSUME ConstantsAssumption, IInv, FetchAppUsers
  PROVE  IInv'
<1>1. /\ pager # NoPager /\ ~pager.done /\ pager \in Pager /\ WalkInv
      /\ UNCHANGED <<apps, users, plan, task, reqVars, shown, moved, faults>>
  BY DEF FetchAppUsers, IInv, Typed
<1>2. PICK ids, last, sort, filter, got :
        /\ ids = FindManyPaginated(users, filter, pager.size, last, sort)
        /\ last = pager.last /\ sort = pager.sort /\ filter = PageFilter(pager) /\ got = pager.got
  OBVIOUS
<1>3. PICK page \in InOrder(ids, sort) :
        pager' = IF page = <<>> THEN [pager EXCEPT !.done = TRUE]
                 ELSE [pager EXCEPT !.last = page[Len(page)], !.got = pager.got \o page]
  BY <1>2 DEF FetchAppUsers
<1>4. PICK rest : rest = Rest(users, filter, last, sort)
  OBVIOUS
<1>5. /\ ids \subseteq rest /\ IsFiniteSet(ids)
      /\ \A x \in ids, y \in rest : Ahead(sort, y, x) => y \in ids
      /\ ids = {} => rest = {}
      /\ rest \subseteq UserIds /\ UserIds \subseteq Int /\ NoDoc \notin UserIds
  <2>1. /\ IsFiniteSet(UserIds) /\ UserIds \in SUBSET Int /\ NoDoc \notin UserIds
        /\ DOMAIN users \subseteq UserIds
    BY DEF ConstantsAssumption, IInv, Typed, TypeOK, NoDoc
  <2>2. pager.size \in Nat \ {0}
    BY <1>1 DEF WalkInv, ConstantsAssumption
  <2>3. rest \subseteq DOMAIN users
    BY <1>4 DEF Rest, Matching
  <2> QED
    BY <1>2, <1>4, <2>1, <2>2, <2>3, Paged
<1>6. /\ page \in Seq(ids) /\ Len(page) = Cardinality(ids) /\ Len(page) \in Nat
      /\ \A x \in ids : \E i \in 1..Len(page) : page[i] = x
      /\ \A i, j \in 1..Len(page) : i < j => Ahead(sort, page[i], page[j])
  <2>1. ids \in SUBSET Int
    BY <1>5
  <2>2. Lists(page, ids, sort)
    BY <1>5, <2>1, Listed
  <2> QED
    BY <2>2 DEF Lists
<1>7. \A u \in pager.stayed : \/ u \in rest
                              \/ last # NoDoc /\ (u = last \/ Ahead(sort, u, last))
  <2> SUFFICES ASSUME NEW u \in pager.stayed, u \notin rest
               PROVE  last # NoDoc /\ (u = last \/ Ahead(sort, u, last))
    OBVIOUS
  <2>1. u \in Matching(users, filter)
    BY <1>1, <1>2, PageFilterMatches DEF WalkInv
  <2>2. last # NoDoc /\ ~Ahead(sort, last, u)
    BY <1>4, <2>1 DEF Rest
  <2>3. u \in Int /\ last \in Int
    <3>1. u \in UserIds /\ last \in UserIds
      BY <1>1, <1>2, <2>2 DEF Pager
    <3> QED
      BY <1>5, <3>1
  <2> QED
    BY <2>2, <2>3, AheadOrders
<1>8. /\ last = NoDoc => got = <<>>
      /\ \A i \in DOMAIN got : got[i] = last \/ Ahead(sort, got[i], last)
      /\ \A i, j \in DOMAIN got : i < j => Ahead(sort, got[i], got[j])
      /\ \A u \in pager.stayed : last # NoDoc /\ (u = last \/ Ahead(sort, u, last))
                                 => \E i \in DOMAIN got : got[i] = u
      /\ got \in Seq(UserIds) /\ last \in UserIds \cup {NoDoc}
  BY <1>1, <1>2 DEF WalkInv, Before, Given, Pager
<1>9. CASE page = <<>>
  <2>1. /\ pager' = [pager EXCEPT !.done = TRUE]
        /\ pager'.app = pager.app /\ pager'.blocked = pager.blocked /\ pager'.size = pager.size
        /\ pager'.sort = pager.sort /\ pager'.last = pager.last /\ pager'.got = pager.got
        /\ pager'.stayed = pager.stayed
    BY <1>1, <1>3, <1>9 DEF Pager
  <2>2. pager' \in Pager
    BY <1>1, <2>1 DEF Pager
  <2>3. Typed'
    BY <1>1, <2>1, <2>2 DEF IInv, Typed, TypeOK, reqVars
  <2>4. rest = {}
    BY <1>5, <1>6, <1>9
  <2>5. \A u \in pager.stayed : \E i \in DOMAIN got : got[i] = u
    BY <1>7, <1>8, <2>4
  <2>6. WalkInv'
    BY <1>1, <1>2, <2>1, <2>5 DEF WalkInv, InWalk, Before, Given
  <2> QED
    BY <1>1, <2>3, <2>6, AppsKept DEF IInv
<1>10. CASE page # <<>>
  <2>1. PICK n \in 1..Len(page) : n = Len(page)
    BY <1>6, <1>10
  <2>2. PICK new : new = page[n]
    OBVIOUS
  <2>3. new \in ids /\ new \in rest /\ new \in UserIds /\ new # NoDoc
    <3>1. new \in ids
      BY <1>6, <2>1, <2>2
    <3> QED
      BY <1>5, <3>1
  <2>4. got \o page \in Seq(UserIds)
    <3>1. page \in Seq(UserIds)
      <4>1. ids \subseteq UserIds
        BY <1>5
      <4> QED
        BY <1>6, <4>1, SeqSubset
    <3> QED
      BY <1>8, <3>1
  <2>5. /\ pager'.app = pager.app /\ pager'.blocked = pager.blocked /\ pager'.size = pager.size
        /\ pager'.sort = pager.sort /\ pager'.last = new /\ pager'.got = got \o page
        /\ pager'.stayed = pager.stayed /\ pager'.done = pager.done
        /\ pager' \in Pager
    BY <1>1, <1>2, <1>3, <1>10, <2>1, <2>2, <2>3, <2>4 DEF Pager
  <2>6. Typed'
    BY <1>1, <2>3, <2>4, <2>5 DEF IInv, Typed, TypeOK, reqVars
  <2>7. \A i \in DOMAIN (got \o page) :
          \/ i \in DOMAIN got /\ (got \o page)[i] = got[i]
          \/ /\ i - Len(got) \in 1..Len(page) /\ i > Len(got)
             /\ (got \o page)[i] = page[i - Len(got)]
    BY <1>6, <1>8
  <2>8. \A i \in DOMAIN got : \A x \in rest : Ahead(sort, got[i], x)
    <3> SUFFICES ASSUME NEW i \in DOMAIN got, NEW x \in rest PROVE Ahead(sort, got[i], x)
      OBVIOUS
    <3>1. last # NoDoc
      BY <1>8
    <3>2. Ahead(sort, last, x)
      BY <1>4, <3>1 DEF Rest
    <3>3. got[i] \in Int /\ last \in Int /\ x \in Int
      <4>1. got[i] \in UserIds /\ last \in UserIds /\ x \in UserIds
        BY <1>5, <1>8, <3>1
      <4> QED
        BY <1>5, <4>1
    <3>4. got[i] = last \/ Ahead(sort, got[i], last)
      BY <1>8
    <3> QED
      BY <3>2, <3>3, <3>4, AheadOrders
  <2>9. \A i \in DOMAIN (got \o page) : (got \o page)[i] = new \/ Ahead(sort, (got \o page)[i], new)
    <3> SUFFICES ASSUME NEW i \in DOMAIN (got \o page)
                 PROVE  (got \o page)[i] = new \/ Ahead(sort, (got \o page)[i], new)
      OBVIOUS
    <3>1. CASE i \in DOMAIN got /\ (got \o page)[i] = got[i]
      BY <2>3, <2>8, <3>1
    <3>2. CASE /\ i - Len(got) \in 1..Len(page) /\ i > Len(got)
               /\ (got \o page)[i] = page[i - Len(got)]
      <4>1. i - Len(got) = n \/ i - Len(got) < n
        BY <1>6, <2>1, <3>2
      <4> QED
        BY <1>6, <2>1, <2>2, <3>2, <4>1
    <3> QED
      BY <2>7, <3>1, <3>2
  <2>10. \A i, j \in DOMAIN (got \o page) : i < j => Ahead(sort, (got \o page)[i], (got \o page)[j])
    <3> SUFFICES ASSUME NEW i \in DOMAIN (got \o page), NEW j \in DOMAIN (got \o page), i < j
                 PROVE  Ahead(sort, (got \o page)[i], (got \o page)[j])
      OBVIOUS
    <3>1. CASE i \in DOMAIN got /\ (got \o page)[i] = got[i]
      <4>1. CASE j \in DOMAIN got /\ (got \o page)[j] = got[j]
        BY <1>8, <3>1, <4>1
      <4>2. CASE j - Len(got) \in 1..Len(page) /\ (got \o page)[j] = page[j - Len(got)]
        <5>1. page[j - Len(got)] \in rest
          <6>1. page[j - Len(got)] \in ids
            BY <1>6, <4>2
          <6> QED
            BY <1>5, <6>1
        <5> QED
          BY <2>8, <3>1, <4>2, <5>1
      <4> QED
        BY <2>7, <4>1, <4>2
    <3>2. CASE /\ i - Len(got) \in 1..Len(page) /\ i > Len(got)
               /\ (got \o page)[i] = page[i - Len(got)]
      <4>1. /\ j - Len(got) \in 1..Len(page) /\ (got \o page)[j] = page[j - Len(got)]
            /\ i - Len(got) < j - Len(got)
        <5>1. Len(got) \in Nat /\ DOMAIN got = 1..Len(got)
          BY <1>8
        <5>2. i \in Int /\ j \in Int
          BY <1>6, <1>8
        <5>3. i > Len(got) /\ j > Len(got) /\ i - Len(got) < j - Len(got)
          BY <3>2, <5>1, <5>2
        <5>4. j \notin DOMAIN got
          BY <5>1, <5>3
        <5> QED
          BY <2>7, <5>3, <5>4
      <4> QED
        BY <1>6, <3>2, <4>1
    <3> QED
      BY <2>7, <3>1, <3>2
  <2>11. ASSUME NEW u \in pager.stayed, u = new \/ Ahead(sort, u, new)
         PROVE  \E i \in DOMAIN (got \o page) : (got \o page)[i] = u
    <3>1. CASE u \in rest
      <4>1. u \in ids
        BY <1>5, <2>3, <2>11, <3>1
      <4>2. PICK i \in 1..Len(page) : page[i] = u
        BY <1>6, <4>1
      <4>3. /\ Len(got) + i \in DOMAIN (got \o page)
            /\ (got \o page)[Len(got) + i] = page[i]
        BY <1>6, <1>8
      <4> QED
        BY <4>2, <4>3
    <3>2. CASE last # NoDoc /\ (u = last \/ Ahead(sort, u, last))
      <4>1. PICK i \in DOMAIN got : got[i] = u
        BY <1>8, <3>2
      <4>2. i \in DOMAIN (got \o page) /\ (got \o page)[i] = got[i]
        BY <1>6, <1>8
      <4> QED
        BY <4>1, <4>2
    <3> QED
      BY <1>7, <3>1, <3>2
  <2>12. \A u \in pager.stayed : InWalk(pager', u, users')
    BY <1>1, <2>5 DEF WalkInv, InWalk
  <2>13. WalkInv'
    <3>1. pager' # NoPager => pager'.size \in PageSizes /\ pager'.sort \in {1, -1}
      BY <1>1, <2>5 DEF WalkInv
    <3>2. pager'.last = NoDoc => pager'.got = <<>>
      BY <2>3, <2>5
    <3>3. \A i \in DOMAIN pager'.got :
            pager'.got[i] = pager'.last \/ Ahead(pager'.sort, pager'.got[i], pager'.last)
      BY <1>2, <2>5, <2>9
    <3>4. \A i, j \in DOMAIN pager'.got : i < j => Ahead(pager'.sort, pager'.got[i], pager'.got[j])
      BY <1>2, <2>5, <2>10
    <3>5. \A u \in pager'.stayed :
            pager'.last # NoDoc /\ (u = pager'.last \/ Ahead(pager'.sort, u, pager'.last))
              => \E i \in DOMAIN pager'.got : pager'.got[i] = u
      BY <1>2, <2>5, <2>11
    <3>6. (pager.done => \A u \in pager.stayed : Given(u))'
      <4>1. pager'.done = pager.done
        BY <2>5
      <4> QED
        BY <1>1, <4>1
    <3>7. (\A i \in DOMAIN pager.got : pager.got[i] = pager.last \/ Before(pager.got[i], pager.last))'
      BY <3>3 DEF Before
    <3>8. (\A i, j \in DOMAIN pager.got : i < j => Before(pager.got[i], pager.got[j]))'
      BY <3>4 DEF Before
    <3>9. (\A u \in pager.stayed :
             pager.last # NoDoc /\ (u = pager.last \/ Before(u, pager.last)) => Given(u))'
      BY <3>5 DEF Before, Given
    <3>10. (\A u \in pager.stayed : InWalk(pager, u, users))'
      BY <2>5, <2>12 DEF InWalk
    <3>11. (pager # NoPager => pager.size \in PageSizes /\ pager.sort \in {1, -1})'
      BY <3>1 DEF NoPager
    <3> QED
      BY <3>2, <3>6, <3>7, <3>8, <3>9, <3>10, <3>11, Zenon DEF WalkInv
  <2> QED
    BY <1>1, <2>6, <2>13, AppsKept DEF IInv
<1> QED
  BY <1>9, <1>10

-------------------------------------------------------------------------------
LEMMA InitInv == ConstantsAssumption /\ Init => IInv
<1> SUFFICES ASSUME ConstantsAssumption, Init PROVE IInv
  OBVIOUS
<1>1. /\ DOMAIN apps = {} /\ DOMAIN users = {} /\ pager = NoPager
      /\ apps = <<>> /\ users = <<>>
  BY DEF Init
<1>2. Typed
  <2>1. NoPager \in Pager /\ NoPager.last = NoDoc /\ NoPager.stayed = {} /\ NoPager.got = <<>>
    BY DEF NoPager, Pager
  <2>2. nextKey \in 1..(MaxKey + 1) /\ faults \in MayFail
    BY DEF Init, ConstantsAssumption
  <2>3. /\ pc \in [Requests -> PCs] /\ app \in [Requests -> AppIds \cup {NoDoc}]
        /\ offer \in [Requests -> SUBSET Shown]
        /\ task \in [Tasks -> [st : {"none", "find", "remove", "users", "done"},
                              app : AppIds \cup {NoDoc}]]
        /\ shown \subseteq Shown /\ moved \subseteq Requests
        /\ plan \in [AppIds -> Plans \cup {None}]
    BY DEF Init, PCs
  <2>4. /\ apps \in [DOMAIN apps -> AppDoc] /\ users \in [DOMAIN users -> UserDoc]
    BY <1>1
  <2>5. <<>> \in Seq(UserIds)
    OBVIOUS
  <2> QED
    BY <1>1, <2>1, <2>2, <2>3, <2>4, <2>5 DEF Typed, TypeOK
<1>3. AppsBound
  <2>1. Inserting = {}
    BY DEF Init, Inserting
  <2>2. Cardinality(DOMAIN apps) = 0 /\ Cardinality(Inserting) = 0
    BY <1>1, <2>1, FS_EmptySet
  <2>3. Cardinality(Requests) \in Nat /\ Limit \in Nat /\ Limit > 0
    BY FS_CardinalityType DEF ConstantsAssumption
  <2> QED
    BY <2>2, <2>3 DEF AppsBound, Inserting
<1>4. OfferInv /\ PlanInv /\ DeletionInv /\ LiveKeysHeld
  BY <1>1 DEF Init, OfferInv, PlanInv, InToggle, DeletionInv, QueuedIsDisabled, LiveKeysHeld
<1>5. WalkInv
  BY <1>1 DEF WalkInv, NoPager
<1> QED
  BY <1>2, <1>3, <1>4, <1>5 DEF IInv, AppInv

LEMMA StutterKept ==
  ASSUME IInv, UNCHANGED vars
  PROVE  IInv'
<1>1. /\ UNCHANGED <<apps, users, plan, task, reqVars, shown, moved, pager, faults>>
  BY DEF vars
<1>2. Typed'
  BY <1>1 DEF IInv, Typed, TypeOK, reqVars
<1>3. AppInv' /\ WalkInv'
  BY <1>1, AppsKept, WalkKept DEF IInv
<1> QED
  BY <1>2, <1>3 DEF IInv

LEMMA NextInv ==
  ASSUME ConstantsAssumption, IInv, [Next]_vars
  PROVE  IInv'
<1>1. CASE Creation
  BY <1>1, CountAppsKept, InsertAppKept, AnswerKept, RequestDiesKept DEF Creation
<1>2. CASE Keys
  <2>1. PICK r \in Requests, a \in AppIds :
          \/ RefreshAppAPIKey(r, a) \/ RefreshSandboxAppAPIKey(r, a)
          \/ RefreshAppSigningKey(r, a) \/ RefreshSandboxAppSigningKey(r, a)
    BY <1>2 DEF Keys
  <2>2. PICK kind \in KeyKinds, stored \in BOOLEAN, display \in BOOLEAN :
          /\ Refresh(r, a, kind, stored, display)
          /\ kind \in {"apiKey", "appSigningKey"} => ~stored /\ ~display
    <3>1. CASE RefreshAppAPIKey(r, a)
      BY <3>1 DEF RefreshAppAPIKey, KeyKinds
    <3>2. CASE RefreshSandboxAppAPIKey(r, a)
      BY <3>2 DEF RefreshSandboxAppAPIKey, KeyKinds
    <3>3. CASE RefreshAppSigningKey(r, a)
      BY <3>3 DEF RefreshAppSigningKey, KeyKinds
    <3>4. CASE RefreshSandboxAppSigningKey(r, a)
      BY <3>4 DEF RefreshSandboxAppSigningKey, KeyKinds
    <3> QED
      BY <2>1, <3>1, <3>2, <3>3, <3>4
  <2> QED
    BY <2>2, RefreshKept
<1>3. CASE Features
  BY <1>3, UpdateApplicationKept, BuyPlanKept, ReadersKept, SetFeatureKept DEF Features
<1>4. CASE Deletion
  BY <1>4, ReadersKept, DisableKept, EnqueueDeletionKept, FindDeletedKept, RemoveAppKept,
     RemoveUsersKept, WorkerDiesKept DEF Deletion, DeletionTask
<1>5. CASE SignUps
  BY <1>5, SignUpKept DEF SignUps
<1>6. CASE Users
  BY <1>6, BlockAccountsKept, StartWalkKept, FetchAppUsersKept DEF Users
<1>7. CASE UNCHANGED vars
  BY <1>7, StutterKept
<1> QED
  BY <1>1, <1>2, <1>3, <1>4, <1>5, <1>6, <1>7 DEF Next

\* The inductive invariant holds in every behaviour, whatever the limit, the number of
\* requests in flight, the tasks and the failures.
THEOREM Invariance == Spec => []IInv
<1>1. Init => IInv
  BY InitInv, ConstantsAssumption
<1>2. IInv /\ [Next]_vars => IInv'
  BY NextInv, ConstantsAssumption
<1> QED
  BY <1>1, <1>2, PTL DEF Spec

\* Creations that overlap overshoot the limit of applications by no more than the
\* requests in flight, less one.
THEOREM LimitOvershoot == Spec => []AppsBound
<1>1. IInv => AppsBound
  BY DEF IInv, AppInv
<1> QED
  BY <1>1, Invariance, PTL

\* What is queued for deletion exists and is disabled, unless the update failed.
THEOREM QueuedDeletions == Spec => []DeletionsStand
<1>1. IInv => DeletionsStand
  BY DEF IInv, AppInv, DeletionInv, Typed, DeletionsStand
<1> QED
  BY <1>1, Invariance, PTL

\* Refreshes that overlap never leave an application with a live key that nobody was
\* shown or is about to be.
THEOREM KeysInHand == Spec => []LiveKeysHeld
<1>1. IInv => LiveKeysHeld
  BY DEF IInv, AppInv
<1> QED
  BY <1>1, Invariance, PTL

\* The pages of FetchAppUsers, one after the other, give each AppUser once and miss
\* none that stayed.
THEOREM WalksComplete == Spec => []PagesComplete
<1>1. IInv => PagesComplete
  <2> SUFFICES ASSUME IInv PROVE PagesComplete
    OBVIOUS
  <2>1. /\ \A i, j \in DOMAIN pager.got : i < j => Before(pager.got[i], pager.got[j])
        /\ pager.done => \A u \in pager.stayed : \E i \in DOMAIN pager.got : pager.got[i] = u
    BY DEF IInv, WalkInv, Given
  <2>2. PICK got \in Seq(UserIds) : got = pager.got
    BY DEF IInv, Typed, Pager
  <2>3. PICK sort : sort = pager.sort
    OBVIOUS
  <2>4. ASSUME NEW i \in DOMAIN got, NEW j \in DOMAIN got, i # j
        PROVE  got[i] # got[j]
    <3>1. ASSUME NEW k \in DOMAIN got, NEW l \in DOMAIN got, k < l PROVE got[k] # got[l]
      <4>1. got[k] \in UserIds /\ Ahead(sort, got[k], got[l])
        BY <2>1, <2>2, <2>3, <3>1 DEF Before
      <4>2. got[k] \in Int
        <5>1. UserIds \subseteq Int
          BY ConstantsAssumption DEF ConstantsAssumption
        <5> QED
          BY <4>1, <5>1
      <4> QED
        BY <4>1, <4>2, AheadOrders
    <3>2. i < j \/ j < i
      BY <2>4
    <3> QED
      BY <3>1, <3>2
  <2> QED
    BY <2>1, <2>2, <2>4 DEF PagesComplete
<1> QED
  BY <1>1, Invariance, PTL

\* What a step leaves on of the features was on before.
NothingTurnedOn ==
  \A a \in DOMAIN apps' : /\ apps'[a].pinProtected => ~WasOff(a, "pinProtected")
                          /\ apps'[a].requireAppMFA => ~WasOff(a, "requireAppMFA")

LEMMA SameFeatures ==
  ASSUME DOMAIN apps' = DOMAIN apps,
         \A i \in DOMAIN apps : /\ apps'[i]["pinProtected"] => apps[i]["pinProtected"]
                                /\ apps'[i]["requireAppMFA"] => apps[i]["requireAppMFA"]
  PROVE  NothingTurnedOn
BY DEF NothingTurnedOn, WasOff

\* The update writes neither feature.
LEMMA OtherField ==
  ASSUME Typed, NEW f \in AppFields \ {"pinProtected", "requireAppMFA"}, NEW payload,
         Writes(f, payload), DOMAIN apps' = DOMAIN apps,
         \A i \in DOMAIN apps : apps'[i] \in {apps[i], Set(apps[i], payload)}
  PROVE  NothingTurnedOn
<1>1. {"pinProtected", "requireAppMFA"} \subseteq AppFields \ {f}
  BY DEF AppFields
<1>2. \A i \in DOMAIN apps : /\ apps'[i]["pinProtected"] = apps[i]["pinProtected"]
                             /\ apps'[i]["requireAppMFA"] = apps[i]["requireAppMFA"]
  BY <1>1 DEF Writes, Typed
<1> QED
  BY <1>2, SameFeatures

\* The request that turns a feature on looked up the plan of that application.
LEMMA SetFeaturePaid ==
  ASSUME ConstantsAssumption, IInv, NEW r \in Requests, SetFeature(r)
  PROVE  PaidSwitch
<1>1. PICK on \in BOOLEAN :
        apps' = UpdatePartialByID(apps, app[r],
                  Only(IF pc[r] = "setPin" THEN "pinProtected" ELSE "requireAppMFA", on))
  BY DEF SetFeature
<1>2. PICK f \in Switches : f = IF pc[r] = "setPin" THEN "pinProtected" ELSE "requireAppMFA"
  BY DEF Switches
<1> DEFINE payload == Only(f, on)
<1>named. payload = Only(f, on)
  OBVIOUS
<1> HIDE DEF payload
<1>3. apps' = UpdatePartialByID(apps, app[r], payload) /\ Writes(f, payload) /\ f \in AppFields
  BY <1>1, <1>2, <1>named, SetSwitch DEF Writes, Switches, AppFields
<1>4. Changed(app[r], f, payload)
  BY <1>3, FieldSet DEF IInv
<1>5. pc[r] \in InToggle /\ pc'[r] = "idle"
  BY DEF SetFeature, Ended, Goto, IInv, Typed, TypeOK
<1>6. ASSUME NEW a \in DOMAIN apps', apps'[a].pinProtected, WasOff(a, "pinProtected")
      PROVE  TurnsOn(r, a, "setPin", {"Essential", "Premium"})
  <2>1. a \in DOMAIN apps /\ ~apps[a]["pinProtected"] /\ apps'[a]["pinProtected"]
    BY <1>4, <1>6 DEF Changed, WasOff
  <2>2. "pinProtected" \in AppFields
    BY DEF AppFields
  <2>3. a = app[r] /\ f = "pinProtected"
    BY <1>4, <2>1, <2>2 DEF Changed
  <2>4. pc[r] = "setPin"
    BY <1>2, <2>3
  <2> QED
    BY <1>5, <2>3, <2>4 DEF TurnsOn, IInv, AppInv, PlanInv
<1>7. ASSUME NEW a \in DOMAIN apps', apps'[a].requireAppMFA, WasOff(a, "requireAppMFA")
      PROVE  TurnsOn(r, a, "setMFA", {"Premium"})
  <2>1. a \in DOMAIN apps /\ ~apps[a]["requireAppMFA"] /\ apps'[a]["requireAppMFA"]
    BY <1>4, <1>7 DEF Changed, WasOff
  <2>2. "requireAppMFA" \in AppFields
    BY DEF AppFields
  <2>3. a = app[r] /\ f = "requireAppMFA"
    BY <1>4, <2>1, <2>2 DEF Changed
  <2>4. pc[r] = "setMFA"
    BY <1>2, <1>5, <2>3 DEF InToggle
  <2> QED
    BY <1>5, <2>3, <2>4 DEF TurnsOn, IInv, AppInv, PlanInv
<1> QED
  BY <1>6, <1>7 DEF PaidSwitch

\* No other step turns a feature on.
LEMMA OthersTurnNothingOn ==
  ASSUME ConstantsAssumption, IInv, [Next]_vars, \A r \in Requests : ~SetFeature(r)
  PROVE  NothingTurnedOn
<1>1. CASE UNCHANGED apps
  BY <1>1, SameFeatures
<1>2. CASE \E r \in Requests : InsertApp(r)
  <2>1. PICK r \in Requests : InsertApp(r)
    BY <1>2
  <2>2. PICK n \in 1..MaxKey : n = nextKey
    <3>1. nextKey \in 1..(MaxKey + 1) /\ nextKey <= MaxKey /\ MaxKey \in Nat
      BY <2>1 DEF IInv, Typed, TypeOK, InsertApp, ConstantsAssumption
    <3> QED
      BY <3>1
  <2>app. PICK a \in AppIds \ DOMAIN apps : apps' = CreateOne(apps, a, NewApp(a, n))
    BY <2>1, <2>2 DEF InsertApp
  <2>3. PICK doc : doc = NewApp(a, n) /\ apps' = CreateOne(apps, a, doc)
    BY <2>app
  <2>4. ~doc.pinProtected /\ ~doc.requireAppMFA
    BY <2>app, <2>3, NewAppType
  <2>5. /\ DOMAIN apps' = DOMAIN apps \cup {a} /\ apps'[a] = doc
        /\ \A i \in DOMAIN apps : apps'[i] = apps[i]
    <3>1. /\ DOMAIN apps' = DOMAIN apps \cup {a} /\ apps'[a] = doc
          /\ \A i \in DOMAIN apps \ {a} : apps'[i] = apps[i]
      BY <2>3 DEF CreateOne
    <3> QED
      BY <2>app, <3>1
  <2> QED
    BY <2>4, <2>5 DEF NothingTurnedOn, WasOff
<1>3. CASE Keys
  <2>1. PICK r \in Requests, a \in AppIds, kind \in KeyKinds, stored \in BOOLEAN, display \in BOOLEAN :
          Refresh(r, a, kind, stored, display)
    BY <1>3 DEF Keys, RefreshAppAPIKey, RefreshSandboxAppAPIKey, RefreshAppSigningKey,
       RefreshSandboxAppSigningKey, KeyKinds
  <2>2. PICK new, payload :
          /\ new = [n |-> nextKey, prefix |-> stored] /\ payload = Only(kind, new)
          /\ apps' = UpdatePartialByID(apps, a, payload)
    BY <2>1 DEF Refresh
  <2>3. new \in Key
    <3>1. nextKey \in 1..MaxKey
      BY <2>1 DEF Refresh, IInv, Typed, TypeOK, ConstantsAssumption
    <3> QED
      BY <2>2, <3>1 DEF Key
  <2>4. Writes(kind, payload) /\ kind \in AppFields \ {"pinProtected", "requireAppMFA"}
    <3>1. Writes(kind, Only(kind, new))
      BY <2>3, SetKey DEF Writes
    <3>2. kind \in AppFields \ {"pinProtected", "requireAppMFA"}
      BY DEF AppFields, KeyKinds
    <3> QED
      BY <2>2, <3>1, <3>2
  <2>5. /\ DOMAIN apps' = DOMAIN apps
        /\ \A i \in DOMAIN apps : apps'[i] \in {apps[i], Set(apps[i], payload)}
    BY <2>2, Updated
  <2> QED
    BY <2>4, <2>5, OtherField DEF IInv
<1>4. CASE \E a \in AppIds, f \in Settings, v \in {0, 1} : UpdateApplication(a, Only(f, v))
  <2>set. PICK a \in AppIds, f \in Settings, v \in {0, 1} : UpdateApplication(a, Only(f, v))
    BY <1>4
  <2>1. PICK payload, filter :
          payload = Only(f, v) /\ apps' = UpdatePartialByFilter(apps, filter, payload)
    BY <2>set DEF UpdateApplication
  <2>2. Writes(f, payload) /\ f \in AppFields \ {"pinProtected", "requireAppMFA"}
    BY <2>1, SetSetting DEF Writes, AppFields, Settings
  <2>3. /\ DOMAIN apps' = DOMAIN apps
        /\ \A i \in DOMAIN apps : apps'[i] \in {apps[i], Set(apps[i], payload)}
    BY <2>1 DEF UpdatePartialByFilter
  <2> QED
    BY <2>2, <2>3, OtherField DEF IInv
<1>5. CASE \E r \in Requests : Disable(r)
  <2>1. PICK r \in Requests : Disable(r)
    BY <1>5
  <2>2. CASE UNCHANGED apps
    BY <2>2, <1>1
  <2>3. CASE apps' = UpdatePartialByID(apps, app[r], [disabled |-> TRUE])
    <3>1. PICK payload : payload = [disabled |-> TRUE] /\ apps' = UpdatePartialByID(apps, app[r], payload)
      BY <2>3
    <3>2. Writes("disabled", payload) /\ "disabled" \in AppFields \ {"pinProtected", "requireAppMFA"}
      BY <3>1 DEF Writes, AppDoc, Set, AppFields, KeyKinds
    <3>3. /\ DOMAIN apps' = DOMAIN apps
          /\ \A i \in DOMAIN apps : apps'[i] \in {apps[i], Set(apps[i], payload)}
      BY <3>1, Updated
    <3> QED
      BY <3>2, <3>3, OtherField DEF IInv
  <2> QED
    BY <2>1, <2>2, <2>3 DEF Disable
<1>6. CASE \E t \in Tasks : RemoveApp(t)
  BY <1>1, <1>6, ConstantsAssumption, RemoveAppKept
<1>7. CASE Next
  <2>1. CASE Creation
    BY <1>1, <1>2, <2>1 DEF Creation, CountApps, Answer, RequestDies
  <2>2. CASE Features
    BY <1>1, <1>4, <2>2 DEF Features, BuyPlan, TogglePinProtectionSetting, ToggleMFAProtectionSetting
  <2>3. CASE Deletion
    BY <1>1, <1>5, <1>6, <2>3 DEF Deletion, DeletionTask, FindForDeletion, EnqueueDeletion,
       FindDeleted, RemoveUsers, WorkerDies
  <2>4. CASE SignUps \/ Users
    BY <1>1, <2>4 DEF SignUps, Users, SignUp, BlockAccounts, StartWalk, FetchAppUsers
  <2> QED
    BY <1>3, <1>7, <2>1, <2>2, <2>3, <2>4 DEF Next
<1> QED
  BY <1>1, <1>7 DEF vars

\* A feature is turned on only by a request that saw a plan of that application with the
\* feature, for any number of applications, requests and changes of plan.
THEOREM FeaturesArePaid == Spec => FeaturesWerePaid
<1>1. ASSUME IInv, [Next]_vars
      PROVE  PaidSwitch
  <2>1. CASE \E r \in Requests : SetFeature(r)
    BY <1>1, <2>1, ConstantsAssumption, SetFeaturePaid
  <2>2. CASE \A r \in Requests : ~SetFeature(r)
    <3>1. NothingTurnedOn
      BY <1>1, <2>2, ConstantsAssumption, OthersTurnNothingOn
    <3> QED
      BY <3>1 DEF NothingTurnedOn, PaidSwitch
  <2> QED
    BY <2>1, <2>2
<1> QED
  BY <1>1, Invariance, PTL DEF Spec, FeaturesWerePaid

\* As the code stands, a deletion leaves every application and every AppUser behind: the
\* task has no workspace in its filters, as its route hands none on.
THEOREM NothingIsRemoved == Spec => NothingRemoved
<1>1. ASSUME IInv, [Next]_vars
      PROVE  DOMAIN apps \subseteq DOMAIN apps' /\ DOMAIN users \subseteq DOMAIN users'
  <2>1. CASE UNCHANGED <<apps, users>>
    BY <2>1
  <2>2. CASE Creation
    BY <2>2 DEF Creation, CountApps, InsertApp, Answer, RequestDies, CreateOne
  <2>3. CASE Keys
    BY <2>3 DEF Keys, RefreshAppAPIKey, RefreshSandboxAppAPIKey, RefreshAppSigningKey,
       RefreshSandboxAppSigningKey, Refresh, UpdatePartialByID
  <2>4. CASE Features
    BY <2>4 DEF Features, UpdateApplication, BuyPlan, TogglePinProtectionSetting,
       ToggleMFAProtectionSetting, SetFeature, UpdatePartialByID, UpdatePartialByFilter
  <2>5. CASE \E t \in Tasks : RemoveApp(t)
    BY <1>1, <2>5, ConstantsAssumption, RemoveAppKept DEF RemoveApp
  <2>6. CASE \E t \in Tasks : RemoveUsers(t)
    BY <1>1, <2>6, ConstantsAssumption, RemoveUsersKept DEF RemoveUsers
  <2>7. CASE Deletion
    BY <2>1, <2>5, <2>6, <2>7 DEF Deletion, DeletionTask, FindForDeletion, Disable, EnqueueDeletion,
       FindDeleted, WorkerDies, UpdatePartialByID
  <2>8. CASE SignUps
    BY <2>8 DEF SignUps, SignUp, WriteUsers, CreateOne
  <2>9. CASE Users
    BY <2>1, <2>9 DEF Users, BlockAccounts, WriteUsers, StartWalk, FetchAppUsers
  <2> QED
    BY <1>1, <2>1, <2>2, <2>3, <2>4, <2>7, <2>8, <2>9 DEF vars, Next
<1> QED
  BY <1>1, Invariance, PTL DEF Spec, NothingRemoved
===============================================================================
