----------------------------- MODULE AppLifecycle -----------------------------
(***************************************************************************)
(* The applications of one workspace: creation within a limit, keys and      *)
(* settings, the features a plan opens, the users a workspace lists and      *)
(* blocks, and the deletion that a task of the queue attempts.  One database *)
(* or queue call per step; requests and workers run between two of them.     *)
(*                                                                         *)
(* Document ids are numbers, as ULIDs are ordered.  An application has two    *)
(* ids: its key _id, the field id here, and the public appID, written -_id;   *)
(* the documents of its users carry the public one.                          *)
(***************************************************************************)
EXTENDS Repository, Sequences

CONSTANTS
  AppIds,      \* _id of applications: bounds those of a behaviour
  UserIds,     \* _id of AppUsers: bounds those of a behaviour
  Requests,    \* dashboard requests that can be in flight at once
  Tasks,       \* app_deletion tasks: bounds those of a behaviour
  Limit,       \* applications a workspace may have: 30 in the code
  MaxKey,      \* bound on the keys generated in a behaviour
  Workspace,   \* the id of the workspace
  PageSizes,   \* page sizes asked for
  MayFail,     \* the sets of failures a behaviour may have
  None

ASSUME ConstantsAssumption ==
  /\ AppIds \subseteq Nat \ {0} /\ IsFiniteSet(AppIds)
  /\ UserIds \subseteq Nat \ {0} /\ IsFiniteSet(UserIds)
  /\ IsFiniteSet(Requests) /\ Limit \in Nat \ {0} /\ MaxKey \in Nat
  /\ PageSizes \subseteq Nat \ {0} /\ {} \in MayFail
  /\ None \notin Requests \cup {"Essential", "Premium"} /\ Workspace # None

VARIABLES
  apps,       \* the Applications collection
  users,      \* the AppUsers collection
  plan,       \* of an application: activeSubName of its subscription, or None
  task,       \* app_deletion tasks: state and application
  pc, app,    \* of a request: where it is, the application it names
  offer,      \* the keys it will show
  nextKey,    \* the next random key
  shown,      \* ghost: the keys shown to a client
  moved,      \* ghost: requests whose application changed plan since they looked it up
  pager,      \* a client that walks the pages of AppUsers
  faults      \* ghost: the kinds of failures so far

reqVars  == <<pc, app, offer, nextKey>>
vars == <<apps, users, plan, task, reqVars, shown, moved, pager, faults>>

KeyKinds == {"apiKey", "sandBoxAPIKey", "appSigningKey", "sandBoxAppSigningKey"}
Plans    == {"Essential", "Premium"}
Settings == {"name", "accessTokenTTL"}

PublicID(a) == -a

\* A key as it is shown or stored: a random value, with or without "sandbox-".
Key == [n : 1..MaxKey, prefix : BOOLEAN]
AppDoc == [id : AppIds, workspaceID : {Workspace},
           disabled : BOOLEAN, pinProtected : BOOLEAN, requireAppMFA : BOOLEAN,
           name : {0, 1}, accessTokenTTL : {0, 1}, apiKey : Key, sandBoxAPIKey : Key,
           appSigningKey : Key, sandBoxAppSigningKey : Key]
UserDoc == [appID : {PublicID(a) : a \in AppIds}, workspaceID : {Workspace}, blocked : BOOLEAN]
Shown   == [app : AppIds, kind : KeyKinds, key : Key]
PCs     == {"idle", "insert", "answer", "setPin", "setMFA", "disable", "enqueue"}
NoPager == [app |-> 0, blocked |-> None, size |-> 0, sort |-> 0, last |-> NoDoc,
            got |-> <<>>, stayed |-> {}, done |-> FALSE]

TypeOK ==
  /\ DOMAIN apps \subseteq AppIds /\ \A a \in DOMAIN apps : apps[a] \in AppDoc
  /\ DOMAIN users \subseteq UserIds /\ \A u \in DOMAIN users : users[u] \in UserDoc
  /\ plan \in [AppIds -> Plans \cup {None}]
  /\ task \in [Tasks -> [st : {"none", "find", "remove", "users", "done"},
                         app : AppIds \cup {NoDoc}]]
  /\ pc \in [Requests -> PCs] /\ app \in [Requests -> AppIds \cup {NoDoc}]
  /\ offer \in [Requests -> SUBSET Shown] /\ nextKey \in 1..(MaxKey + 1)
  /\ shown \subseteq Shown /\ moved \subseteq Requests
  /\ pager.last \in UserIds \cup {NoDoc} /\ pager.stayed \subseteq UserIds
  /\ pager.got \in Seq(UserIds) /\ faults \in MayFail

Init ==
  /\ apps = <<>> /\ users = <<>> /\ plan = [a \in AppIds |-> None]
  /\ task = [t \in Tasks |-> [st |-> "none", app |-> NoDoc]]
  /\ pc = [r \in Requests |-> "idle"] /\ app = [r \in Requests |-> NoDoc]
  /\ offer = [r \in Requests |-> {}] /\ nextKey = 1
  /\ shown = {} /\ moved = {} /\ pager = NoPager /\ faults = {}

Goto(r, where, a, keys) ==
  /\ pc' = [pc EXCEPT ![r] = where] /\ app' = [app EXCEPT ![r] = a]
  /\ offer' = [offer EXCEPT ![r] = keys]
Ended(r) == Goto(r, "idle", NoDoc, {})

\* Each kind fails at most once in a behaviour.
Fault(kind) ==
  kind \notin faults /\ faults' = faults \cup {kind} /\ faults' \in MayFail
Fine == UNCHANGED faults

(***************************************************************************)
(* CreateApplication.                                                        *)
(***************************************************************************)
\* Mutant of LimitReached: the new application is not thought of.
LimitPassed(n) == n > Limit

LimitReached(n) == n >= Limit

CountApps(r) ==
  /\ pc[r] = "idle" /\ ~LimitReached(CountDocs(apps, [workspaceID |-> Workspace]))
  /\ Goto(r, "insert", NoDoc, {})
  /\ UNCHANGED <<apps, users, plan, task, nextKey, shown, moved, pager, faults>>

\* The four keys of a new application: the sandbox ones are shown with their
\* prefix, and kept without it.
NewKeys(n) == [kind \in KeyKinds |-> [n |-> n, prefix |-> FALSE]]
ShownAtCreation(a, n) ==
  {[app |-> a, kind |-> kind,
    key |-> [n |-> n, prefix |-> kind \in {"sandBoxAPIKey", "sandBoxAppSigningKey"}]] :
     kind \in KeyKinds}

NewApp(a, n) ==
  Set(NewKeys(n), [id |-> a, workspaceID |-> Workspace, name |-> 0, accessTokenTTL |-> 0,
                   disabled |-> FALSE, pinProtected |-> FALSE, requireAppMFA |-> FALSE])

InsertApp(r) ==
  /\ pc[r] = "insert" /\ nextKey <= MaxKey /\ nextKey' = nextKey + 1
  /\ \E a \in AppIds \ DOMAIN apps :
       /\ apps' = CreateOne(apps, a, NewApp(a, nextKey))
       /\ Goto(r, "answer", a, ShownAtCreation(a, nextKey))
  /\ UNCHANGED <<users, plan, task, shown, moved, pager, faults>>

\* The keys are answered to the client.
Answer(r) ==
  /\ pc[r] = "answer" /\ shown' = shown \cup offer[r] /\ Ended(r)
  /\ UNCHANGED <<apps, users, plan, task, nextKey, moved, pager, faults>>

\* The process stops in the middle of a request.
RequestDies(r) ==
  /\ pc[r] # "idle" /\ Fault("died") /\ Ended(r) /\ moved' = moved \ {r}
  /\ UNCHANGED <<apps, users, plan, task, nextKey, shown, pager>>

(***************************************************************************)
(* Keys.  Each refresh makes a key, writes its field by id and shows it, when *)
(* an application matched.                                                    *)
(***************************************************************************)
Refresh(r, a, kind, stored, display) ==
  /\ pc[r] = "idle" /\ nextKey <= MaxKey /\ nextKey' = nextKey + 1
  /\ apps' = UpdatePartialByID(apps, a, Only(kind, [n |-> nextKey, prefix |-> stored]))
  /\ IF FindByID(apps, a) = NoDoc
     THEN UNCHANGED <<pc, app, offer>>
     ELSE Goto(r, "answer", a, {[app |-> a, kind |-> kind,
                                 key |-> [n |-> nextKey, prefix |-> display]]})
  /\ UNCHANGED <<users, plan, task, shown, moved, pager, faults>>

RefreshAppAPIKey(r, a) == Refresh(r, a, "apiKey", FALSE, FALSE)
RefreshSandboxAppAPIKey(r, a) == Refresh(r, a, "sandBoxAPIKey", FALSE, FALSE)
RefreshSandboxAppSigningKey(r, a) == Refresh(r, a, "sandBoxAppSigningKey", TRUE, TRUE)

\* Mutant of RefreshAppSigningKey: the key is shown as in the sandbox.
RefreshAppSigningKeyPrefixed(r, a) == Refresh(r, a, "appSigningKey", FALSE, TRUE)

RefreshAppSigningKey(r, a) == Refresh(r, a, "appSigningKey", FALSE, FALSE)

\* AppAuthenticationMiddleware: the prefix chooses the key to compare with.
Authenticates(s) ==
  LET field == IF s.key.prefix THEN "sandBoxAPIKey" ELSE "apiKey" IN
  s.app \in DOMAIN apps /\ s.kind = field /\ apps[s.app][field].n = s.key.n

\* The developer decrypts what is signed for the application with the key shown.
Decrypts(s) == s.app \in DOMAIN apps /\ apps[s.app][s.kind] = s.key

(***************************************************************************)
(* Settings and features.                                                    *)
(***************************************************************************)
\* UpdateApplication and UpdateAccessRefreshTokenTTL: the fields that the body
\* names are set in one update, by the id and the workspace of the session.
UpdateApplication(a, payload) ==
  /\ apps' = UpdatePartialByFilter(apps, [id |-> a, workspaceID |-> Workspace], payload)
  /\ UNCHANGED <<users, plan, task, reqVars, shown, moved, pager, faults>>

InToggle == {"setPin", "setMFA"}

\* The subscription of an application changes (module Billing).
BuyPlan(a, p) ==
  /\ a \in DOMAIN apps /\ p # plan[a] /\ plan' = [plan EXCEPT ![a] = p]
  /\ moved' = moved \cup {r \in Requests : pc[r] \in InToggle /\ app[r] = a}
  /\ UNCHANGED <<apps, users, task, reqVars, shown, pager, faults>>

\* Both toggles look up the subscription by the id of the application, then write
\* the setting.
TogglePinProtectionSetting(r, a) ==
  /\ pc[r] = "idle" /\ plan[a] \in {"Essential", "Premium"} /\ Goto(r, "setPin", a, {})
  /\ UNCHANGED <<apps, users, plan, task, nextKey, shown, moved, pager, faults>>

\* Mutant of ToggleMFAProtectionSetting: the subscription of any application will do.
ToggleMFAOfAnother(r, a) ==
  /\ pc[r] = "idle" /\ (\E b \in AppIds : plan[b] = "Premium") /\ Goto(r, "setMFA", a, {})
  /\ UNCHANGED <<apps, users, plan, task, nextKey, shown, moved, pager, faults>>

ToggleMFAProtectionSetting(r, a) ==
  /\ pc[r] = "idle" /\ plan[a] = "Premium" /\ Goto(r, "setMFA", a, {})
  /\ UNCHANGED <<apps, users, plan, task, nextKey, shown, moved, pager, faults>>

SetFeature(r) ==
  /\ pc[r] \in InToggle /\ Ended(r) /\ moved' = moved \ {r}
  /\ \E on \in BOOLEAN :
       apps' = UpdatePartialByID(apps, app[r],
                 Only(IF pc[r] = "setPin" THEN "pinProtected" ELSE "requireAppMFA", on))
  /\ UNCHANGED <<users, plan, task, nextKey, shown, pager, faults>>

(***************************************************************************)
(* Deletion: the application is disabled, and a task is to remove it.          *)
(***************************************************************************)
FindForDeletion(r, a) ==
  /\ pc[r] = "idle" /\ FindByID(apps, a) # NoDoc /\ Goto(r, "disable", a, {})
  /\ UNCHANGED <<apps, users, plan, task, nextKey, shown, moved, pager, faults>>

\* The workspace of the context, in the handler: the route of the deletion hands on no
\* Keys (RouteTable), so that it is empty, and so it is in the payload of the task.
\* None stands for the empty id.
HandedWorkspace == None

\* Mutant of Disable: the update goes by the workspace, as that of UpdateApplication.
DisableInWorkspace(r) ==
  /\ pc[r] = "disable" /\ Goto(r, "enqueue", app[r], {}) /\ Fine
  /\ apps' = UpdatePartialByFilter(apps, [id |-> app[r], workspaceID |-> HandedWorkspace],
                                   [disabled |-> TRUE])
  /\ UNCHANGED <<users, plan, task, nextKey, shown, moved, pager>>

\* The result of the update is dropped.
Disable(r) ==
  /\ pc[r] = "disable" /\ Goto(r, "enqueue", app[r], {})
  /\ \/ apps' = UpdatePartialByID(apps, app[r], [disabled |-> TRUE]) /\ Fine
     \/ UNCHANGED apps /\ Fault("disable")
  /\ UNCHANGED <<users, plan, task, nextKey, shown, moved, pager>>

EnqueueDeletion(r) ==
  /\ pc[r] = "enqueue" /\ Ended(r)
  /\ \/ /\ \E t \in Tasks : /\ task[t].st = "none"
                            /\ task' = [task EXCEPT ![t] = [st |-> "find", app |-> app[r]]]
        /\ Fine
     \/ UNCHANGED task /\ Fault("enqueue")
  /\ UNCHANGED <<apps, users, plan, nextKey, shown, moved, pager>>

StepTask(t, st) == task' = [task EXCEPT ![t].st = st]

\* HandleAppDeletionTask.  An application that is not disabled was "recovered"; one
\* that cannot be found is dereferenced and the task archived, as is one whose worker
\* stops: nothing is retried.
FindDeleted(t) ==
  /\ task[t].st = "find"
  /\ StepTask(t, IF \E a \in DOMAIN apps : a = task[t].app /\ apps[a].disabled
                 THEN "remove" ELSE "done")
  /\ UNCHANGED <<apps, users, plan, reqVars, shown, moved, pager, faults>>

\* No application has the empty workspace of the payload: the filter matches none.
RemoveApp(t) ==
  /\ task[t].st = "remove" /\ StepTask(t, "users")
  /\ apps' \in RemoveFromDatabase(apps, [id |-> task[t].app, workspaceID |-> HandedWorkspace])
  /\ UNCHANGED <<users, plan, reqVars, shown, moved, pager, faults>>

\* Nor has any AppUser, and the appID is the _id where AppUsers have the public one.
RemoveUsers(t) ==
  /\ task[t].st = "users" /\ StepTask(t, "done")
  /\ users' \in RemoveFromDatabase(users, [appID |-> task[t].app, workspaceID |-> HandedWorkspace])
  /\ UNCHANGED <<apps, plan, reqVars, shown, moved, pager, faults>>

WorkerDies(t) ==
  /\ task[t].st \in {"find", "remove", "users"} /\ StepTask(t, "done") /\ Fault("worker")
  /\ UNCHANGED <<apps, users, plan, reqVars, shown, moved, pager>>

(***************************************************************************)
(* Users of the applications.                                                *)
(***************************************************************************)
\* The document is among those the walk of a client is about.
InWalk(p, u, docs) ==
  /\ u \in DOMAIN docs /\ docs[u].appID = p.app
  /\ p.blocked # None => docs[u].blocked = p.blocked

\* Ghost: what was in the walk all along.
Stayed(docs) == {u \in pager.stayed : InWalk(pager, u, docs)}

WriteUsers(docs) == users' = docs /\ pager' = [pager EXCEPT !.stayed = Stayed(docs)]

\* ApplicationSignUp creates an AppUser (module AppSignUp).
SignUp(u, a) ==
  /\ u \notin DOMAIN users /\ a \in DOMAIN apps
  /\ WriteUsers(CreateOne(users, u, [appID |-> PublicID(a), workspaceID |-> Workspace,
                                     blocked |-> FALSE]))
  /\ UNCHANGED <<apps, plan, task, reqVars, shown, moved, faults>>

\* BlockAccounts and UnblockAccounts: the documents with these ids that belong
\* to the application of the path.
BlockAccounts(ids, appID, blocked) ==
  /\ WriteUsers([u \in DOMAIN users |->
                   IF u \in ids /\ users[u].appID = appID
                   THEN Set(users[u], [blocked |-> blocked]) ELSE users[u]])
  /\ UNCHANGED <<apps, plan, task, reqVars, shown, moved, faults>>

\* A client asks for the pages of FetchAppUsers one after the other, each from
\* the last id of the one before, until one is empty.
StartWalk(a, blocked, size, sort) ==
  LET p == [NoPager EXCEPT !.app = PublicID(a), !.blocked = blocked,
                           !.size = size, !.sort = sort] IN
  /\ pager = NoPager /\ a \in DOMAIN apps
  /\ pager' = [p EXCEPT !.stayed = {u \in DOMAIN users : InWalk(p, u, users)}]
  /\ UNCHANGED <<apps, users, plan, task, reqVars, shown, moved, faults>>

\* Mutant of PageFilter: blocked accounts are left out of the next pages.
PageFilterUnblocked(p) == [appID |-> p.app, blocked |-> FALSE]

PageFilter(p) == IF p.blocked = None THEN [appID |-> p.app]
                 ELSE [appID |-> p.app, blocked |-> p.blocked]

\* The lists of some ids in order: there is one.
InOrder(ids, sort) ==
  {s \in [1..Cardinality(ids) -> ids] :
     \A i, j \in DOMAIN s : i < j => IF sort = 1 THEN s[i] < s[j] ELSE s[i] > s[j]}

FetchAppUsers ==
  /\ pager # NoPager /\ ~pager.done
  /\ \E page \in InOrder(FindManyPaginated(users, PageFilter(pager), pager.size,
                                           pager.last, pager.sort), pager.sort) :
       pager' = IF page = <<>> THEN [pager EXCEPT !.done = TRUE]
                ELSE [pager EXCEPT !.last = page[Len(page)], !.got = @ \o page]
  /\ UNCHANGED <<apps, users, plan, task, reqVars, shown, moved, faults>>

--------------------------------------------------------------------------------
Creation == \E r \in Requests : CountApps(r) \/ InsertApp(r) \/ Answer(r) \/ RequestDies(r)

Keys == \E r \in Requests, a \in AppIds :
  \/ RefreshAppAPIKey(r, a) \/ RefreshSandboxAppAPIKey(r, a)
  \/ RefreshAppSigningKey(r, a) \/ RefreshSandboxAppSigningKey(r, a)

Features ==
  \/ \E a \in AppIds, s \in Settings, v \in {0, 1} : UpdateApplication(a, Only(s, v))
  \/ \E a \in AppIds, p \in Plans : BuyPlan(a, p)
  \/ \E r \in Requests : \/ \E a \in AppIds : \/ TogglePinProtectionSetting(r, a)
                                              \/ ToggleMFAProtectionSetting(r, a)
                         \/ SetFeature(r)

DeletionTask(t) == FindDeleted(t) \/ RemoveApp(t) \/ RemoveUsers(t)

Deletion ==
  \/ \E r \in Requests : \/ \E a \in AppIds : FindForDeletion(r, a)
                         \/ Disable(r) \/ EnqueueDeletion(r)
  \/ \E t \in Tasks : DeletionTask(t) \/ WorkerDies(t)

SignUps == \E u \in UserIds, a \in AppIds : SignUp(u, a)

Users ==
  \/ \E ids \in SUBSET UserIds, a \in AppIds, b \in BOOLEAN :
       \E id \in {a, PublicID(a)} : BlockAccounts(ids, id, b)
  \/ \E a \in AppIds, b \in BOOLEAN \cup {None}, n \in PageSizes, sort \in {1, -1} :
       StartWalk(a, b, n, sort)
  \/ FetchAppUsers

Next == Creation \/ Keys \/ Features \/ Deletion \/ SignUps \/ Users

Spec == Init /\ [][Next]_vars

(***************************************************************************)
(* Properties.                                                               *)
(***************************************************************************)
\* Requests that counted at the same time overshoot the limit of applications,
\* but only by the others that were in flight.  No deletion frees a place.
AppsBound ==
  Cardinality(DOMAIN apps) + Cardinality({r \in Requests : pc[r] = "insert"})
    <= Limit - 1 + Cardinality(Requests)

Out == shown \cup UNION {offer[r] : r \in Requests}

\* Whatever refreshes overlap, some client holds - or is about to be shown - the
\* live key that opens the developer API for an application, and the key that
\* decrypts what is signed for it, unless the process died before it answered.
LiveKeysHeld ==
  "died" \notin faults =>
    \A a \in DOMAIN apps :
      /\ \E s \in Out : s.app = a /\ ~s.key.prefix /\ Authenticates(s)
      /\ \E s \in Out : s.app = a /\ s.kind = "appSigningKey" /\ Decrypts(s)

\* The handler that turns a feature on for an application: its subscription had a plan
\* with the feature, unless that plan changed between the lookup and the write.
TurnsOn(r, a, place, enough) ==
  pc[r] = place /\ pc'[r] = "idle" /\ app[r] = a /\ (plan[a] \in enough \/ r \in moved)

WasOff(a, feature) == a \in DOMAIN apps => ~apps[a][feature]

PaidSwitch ==
  \A a \in DOMAIN apps' :
    /\ apps'[a].pinProtected /\ WasOff(a, "pinProtected") =>
         \E r \in Requests : TurnsOn(r, a, "setPin", {"Essential", "Premium"})
    /\ apps'[a].requireAppMFA /\ WasOff(a, "requireAppMFA") =>
         \E r \in Requests : TurnsOn(r, a, "setMFA", {"Premium"})

\* Pin protection and MFA are turned on only under a plan of that very application
\* that has them - not under a plan of another application, nor under one that was
\* given up before the request came.
FeaturesWerePaid == [][PaidSwitch]_vars

\* A walk through the pages gives no AppUser twice, and every AppUser that was
\* there, and matched, from the first page to the last - whoever signs up, is
\* blocked or unblocked in the meantime.
PagesComplete ==
  /\ \A i, j \in DOMAIN pager.got : i # j => pager.got[i] # pager.got[j]
  /\ pager.done => \A u \in pager.stayed : \E i \in DOMAIN pager.got : pager.got[i] = u

\* Whatever other handlers write into it meanwhile, an application whose deletion was
\* queued is disabled, unless the update failed: the task finds what it was queued for.
QueuedIsDisabled ==
  \A t \in Tasks : task[t].st # "none" =>
    /\ task[t].app \in DOMAIN apps
    /\ apps[task[t].app].disabled \/ "disable" \in faults

DeletionsStand == TypeOK /\ QueuedIsDisabled

\* As the code stands a deletion leaves every application and every AppUser behind: no
\* step takes a document away.
NothingRemoved ==
  [][DOMAIN apps \subseteq DOMAIN apps' /\ DOMAIN users \subseteq DOMAIN users']_vars

================================================================================
