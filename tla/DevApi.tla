-------------------------------- MODULE DevApi --------------------------------
(***************************************************************************)
(* The developer API: requests of applications, known by an API key, pass the  *)
(* authentication of their route - several times on some - and are counted by   *)
(* the rate limit at each pass.  The handlers answer with an application, with   *)
(* the records of the identity provider, or with a face comparison or liveness   *)
(* check (module Face), which a sandbox key gets made up.                       *)
(*                                                                         *)
(* Time passes in ticks, of which a window of the rate limit has Window.         *)
(***************************************************************************)
EXTENDS Face, FiniteSets

CONSTANTS
  Apps,
  InProduction,    \* APP_ENV is not "dev"
  Limit, Window,   \* requests, and ticks, of the rate limit
  MaxKey,          \* bound on the keys an application has one after the other
  Pictures,        \* the pictures requests may bring: sequences of one or two
  Bars,            \* the thresholds of requests
  ModelSets,       \* the sets of models that may be loaded
  MayFail          \* the sets of failures a behaviour may have

ASSUME DevApiAssumption ==
  /\ IsFiniteSet(Requests) /\ Limit \in Nat \ {0} /\ Window \in Nat \ {0}
  /\ MaxKey \in Nat \ {0}
  /\ \A p \in Pictures : p \in Seq(Images) /\ Len(p) \in {1, 2}
  /\ Bars \subseteq 1..1000 /\ ModelSets \subseteq SUBSET Models /\ {} \in MayFail

VARIABLES
  keys,     \* of an application and environment: the number of its present key
  window,   \* of an application: the counter of the rate limit, and its ticks to live
  pc, req,  \* of a request: where it is, and what it brought
  todo,     \* of a request: the passes of the authentication that are left
  ctx,      \* of a request: the context that the last pass left in gin
  was,      \* ghost: the keys of the application that were good during the request
  recent,   \* ghost: of each n, the passes let through in the last n ticks
  busy,     \* ghost: the passes since the last Window ticks without any
  quiet,    \* ghost: the ticks since the last pass
  turned,   \* ghost: how busy an application was when a pass was refused
  faults    \* ghost: the kinds of failures so far

keyVars == <<keys, was>>
rateVars == <<window, recent, busy, quiet, turned>>
reqVars == <<pc, req, todo, ctx>>
apiVars == <<keyVars, rateVars, reqVars, faults>>
vars == <<apiVars, faceVars>>

Envs == {"live", "sandbox"}
Routes == {"fetch", "compare-faces", "liveness-check", "kyc"}
Steps == {"idle", "pass", "find", "handler", "face"}
Unlimited == Window + 1   \* a counter without a time to live

\* The group, and each of its routes, authenticate; in production two groups do.
Passes(route) == CASE route = "fetch" -> 1
                   [] route = "kyc"   -> IF InProduction THEN 3 ELSE 2
                   [] OTHER           -> IF InProduction THEN 2 ELSE 1

NoReq == [route |-> "fetch", app |-> None, env |-> "live", key |-> 0]
Requested == [route : Routes, app : Apps \cup {None}, env : Envs, key : 0..MaxKey]
Contexts == [app : Apps, sandbox : BOOLEAN]

TypeOK ==
  /\ keys \in [Apps -> [Envs -> 1..MaxKey]]
  /\ window \in [Apps -> [count : 0..Limit + 1, left : 0..Unlimited]]
  /\ pc \in [Requests -> Steps] /\ req \in [Requests -> Requested]
  /\ todo \in [Requests -> 0..3] /\ ctx \in [Requests -> Contexts \cup {None}]
  /\ was \in [Requests -> SUBSET (1..MaxKey)]
  /\ recent \in [Apps -> [1..Window -> Nat]] /\ busy \in [Apps -> 0..Limit + 1]
  /\ quiet \in [Apps -> 0..Window] /\ turned \subseteq 0..Limit + 1
  /\ faults \in MayFail
  /\ FaceTypeOK

Init ==
  /\ keys = [a \in Apps |-> [e \in Envs |-> 1]]
  /\ window = [a \in Apps |-> [count |-> 0, left |-> 0]]
  /\ pc = [r \in Requests |-> "idle"] /\ req = [r \in Requests |-> NoReq]
  /\ todo = [r \in Requests |-> 0]    /\ ctx = [r \in Requests |-> None]
  /\ was = [r \in Requests |-> {}]
  /\ recent = [a \in Apps |-> [n \in 1..Window |-> 0]]
  /\ busy = [a \in Apps |-> 0] /\ quiet = [a \in Apps |-> Window]
  /\ turned = {} /\ faults = {}
  /\ FaceInit

Fault(kind) == kind \notin faults /\ faults' = faults \cup {kind} /\ faults' \in MayFail
Fine == UNCHANGED faults

Here(r, step) == pc[r] = step /\ ~crashed
To(r, step) == pc' = [pc EXCEPT ![r] = step] /\ UNCHANGED <<req, todo, ctx>>
\* The request is answered, and nothing of it is left.
Finish(r) ==
  /\ pc' = [pc EXCEPT ![r] = "idle"] /\ req' = [req EXCEPT ![r] = NoReq]
  /\ todo' = [todo EXCEPT ![r] = 0]  /\ ctx' = [ctx EXCEPT ![r] = None]
  /\ was' = [was EXCEPT ![r] = {}]

-----------------------------------------------------------------------------
\* A client sends a key that its application has or had.
Arrive(r, route, a, e, k) ==
  /\ Here(r, "idle") /\ k <= keys[a][e]
  /\ req' = [req EXCEPT ![r] = [route |-> route, app |-> a, env |-> e, key |-> k]]
  /\ pc' = [pc EXCEPT ![r] = "pass"] /\ todo' = [todo EXCEPT ![r] = Passes(route)]
  /\ was' = [was EXCEPT ![r] = {keys[a][e]}]
  /\ UNCHANGED <<keys, ctx, rateVars, faceVars>> /\ Fine

\* A pass is seen by the ghosts, let through or not.
Passing(a, through) ==
  /\ quiet' = [quiet EXCEPT ![a] = 0]
  /\ busy' = [busy EXCEPT ![a] = IF quiet[a] >= Window THEN 1
                                 ELSE IF @ > Limit THEN @ ELSE @ + 1]
  /\ recent' = IF through THEN [recent EXCEPT ![a] = [n \in 1..Window |-> @[n] + 1]] ELSE recent
  /\ turned' = IF through THEN turned ELSE turned \cup {busy'[a]}

\* Counts above the limit are not told apart.
Incremented(a) == IF window[a].count > Limit THEN window[a].count ELSE window[a].count + 1

Counted(r, left) ==
  LET a == req[r].app  n == Incremented(a) IN
  /\ window' = [window EXCEPT ![a] = [count |-> n, left |-> left]]
  /\ Passing(a, n <= Limit)
  /\ IF n <= Limit THEN To(r, "find") /\ UNCHANGED was ELSE Finish(r)

\* Mutant of CheckRateLimit: the expiry is set only when the key did not exist.
CheckRateLimitExpiresOnce(r) ==
  LET w == window[req[r].app] IN
  /\ Here(r, "pass") /\ todo[r] > 0
  /\ Fine /\ Counted(r, IF w.left = 0 THEN Window ELSE w.left)
  /\ UNCHANGED <<keys, faceVars>>

\* INCR and EXPIRE in one pipeline, at every pass.  When Redis fails, before INCR
\* or between the two, the pass is let through.
CheckRateLimit(r) ==
  LET a == req[r].app  w == window[a] IN
  /\ Here(r, "pass") /\ todo[r] > 0
  /\ \/ Fine /\ Counted(r, Window)
     \/ Fault("redis") /\ To(r, "find") /\ UNCHANGED <<was, rateVars>>
     \/ /\ Fault("expire") /\ Passing(a, TRUE) /\ To(r, "find") /\ UNCHANGED was
        /\ window' = [window EXCEPT ![a] = [count |-> Incremented(a),
                        left |-> IF w.left = 0 THEN Unlimited ELSE w.left]]
  /\ UNCHANGED <<keys, faceVars>>

\* The application is found by its id, and the key compared with the one of the
\* environment the key names; an error of the query is no application.  A fresh
\* context replaces that of earlier passes.
FindApp(r) ==
  LET q == req[r] IN
  /\ Here(r, "find")
  /\ \/ /\ q.key = keys[q.app][q.env] /\ Fine
        /\ pc' = [pc EXCEPT ![r] = "pass"] /\ todo' = [todo EXCEPT ![r] = @ - 1]
        /\ ctx' = [ctx EXCEPT ![r] = [app |-> q.app, sandbox |-> q.env = "sandbox"]]
        /\ UNCHANGED <<req, was>>
     \/ q.key # keys[q.app][q.env] /\ Fine /\ Finish(r)
     \/ Fault("find") /\ Finish(r)
  /\ UNCHANGED <<keys, rateVars, faceVars>>

-----------------------------------------------------------------------------
Bind(r) ==
  /\ Here(r, "pass") /\ todo[r] = 0 /\ To(r, "handler")
  /\ UNCHANGED <<keyVars, rateVars, faceVars>> /\ Fine

\* It is given no application id, and finds none.
APIFetchAppDetails(r) ==
  /\ Here(r, "handler") /\ req[r].route = "fetch" /\ Finish(r)
  /\ UNCHANGED <<keys, rateVars, faceVars>> /\ Fine

\* The identity handlers are given no context, and ask the provider in the sandbox too.
APIFetchDetails(r) ==
  /\ Here(r, "handler") /\ req[r].route = "kyc" /\ Finish(r)
  /\ UNCHANGED <<keys, rateVars, faceVars>> /\ Fine

Biometric(r) == Here(r, "handler") /\ req[r].route \in {"compare-faces", "liveness-check"}

\* A sandbox gets a made-up answer, good or bad as the query asks.
MockAnswer(r) ==
  /\ Biometric(r) /\ ctx[r].sandbox /\ Finish(r)
  /\ UNCHANGED <<keys, rateVars, faceVars>> /\ Fine

\* Mutant of StartFace: the context of the middleware is not passed on, as on the
\* routes of the web client.
StartFaceWithoutKeys(r, pictures, threshold, models) ==
  /\ Biometric(r)
  /\ Len(pictures) = (IF req[r].route = "compare-faces" THEN 2 ELSE 1)
  /\ Begin(r, pictures, threshold, models) /\ To(r, "face")
  /\ UNCHANGED <<keyVars, rateVars>> /\ Fine

StartFace(r, pictures, threshold, models) ==
  /\ Biometric(r) /\ ~ctx[r].sandbox
  /\ Len(pictures) = (IF req[r].route = "compare-faces" THEN 2 ELSE 1)
  /\ Begin(r, pictures, threshold, models) /\ To(r, "face")
  /\ UNCHANGED <<keyVars, rateVars>> /\ Fine

AnswerFace(r) ==
  /\ Here(r, "face") /\ verdict[r] # None /\ Finish(r) /\ Forget(r)
  /\ UNCHANGED <<keys, rateVars>> /\ Fine

\* The process ends, with every request it was serving, and is started again.
Restart ==
  /\ Exit
  /\ pc' = [r \in Requests |-> "idle"] /\ req' = [r \in Requests |-> NoReq]
  /\ todo' = [r \in Requests |-> 0]    /\ ctx' = [r \in Requests |-> None]
  /\ was' = [r \in Requests |-> {}]
  /\ UNCHANGED <<keys, rateVars>> /\ Fine

-----------------------------------------------------------------------------
\* Module AppLifecycle: a key is replaced.
RefreshKey(a, e) ==
  /\ keys[a][e] < MaxKey
  /\ keys' = [keys EXCEPT ![a][e] = @ + 1]
  /\ was' = [r \in Requests |-> IF req[r].app = a /\ req[r].env = e
                                THEN was[r] \cup {keys[a][e] + 1} ELSE was[r]]
  /\ UNCHANGED <<rateVars, reqVars, faceVars>> /\ Fine

\* Redis forgets a counter when its time to live is over.
Aged(w) ==
  CASE w.left \in 2..Window -> [w EXCEPT !.left = @ - 1]
    [] w.left = 1           -> [count |-> 0, left |-> 0]
    [] OTHER                -> w

Tick ==
  /\ window' = [a \in Apps |-> Aged(window[a])]
  /\ recent' = [a \in Apps |-> [n \in 1..Window |-> IF n = 1 THEN 0 ELSE recent[a][n - 1]]]
  /\ quiet' = [a \in Apps |-> IF quiet[a] < Window THEN quiet[a] + 1 ELSE Window]
  /\ UNCHANGED <<keyVars, reqVars, busy, turned, faceVars>> /\ Fine

Arrivals ==
  \E r \in Requests, route \in Routes, a \in Apps, e \in Envs, k \in 1..MaxKey :
    Arrive(r, route, a, e, k)

Handle(r) ==
  \/ CheckRateLimit(r) \/ FindApp(r) \/ Bind(r) \/ APIFetchAppDetails(r)
  \/ APIFetchDetails(r) \/ MockAnswer(r)
  \/ \E p \in Pictures, t \in Bars, m \in ModelSets : StartFace(r, p, t, m)
  \/ Work(r) /\ UNCHANGED apiVars
  \/ AnswerFace(r)

Next == Arrivals \/ (\E r \in Requests : Handle(r)) \/ Restart \/ Tick
        \/ \E a \in Apps, e \in Envs : RefreshKey(a, e)

Spec == Init /\ [][Next]_vars

-----------------------------------------------------------------------------
\* CheckRateLimit's limit for a window: in any Window ticks in a row an
\* application gets at most Limit passes through, unless Redis failed.
AdmittedInWindow ==
  faults = {} => \A a \in Apps : recent[a][Window] <= Limit

\* A pass is refused only when more than Limit passes came, no two of them a whole
\* window apart, unless an EXPIRE was lost.  It need not be Limit in one window:
\* refused or not, each pass starts the window again.
RefusedWhenBusy == "expire" \notin faults => \A n \in turned : n > Limit

\* The rate limit admits no more than it says, and refuses only who is busy.
RateKept == AdmittedInWindow /\ RefusedWhenBusy

\* A handler works for an application, and in an environment, whose key was good
\* at some moment since the request came, whatever keys were replaced between the
\* passes of its route; and no picture of a sandbox is ever looked at.
CallersKept ==
  /\ TypeOK
  /\ \A r \in Requests :
       pc[r] \in {"handler", "face"} =>
         /\ req[r].key \in was[r]
         /\ ctx[r] = [app |-> req[r].app, sandbox |-> req[r].env = "sandbox"]
         /\ images[r] # <<>> => req[r].env = "live"
================================================================================
