-------------------------------- MODULE Routes --------------------------------
(***************************************************************************)
(* The chain a request of the web client goes through: UserAgentMiddleware   *)
(* makes a context, the middleware of the route authenticates the caller and  *)
(* replaces it, the route hands some of its fields to a handler, and the      *)
(* handler reads them.  Sessions are opened, refreshed and removed meanwhile. *)
(***************************************************************************)
EXTENDS RouteTable

vars == <<session, live, otps, stage, req, ctx, given, held>>
cacheVars == <<session, live, otps>>

-----------------------------------------------------------------------------
NoCtx == [keys |-> {}, fields |-> {}, who |-> 0]
NoReq == [route |-> None, device |-> None, cookie |-> [k \in Kinds |-> 0], otp |-> None]

Init ==
  /\ session = <<>>
  /\ live = [k \in Kinds |-> [t \in Types |-> [d \in Devices |-> 0]]]
  /\ otps = [given |-> {}, recorded |-> None, used |-> {}]
  /\ stage = [r \in Requests |-> "idle"] /\ req = [r \in Requests |-> NoReq]
  /\ ctx = [r \in Requests |-> NoCtx] /\ given = [r \in Requests |-> {}]
  /\ held = [r \in Requests |-> {}]

\* The tokens the middleware of a request compares the one it brought with.
Slots(auth) == CASE auth = "user"      -> {<<"user", "access">>}
                 [] auth = "workspace" -> {<<"workspace", "access">>}
                 [] auth = "refresh"   -> {<<"user", "refresh">>, <<"workspace", "refresh">>}
                 [] OTHER              -> {}
InCache(cache, route, device) == {cache[s[1]][s[2]][device] : s \in Slots(Router[route].auth)}
Hold(r) == IF stage[r] \in {"idle", "agent"} THEN held[r]
           ELSE held[r] \cup InCache(live', req[r].route, req[r].device)

Finish(r) ==
  /\ stage' = [stage EXCEPT ![r] = "idle"] /\ req' = [req EXCEPT ![r] = NoReq]
  /\ ctx' = [ctx EXCEPT ![r] = NoCtx] /\ given' = [given EXCEPT ![r] = {}]
  /\ held' = [held EXCEPT ![r] = {}]

\* A client calls a route with the cookies it was given, whosever device it names.
Arrive(r, route, device, cookie, otp) ==
  /\ stage[r] = "idle"
  /\ stage' = [stage EXCEPT ![r] = "agent"]
  /\ req' = [req EXCEPT ![r] = [route |-> route, device |-> device, cookie |-> cookie,
                                otp |-> otp]]
  /\ UNCHANGED <<cacheVars, ctx, given, held>>

\* A request whose headers name no device, or no agent, is refused.
UserAgentMiddleware(r) ==
  /\ stage[r] = "agent"
  /\ IF req[r].device = None THEN Finish(r)
     ELSE /\ stage' = [stage EXCEPT ![r] = IF Auth(r) = "none" THEN "bind" ELSE "auth"]
          /\ ctx' = [ctx EXCEPT ![r].fields = {"DeviceID", "DeviceName", "UserAgent", "Header"}]
          /\ held' = [held EXCEPT ![r] = InCache(live, req[r].route, req[r].device)]
          /\ UNCHANGED <<req, given>>
  /\ UNCHANGED cacheVars

\* Mutant of Rebuilt: the device of the request is left out.
RebuiltWithoutDevice(r, keys, who) ==
  ctx' = [ctx EXCEPT ![r] = [keys |-> @.keys \cup keys, fields |-> {"Header"}, who |-> who]]

\* The middleware of a route makes a context anew, of the keys so far, the headers
\* and the device.
Rebuilt(r, keys, who) ==
  ctx' = [ctx EXCEPT ![r] = [keys |-> @.keys \cup keys, fields |-> {"Header", "DeviceID"},
                             who |-> who]]

Authenticated(r, step, keys, who) ==
  /\ stage' = [stage EXCEPT ![r] = step] /\ Rebuilt(r, keys, who)
  /\ UNCHANGED <<req, given, held>>

\* Mutant of Genuine: any session of the device will do.
GenuineIfAny(r, kind, type) ==
  LET n == req[r].cookie[kind] IN
  /\ n # 0 /\ live[kind][type][req[r].device] # 0 /\ session[n].device = req[r].device

\* The token that was brought is the one in the cache, and made for the device.
Genuine(r, kind, type) ==
  LET n == req[r].cookie[kind] IN
  /\ n # 0 /\ live[kind][type][req[r].device] = n /\ session[n].device = req[r].device

UserAuthenticationMiddleware(r) ==
  LET n == req[r].cookie["user"] IN
  /\ stage[r] = "auth" /\ Auth(r) = "user"
  /\ IF Genuine(r, "user", "access") /\ Demand(r) \in {None, session[n].intent}
     THEN Authenticated(r, "bind", {"UserID", "Email", "Phone", "Keys.UserAgent",
                                    "Keys.DeviceID"}, n)
     ELSE Finish(r)
  /\ UNCHANGED cacheVars

\* The token first; then some member of its workspace is found, whose permissions
\* count for the caller; then the workspace, whose absence refuses the request too.
\* No member is ever deactivated, and no route demands an intent here.
WorkspaceAuthenticationMiddleware(r) ==
  LET n == req[r].cookie["workspace"] IN
  /\ stage[r] = "auth" /\ Auth(r) = "workspace"
  /\ IF Genuine(r, "workspace", "access")
     THEN stage' = [stage EXCEPT ![r] = "member"] /\ UNCHANGED <<req, ctx, given, held>>
     ELSE Finish(r)
  /\ UNCHANGED cacheVars

FindMember(r) ==
  LET n == req[r].cookie["workspace"] IN
  /\ stage[r] = "member"
  /\ \/ \E m \in Members :
          /\ Of[m] = Of[session[n].account]
          /\ IF Grants[m] \cap {Demand(r), "super"} # {}
             THEN Authenticated(r, "bind", {"UserID", "WorkspaceID", "WorkspaceName",
                    "WorkspaceEmail", "Email", "Keys.UserAgent", "Keys.DeviceID"}, n)
             ELSE Finish(r)
     \/ Finish(r)   \* an error of one of the two queries
  /\ UNCHANGED cacheVars

OTPTokenMiddleware(r) ==
  /\ stage[r] = "auth" /\ Auth(r) = "otp"
  /\ IF /\ req[r].otp \in otps.given \ otps.used
        /\ req[r].otp = otps.recorded /\ req[r].otp = Demand(r)
     THEN Authenticated(r, "bind", {"OTPToken", "OTPEmail", "OTPPhone"}, 0)
     ELSE Finish(r)
  /\ UNCHANGED cacheVars

\* Both routes take the cookie of the user when there is one, else of the workspace.
RefreshTokenMiddleware(r) ==
  LET kind == IF req[r].cookie["user"] # 0 THEN "user" ELSE "workspace" IN
  /\ stage[r] = "auth" /\ Auth(r) = "refresh"
  /\ IF Genuine(r, kind, "refresh")
     THEN Authenticated(r, "bind", {"UserID", "Email", "Phone"}, req[r].cookie[kind])
     ELSE Finish(r)
  /\ UNCHANGED cacheVars

Bind(r) ==
  LET passes == Router[req[r].route].passes IN
  /\ stage[r] = "bind"
  /\ given' = [given EXCEPT ![r] =
       (IF "Keys" \in passes THEN ctx[r].keys ELSE {})
       \cup (passes \cap ctx[r].fields)
       \cup (passes \ {"Keys", "DeviceID", "DeviceName", "UserAgent"})]
  /\ stage' = [stage EXCEPT ![r] = "handler"]
  /\ UNCHANGED <<cacheVars, req, ctx, held>>

-----------------------------------------------------------------------------
\* New tokens, of both types, take the place of those of the device.
Opened(kind, device, account, intent) ==
  /\ Len(session) < MaxSessions
  /\ session' = Append(session, [kind |-> kind, device |-> device, account |-> account,
                                 intent |-> intent])
  /\ live' = [live EXCEPT ![kind] = [t \in Types |-> [@[t] EXCEPT ![device] = Len(session')]]]
  /\ UNCHANGED otps

\* A missing parameter may make a handler panic, which is answered; another missing
\* value is "".  The two refreshes open a session, if they find an account of their
\* kind; what other handlers do is the matter of other modules.
Rotates(r) ==
  \/ req[r].route = "RefreshToken" /\ session[ctx[r].who].kind = "user"
  \/ req[r].route = "WorkspaceRefreshToken" /\ session[ctx[r].who].kind = "workspace"
Handler(r) ==
  /\ stage[r] = "handler"
  /\ \/ Finish(r) /\ UNCHANGED cacheVars
     \/ /\ Auth(r) = "refresh" /\ Rotates(r)
        /\ LET s == session[ctx[r].who] IN Opened(s.kind, req[r].device, s.account, None)
        /\ stage' = [stage EXCEPT ![r] = "idle"] /\ req' = [req EXCEPT ![r] = NoReq]
        /\ ctx' = [ctx EXCEPT ![r] = NoCtx] /\ given' = [given EXCEPT ![r] = {}]
        /\ held' = [q \in Requests |-> IF q = r THEN {} ELSE Hold(q)]

\* A log-in, or a verification that ends with one, of modules Account and Workspace.
LogIn(kind, device, account, intent) ==
  /\ account \in (IF kind = "user" THEN Users ELSE Members)
  /\ kind = "workspace" => intent = None
  /\ Opened(kind, device, account, intent)
  /\ held' = [r \in Requests |-> Hold(r)]
  /\ UNCHANGED <<stage, req, ctx, given>>

\* A token is taken out of the cache, by its time to live or a denied log-in.
Expire(kind, type, device) ==
  /\ live[kind][type][device] # 0
  /\ live' = [live EXCEPT ![kind][type][device] = 0]
  /\ UNCHANGED <<session, otps, stage, req, ctx, given, held>>

\* Module OtpChannel: an intent is recorded, a token given for it, and used.
OtpStep ==
  /\ \E i \in {Router[h].demand : h \in {x \in Served : Router[x].auth = "otp"}} :
       \/ otps.recorded # i /\ otps' = [otps EXCEPT !.recorded = i]
       \/ otps.recorded = i /\ i \notin otps.given /\ otps' = [otps EXCEPT !.given = @ \cup {i}]
       \/ i \in otps.given \ otps.used /\ otps' = [otps EXCEPT !.used = @ \cup {i}]
  /\ UNCHANGED <<session, live, stage, req, ctx, given, held>>

Cookies(kind) == {0} \cup {n \in DOMAIN session : session[n].kind = kind}
Arrivals(handlers, devices) ==
  \E r \in Requests, h \in handlers, d \in devices :
    \E u \in Cookies("user"), w \in Cookies("workspace"), i \in otps.given \cup {None} :
      /\ Router[h].auth \notin {"user", "refresh"} => u = 0
      /\ Router[h].auth \notin {"workspace", "refresh"} => w = 0
      /\ Router[h].auth # "otp" => i = None
      /\ Arrive(r, h, d, [user |-> u, workspace |-> w], i)

Chain(r) ==
  \/ UserAgentMiddleware(r) \/ UserAuthenticationMiddleware(r)
  \/ WorkspaceAuthenticationMiddleware(r) \/ FindMember(r) \/ OTPTokenMiddleware(r)
  \/ RefreshTokenMiddleware(r) \/ Bind(r) \/ Handler(r)

Sessions(devices) ==
  \E k \in Kinds, d \in devices :
    \/ \E a \in Users \cup Members, i \in {None, "face_verification"} : LogIn(k, d, a, i)
    \/ \E t \in Types : Expire(k, t, d)

Next ==
  \/ Arrivals(Served, Devices \cup {None}) \/ Sessions(Devices) \/ OtpStep
  \/ \E r \in Requests : Chain(r)

Spec == Init /\ [][Next]_vars
================================================================================
