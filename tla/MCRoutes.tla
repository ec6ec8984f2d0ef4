------------------------------- MODULE MCRoutes -------------------------------
(* TLC instances of Routes.  A behaviour is about requests of any route, one after   *)
(* the other; about one-time tokens; about several sessions on two devices; or about  *)
(* two requests at once and the sessions of one device.                              *)
EXTENDS Routes, TLC

CONSTANTS r1, r2, d1, d2, u1, u2, m1, m2, m3, W1, W2

VARIABLE focus

AllHandlers == Handlers
Workspaces == [m \in {m1, m2, m3} |-> IF m = m3 THEN W2 ELSE W1]
Permissions == [m \in {m1, m2, m3} |-> IF m = m1 THEN {"super"} ELSE {"view_apps", "invite"}]

OtpHandlers == {h \in Handlers : Router[h].auth = "otp"}
Pair == {"SetAccountImage", "RefreshToken", "WorkspaceRefreshToken", "InviteWorkspaceMembers"}

MCInit == Init /\ focus \in {"routes", "codes", "devices", "sessions"}

Alone == Cardinality({r \in Requests : stage'[r] # "idle"}) <= 1
Chained == \E r \in Requests : Chain(r)

MCNext ==
  /\ \/ focus = "routes" /\ (Arrivals(Served, {d1, d2, None}) \/ Chained \/ Sessions({d1}))
                          /\ Len(session') <= 1 /\ Alone
     \/ focus = "codes" /\ (Arrivals(OtpHandlers, {d1}) \/ Chained \/ OtpStep) /\ Alone
     \/ focus = "devices" /\ (Arrivals(Pair, Devices) \/ Chained \/ Sessions(Devices))
                           /\ Len(session') <= 2 /\ Alone
     \/ focus = "sessions" /\ (Arrivals(Pair, {d1}) \/ Chained \/ Sessions({d1}))
                            /\ Cardinality({session'[n].kind : n \in DOMAIN session'}) <= 1
                            /\ \A n \in DOMAIN session' : session'[n].account \in {u1, u2, m1, m2}
  /\ UNCHANGED focus
MCSpec == MCInit /\ [][MCNext]_<<vars, focus>>

Perms == UNION {Permutations(S) : S \in {{r1, r2}, {u1, u2}}}
================================================================================
