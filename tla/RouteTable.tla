------------------------------ MODULE RouteTable ------------------------------
(***************************************************************************)
(* The routes of the web client: who may call each, what it hands on of the   *)
(* context its middleware left, and what its handler reads of that - values   *)
(* that the client cannot be trusted to say.  With the state of the requests  *)
(* that go through the middlewares, and of the sessions they ask for, it says *)
(* what handlers are owed; how requests get there is module Routes.           *)
(*                                                                         *)
(* A session is one log-in on one device; its access and refresh token are    *)
(* known by its number.  The cache holds, for each device and kind of token,   *)
(* the one that was made last.                                               *)
(***************************************************************************)
EXTENDS Integers, Sequences, FiniteSets, Clients

CONSTANTS
  Users, Members,  \* the accounts with sessions of either kind
  Of, Grants,      \* of a member: the workspace, and the permissions there
  MaxSessions,     \* bound on the log-ins and refreshes of a behaviour
  Served           \* the handlers whose routes are requested

VARIABLES
  session,   \* the sessions there have been: kind, device, account and intent
  live,      \* the cache: of a kind and type of token and a device, a session or 0
  otps,      \* the intents one-time tokens were given for; those recorded; those used
  stage,     \* of a request: where it is
  req,       \* and what it brought
  ctx,       \* of a request: the keys and fields of its context, and its session
  given,     \* of a request: what its handler was handed
  held       \* ghost: the sessions the cache held for the device during the request

Kinds == {"user", "workspace"}
Types == {"access", "refresh"}

-----------------------------------------------------------------------------
\* A route: the middleware, what that demands (a permission, or an intent), and
\* the fields of the context, or values of its own, that it passes on.
Route(auth, demand, passes) == [auth |-> auth, demand |-> demand, passes |-> passes]
ById == {"Keys", "Param.id"}

\* Two tables as one, the first of which counts where both have an entry.
f ++ g == [h \in DOMAIN f \cup DOMAIN g |-> IF h \in DOMAIN f THEN f[h] ELSE g[h]]

AppRoutes == [
  CreateApplication         |-> Route("workspace", "create_apps", {"Keys"}),
  UpdateWhiteListedIPs      |-> Route("workspace", "create_apps", {"Keys"}),
  UpdateApplication         |-> Route("workspace", "edit_apps", ById),
  RefreshAppAPIKey          |-> Route("workspace", "edit_apps", ById),
  RefreshSandboxAppAPIKey   |-> Route("workspace", "edit_apps", ById),
  RefreshAppSigningKey      |-> Route("workspace", "edit_apps", ById),
  RefreshSandboxAppSigningKey |-> Route("workspace", "edit_apps", ById),
  FetchWorkspaceApps        |-> Route("workspace", "view_apps", {"Keys"})]

AppPageRoutes == [
  FetchAppDetails   |-> Route("none", None, {"ip", "accessToken", "Param.id", "DeviceID"}),
  DeleteApplication |-> Route("workspace", "delete_apps", {"Param.id"}),
  FetchAppCreationConfigInfo |-> Route("workspace", "create_apps", {}),
  ApplicationSignUp |-> Route("user", None, {"Keys", "ip"}),
  FetchAppUsers     |-> Route("workspace", "user_view", {"Keys"}),
  ToggleMFAProtectionSetting |-> Route("workspace", "user_view", {"Keys"})]

AppUserRoutes == [
  BlockAccounts   |-> Route("workspace", "user_block", ById),
  UnblockAccounts |-> Route("workspace", "user_block", ById),
  UpdateAccessRefreshTokenTTL |-> Route("workspace", "edit_apps", ById),
  GetAppMetrics       |-> Route("workspace", "view_apps", {"Keys"}),
  SubmitCustomAppForm |-> Route("user", None, {"Keys"}),
  FetchActivityLogs   |-> Route("workspace", "view_apps", {"Keys"})]

AuthRoutes == [
  VerifyOTP         |-> Route("none", None, {"DeviceID"}),
  VerifyUserAccount |-> Route("otp", "verify_account", {"Keys", "DeviceID"}),
  VeirfyDeviceImage |-> Route("none", None, {"Keys", "DeviceID"}),
  RefreshToken      |-> Route("refresh", None, {"Keys", "DeviceID"}),
  WorkspaceRefreshToken |-> Route("refresh", None, {"Keys", "DeviceID"}),
  AuthenticateUser  |-> Route("none", None, {"Keys", "DeviceID", "DeviceName", "UserAgent"}),
  ResendOTP         |-> Route("none", None, {"Keys"})]

UserRoutes == [
  SetAccountImage   |-> Route("user", "face_verification", {"Keys", "DeviceID"}),
  SetNINDetails     |-> Route("user", None, {"Keys", "DeviceID"}),
  SetDriversLicenseDetails |-> Route("user", None, {"Keys", "DeviceID"}),
  VerifyNINDetails  |-> Route("otp", "verify_nin", {"Keys", "DeviceID"}),
  SetBVNDetails     |-> Route("user", None, {"Keys", "DeviceID"}),
  VerifyBVNDetails  |-> Route("otp", "verify_bvn", {"Keys", "DeviceID"}),
  SetVoterIDDetails |-> Route("user", None, {"Keys", "DeviceID"}),
  VerifyVoterIDDetails |-> Route("otp", "verify_voter_id", {"Keys", "DeviceID"})]

WorkspaceRoutes == [
  CreateWorkspace |->
    Route("none", None, {"Keys", "DeviceID", "DeviceName", "UserAgent", "Param.ip"}),
  InviteWorkspaceMembers |-> Route("workspace", "invite", {"Keys"}),
  VerifyWorkspaceAccount |->
    Route("otp", "verify_workspace", {"Keys", "DeviceID", "DeviceName", "Param.ip"}),
  LoginWorkspaceMember  |-> Route("none", None, {"Keys", "DeviceID", "Param.ip"}),
  CreateHelpRequest     |-> Route("workspace", "create_apps", {"Keys"}),
  FetchHelpRequests     |-> Route("workspace", "super", {"Keys", "DeviceID"}),
  FetchWorkspaceDetails |-> Route("workspace", "super", {"Keys", "DeviceID"})]

MiscRoutes == [
  GeneratedSignedURL   |-> Route("none", None, {"Keys"}),
  GetSubscriptionPlans |-> Route("none", None, {"Keys"}),
  GeneratePaymentLink  |-> Route("workspace", "billing", {"Keys"}),
  GenerateLinkToAddCard |-> Route("workspace", "billing", {"Keys"})]

BiometricRoutes == [h \in {"CompareFaces", "ImageLivenessCheck", "GenerateChallenge",
                           "VideoLivenessCheck", "EnhancedFaceComparison",
                           "EnhancedLivenessCheck", "ImageQualityCheck",
                           "SystemHealthCheck"} |-> Route("none", None, {"DeviceID"})]

Router == AppRoutes ++ AppPageRoutes ++ AppUserRoutes ++ AuthRoutes ++ UserRoutes
          ++ WorkspaceRoutes ++ MiscRoutes ++ BiometricRoutes
Handlers == DOMAIN Router

ASSUME RoutesAssumption ==
  /\ IsFiniteSet(Requests) /\ Users \cap Members = {} /\ None \notin Devices
  /\ MaxSessions \in Nat /\ Members \subseteq DOMAIN Of \cap DOMAIN Grants
  /\ Served \subseteq Handlers /\ None \notin Handlers

\* What a handler reads of its context, error answers and optional values apart.
ApplicationReads ==
  [CreateApplication |-> {"WorkspaceID", "UserID", "Email"},
   FetchAppDetails   |-> {"Param.id", "ip", "accessToken", "DeviceID"},
   DeleteApplication |-> {"Param.id", "WorkspaceID"},
   ApplicationSignUp |-> {"ip", "UserID", "UserAgent", "DeviceID"},
   SubmitCustomAppForm |-> {"UserID"}]
  ++ [h \in {"FetchWorkspaceApps", "FetchAppUsers", "GetAppMetrics"} |-> {"WorkspaceID"}]
  ++ [h \in {"UpdateApplication", "UpdateAccessRefreshTokenTTL", "BlockAccounts",
             "UnblockAccounts"} |-> {"Param.id", "WorkspaceID"}]
  ++ [h \in {"UpdateWhiteListedIPs", "ToggleMFAProtectionSetting", "RefreshAppAPIKey",
             "RefreshAppSigningKey", "RefreshSandboxAppAPIKey",
             "RefreshSandboxAppSigningKey"} |-> {"Param.id"}]

AuthReads ==
  [AuthenticateUser  |-> {"UserAgent", "DeviceID"},
   VerifyUserAccount |-> {"OTPEmail", "OTPPhone", "DeviceID"},
   VerifyWorkspaceAccount |-> {"OTPEmail", "Param.ip", "DeviceID", "DeviceName"}]
  ++ [h \in {"VeirfyDeviceImage", "RefreshToken", "WorkspaceRefreshToken"} |->
        {"UserID", "DeviceID"}]

UserReads ==
  [SetAccountImage |-> {"UserID", "Email", "Phone", "DeviceID"},
   SetDriversLicenseDetails |-> {"UserID"}]
  ++ [h \in {"SetNINDetails", "SetBVNDetails", "SetVoterIDDetails"} |-> {"UserID", "Phone"}]
  ++ [h \in {"VerifyNINDetails", "VerifyBVNDetails", "VerifyVoterIDDetails"} |->
        {"OTPPhone", "UserID", "DeviceID"}]

WorkspaceReads ==
  [CreateWorkspace |-> {"Param.ip", "DeviceID", "DeviceName", "UserAgent"},
   LoginWorkspaceMember |-> {"Param.ip", "DeviceID", "DeviceName"},
   FetchWorkspaceDetails |-> {"WorkspaceID"},
   InviteWorkspaceMembers |-> {"UserID", "WorkspaceID", "WorkspaceName"},
   CreateHelpRequest |-> {"WorkspaceID", "UserID"}, FetchHelpRequests |-> {"WorkspaceID"},
   FetchActivityLogs |-> {"WorkspaceID"}]

MiscReads ==
  [GeneratedSignedURL |-> {"UserID"}, GeneratePaymentLink |-> {"WorkspaceID"},
   GenerateLinkToAddCard |-> {"WorkspaceEmail", "WorkspaceID"}]

\* A handler that is not listed reads nothing.
AllReads == ApplicationReads ++ AuthReads ++ UserReads ++ WorkspaceReads ++ MiscReads
Reads(h) == IF h \in DOMAIN AllReads THEN AllReads[h] ELSE {}

-----------------------------------------------------------------------------
Auth(r) == Router[req[r].route].auth
Demand(r) == Router[req[r].route].demand

SessionsOK ==
  /\ \A n \in DOMAIN session : /\ session[n].kind \in Kinds /\ session[n].device \in Devices
                              /\ session[n].account \in Users \cup Members
  /\ live \in [Kinds -> [Types -> [Devices -> 0..Len(session)]]]
  /\ otps.used \subseteq otps.given
  /\ \A r \in Requests :
       /\ stage[r] \in {"idle", "agent", "auth", "member", "bind", "handler"}
       /\ (req[r].route = None) = (stage[r] = "idle") /\ ctx[r].who \in 0..Len(session)

\* What handlers read and are not handed.  Without Param the handler of the IPs panics;
\* ToggleMFAProtectionSetting works from its body, and panics only when it logs an
\* update that failed.  A member, a workspace or a device that is missing is "".
Gaps ==
  [UpdateWhiteListedIPs |-> {"Param.id"}, ToggleMFAProtectionSetting |-> {"Param.id"},
   DeleteApplication |-> {"WorkspaceID"}, ApplicationSignUp |-> {"UserAgent", "DeviceID"},
   VerifyWorkspaceAccount |-> {"DeviceName"}, LoginWorkspaceMember |-> {"DeviceName"}]
  ++ [h \in {"GeneratedSignedURL", "VeirfyDeviceImage", "VerifyNINDetails",
             "VerifyBVNDetails", "VerifyVoterIDDetails"} |-> {"UserID"}]

\* Whatever path a request took through the chain, whose every middleware makes the
\* context anew, its handler misses of what it reads exactly what Gaps lists.
ContextProvided ==
  \A r \in Requests : stage[r] = "handler" =>
    LET h == req[r].route IN
    Reads(h) \ given[r] = IF h \in DOMAIN Gaps THEN Gaps[h] ELSE {}

\* A handler acts for the account of a session of its device that the cache held at
\* some moment since the request came, however sessions were replaced, refreshed and
\* removed meanwhile; with a permission that some member of the same workspace has,
\* or the intent the route asks for.  On the two refresh routes the session may be of
\* the other kind.
IdentityHeld ==
  /\ SessionsOK
  /\ \A r \in Requests : stage[r] = "handler" =>
    LET n == ctx[r].who  s == session[n] IN
    /\ Auth(r) \in {"user", "workspace", "refresh"} =>
         /\ n \in held[r] \ {0} /\ s.device = req[r].device
         /\ Auth(r) # "refresh" => s.kind = Auth(r)
    /\ Auth(r) = "user" => Demand(r) \in {None, s.intent}
    /\ Auth(r) = "workspace" =>
         \E m \in Members : Of[m] = Of[s.account] /\ Grants[m] \cap {Demand(r), "super"} # {}
    /\ Auth(r) = "otp" => req[r].otp = Demand(r) /\ req[r].otp \in otps.given
================================================================================
