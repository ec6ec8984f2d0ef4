# Gateman core in TLA+

Specifications of the parts of the Gateman back end (`src/`) whose correctness depends on
the order of calls: several HTTP handlers and queue workers, on several replicas, share
Redis keys and MongoDB documents without locks or unique indexes, and two goroutines share the
pictures of a request. A module takes one cache, database, queue or provider call per action, so
that TLC interleaves the handlers wherever they really can be interleaved.

## 1. Inventory

One Go process holds a gin HTTP server and an asynq worker (`main.go`,
`infrastructure/message_queue/asynq/index.go`); Kubernetes runs several replicas
(`k8s/deployment.yaml`). They share MongoDB, Redis (cache and task queue), Paystack, Termii
(SMS), an e-mail provider, Dojah (identity) and object storage. There are no tests.

| component | state | operations | hard behaviour |
|---|---|---|---|
| One-time passwords (`infrastructure/auth`, `controller/auth.go`, e-mail task, SMS, `middlewares/otpToken.go`) | `<ch>-otp`, `<ch>-sms-otp-ref`, `<ch>-otp-intent`, queued mails, OTP tokens | generate, send, record intent, verify, consume, use token | compare and delete are two calls; intent is a key of its own, also written by a worker later; failures are ignored |
| Application sign-up and monthly limit (`controller/application.go`, `services/application`) | AppUser documents, set of active users per month, charge counters, plan | find or create AppUser, count, admit, charge, issue | count, test, add are three calls; duplicates; end of month; plan changes |
| Accounts, devices, sessions (`usecases/user`, `controller/auth.go`, `controller/user.go`) | User document with a device list, `<device>-access` and `-refresh` keys | create, verify, set image, verify device, refresh | whole-document writes after old reads; list edited through a pointer into itself; duplicates |
| Workspaces and members (`usecases/workspace`, `controller/workspace.go`, `controller/auth.go`) | workspaces, members, their verified flags, devices and sessions | create, verify, log in, refresh, reset password, rename | the same, and inserts outside the transaction that surrounds them; verification in two updates by address |
| Invitations (`orgMembers.go`, invite task) | invites, members | invite, resend, acknowledge | check then act in handler and worker |
| Billing (`controller/webhook.go`, `controller/misc.go`, renewal task) | transactions, active subscriptions, cards, refunds, renewal tasks | payment link, webhook, refund, renewal | repeated webhooks; record written last; renewal chains; 32-bit proration |
| Application life cycle (`createApp.go`, `controller/application.go`, delete task) | applications, their keys and settings, AppUsers, deletion tasks | create, refresh keys, toggle, block, list, disable, delete | limit tested before creation; last write and last answer differ; plan read before the write; result of disabling dropped; pages while users change |
| Identity checks (`controller/user.go`) | NIN/BVN/voter data cached under a phone, user document | set, verify | two entries of one phone shared by its users, written without a look at the result; look-up before link not repeated; verified fields overwritten |
| Developer API (`middlewares/appMiddleware.go`, `publicAPI/v1`) | API keys, one counter key per application | authenticate, count, answer | a route authenticates several times; window extended by every pass; key replaced in between |
| Biometric (`biometric/local_face.go`, `controller/biometric.go`) | pictures in memory, two shared detectors | compare, check liveness | goroutines, one detector without a lock, results in order of arrival, recovered panics, manual release |
| Routes (`ginRouter`, `middlewares`) | gin context, sessions in Redis | user agent, authentication, route, handler | the context is made anew four times on the way; one session per device |
| Key exchange, activity log, help centre, uploads, logging | inserts, I/O | | not modelled |

How they interact: flows of accounts, workspaces and identity checks call `GenerateOTP`, hand
the code to the queue or the SMS provider and leave the intent in Redis; `VerifyOTP` turns a
code into an OTP token; the OTP middleware admits the token to the handlers that verify an
account, a workspace or an identity. Session tokens admit to the routes, among them
`ApplicationSignUp`, whose limit depends on the subscription that the webhook of the payment
provider writes. API keys, made when an application is created, admit to the developer API.

What makes each component correct, in a sentence: a code opens only its own channel and stops
working once consumed; a limit is overshot at most by what is in flight, and no one is charged
without cause; a verified account or device stays so; a workspace has the member that runs it, an
accepted invite its member; a payment takes effect as often as it must; an application keeps the
keys its owner was shown and has the features its own plan pays for; an identity is given to the
user who proved it; callers stay within the rate limit and comparisons are about the pictures sent;
a handler is handed what it reads.

## 2. Modules

| module | models |
|---|---|
| `OtpPromise` | abstract: what one-time passwords promise to the flows that use them |
| `OtpChannel`, `OtpChannel_proofs` | one-time passwords, from `GenerateOTP` to the middleware; the refinement and other theorems |
| `AppSignUp`, `AppSignUp_proofs` | `ApplicationSignUp`, `CheckMonthlyLimit`, issue of tokens |
| `Account`, `Account_proofs` | user documents, device lists, sessions |
| `Settlement` | abstract: what a delivered charge may do to subscriptions, records and refunds |
| `Billing`, `Billing_proofs` | payment link, webhook, cards, refunds, renewals; amounts modulo 2^32; implements `Settlement` |
| `Repository` | `MongoRepository`: filters, updates, counts, pages and deletions of a collection |
| `AppLifecycle`, `AppLifecycle_proofs` | applications, their keys, settings and deletion; AppUsers listed and blocked. Extends `Repository` |
| `Workspace`, `Workspace_proofs` | workspaces, members, their sessions, invites and the invite task. Extends `Repository` |
| `Kyc`, `Kyc_proofs` | NIN, BVN, voter card and licence, set and verified |
| `Face` | one comparison or liveness check: goroutines, detector, pictures, verdict |
| `DevApi`, `DevApi_proofs` | authentication and rate limit of the developer API; composed with `Face`, which its handlers run |
| `Clients` | the devices and requests that `Account` and `RouteTable` both speak of |
| `RouteTable` | the routes of the web client as a table, what each handler reads, and what handlers are owed |
| `Routes` | the middlewares that bring requests there, with the sessions. Extends `RouteTable`; its proofs are in `Account_proofs` |
| `MC...` | model values, symmetry and starting states for TLC, one for each module that is run |

Sign-up sees a payment as the step `BuyPlan`, `Account` a confirmed code as `proved`, `Kyc` and
`Workspace` an OTP token as an entry they are given: what these steps may do is what `Billing` and
`OtpPromise` say. `Routes` has all sessions and no documents, and is where the other modules'
"admitted with a session" comes from. No module uses `RECURSIVE`, so that each can be proved about.

### OtpChannel

`otp`, `ref` and `intent` are the three Redis keys of a channel (`None`: absent). `queue` holds
`send_email` tasks, `inbox` what the owner of a channel received, `tokens` the OTP tokens that
have not expired, `granted` those the middleware admitted. Each request has a program counter
(`pc`) and the locals of its handler (`chan`, `code`, `flow`, `held`), gone when it answers.

| action | code |
|---|---|
| `StartSend` | a flow decides to send: `CreateUserUseCase`, `ResendOTP`, `CreateWorkspaceUseCase`, `LoginWorkspaceMember`, `SetNINDetails` ... |
| `GenerateOTP`, `GenerateOTPFails` | `auth.GenerateOTP` with `saveOTP` |
| `EnqueueEmail`, `SendSms`, `SendSmsFails`, `SaveRef`, `SaveIntent` | the rest of a flow, in the order of its calls; workspace and SMS flows write the intent themselves, the other e-mail flows leave it to the worker |
| `SendEmail`, `RecordIntent`, `ArchiveTask` | `HandleEmailDeliveryTask`, and the end of a task that failed (no retries) |
| `StartVerify`, `CheckOTP`, `ConsumeOTP` | `VerifyOTP` with `auth.VerifyOTP` on an e-mail address |
| `FindRef`, `ProviderVerify`, `ConsumeRef` | its SMS branch |
| `ReadIntent` | the intent is read, the token answered |
| `UseToken` | `OTPTokenMiddleware` |
| `Expire...`, `Abort` | times to live; a handler that ends early, for any reason |

Phones are numbers of ten characters. `ResendOTP` takes only numbers of eleven and `VerifyOTP` only
of ten, so a code sent again by SMS lies under a channel that is never verified; the model leaves
such channels out (`ResendOTP` by e-mail is a flow like the others).

A code is a fresh number (production draws six random digits; that two draws coincide is left
out). On a phone the pin is the provider's: the model names it by the number of the same
generation, and it only ever meets `ref`, never `otp`. A client can type any code it received
on any channel, or one nobody generated. `RedisFails` lets every read answer nil and every
write be lost, which is all the handlers can notice.

A channel is an address *as it is spelled*, since the keys are; `Lower` gives its lower-case
spelling and `Owner` its mailbox. A sign-up for a known account that is not verified keeps the code
under the stored, lower-case address (`createUser.go:47`) and mails it, and has its intent recorded,
under the address typed (`:60`, `HandleEmailDeliveryTask.go:48`): `KeptUnder` is the set of keys a
flow may use, `flow` what it was asked for, and `chan` the key of the code. A verification under the
one spelling then finds the code and no intent, under the other the intent and no code, unless
another flow left one there.

`consumed`, `minted`, `purpose`, and what became of a task (`archived`, `recorded`, `lost`) are
ghosts: no guard reads them.

### AppSignUp

One application. `owner` holds the AppUser documents, `mau[m]` the Redis set of month `m`,
`charge[m][p]` the charge counters (in users rather than kobo), `plan` the active subscription.
Handlers go through `FindAppUser`, `CreateAppUser`, `ReadSub`, `ReadClock`, `CountMembers`, then
`MemberFree`/`AddFree` or `MemberPaid`/`AddPaid`/`Charge`, then `Issue`. `BuyPlan` and `MonthEnds`
happen between any two of these. Refusals before a call (blocked account, wrong pin, missing
verification) and failures after it are the one action `Abort`: they write nothing. `Fails` lets the
lookup of the AppUser and the Redis calls fail where the handler goes on. A size that cannot be read
is dereferenced only after the membership test and, in the paid branch, after the addition
(`services/application/index.go:262`): `CountUnread`, `MemberUnread` and `AddUnread` go on to that
panic, which leaves a member that was never charged for. An expired subscription still counts as its
plan, as in the code, which does not look at the expiry. `freeNew` (let in free, whether or not the
addition arrived), `paidFree`, `bill` and `spoilt` (AppUsers one of whose requests lost a Redis call
or ended between addition and charge) are ghosts.

### Account

`doc` is the Users collection (`None`: no such document), `access` and `refresh` are the keys
`<device>-access` and `<device>-refresh`, which hold the hash of the only token of their kind
that a device can use. A request has its device, the address or number it was given (`key`), the
document it works on (`who`), the `copy` of it that it read, and the token it was called with or
makes (`sess`).

| action | code |
|---|---|
| `Authenticate`, `FindLogin`, `Create`, `SaveLogin` | `CreateUserUseCase`: look up by lower-cased e-mail or local number, then create, or move the device to the end of the list and write the *whole* document back (three branches of the code, which differ in the code they send and the answer) |
| `VerifyUserAccount`, `FindProfile`, `MarkVerified` | behind the OTP middleware; `UpdateMany` on the address |
| `SetAccountImage`, `FindForImage`, `SaveImage` | the user middleware, the lookup by the address in the token, the write of image and list |
| `VeirfyDeviceImage`, `FindForDevice`, `SaveDevice` | a face check from a further device |
| `RefreshToken`, `FindForRefresh` | `RefreshTokenMiddleware` and the handler |
| `SaveAccess`, `SaveRefresh` | the two writes to Redis that end these handlers; `VerifyUserAccount` makes only the first |
| `ExpireAccess`, `ExpireRefresh`, `Abort` | times to live; a refusal, an error, a panic, the end of a process |

Addresses and numbers are records: `who` is the owner, `plain` says whether an e-mail is in lower
case, or a number without its prefix. `Lower`, `Claim` and `Filter` are the conversions between
what a client types, what a token carries and what a filter asks for. The model shows three things
that no sentence of the repository contradicts, so that no run is about them: an e-mail typed
with a capital letter is stored as typed and looked up in lower case, so that each log-in with it
makes another account; and the token of a phone account carries the number with its prefix, so
that `SetAccountImage` finds no document for it and dereferences nil (`Abort`), while
`VeirfyDeviceImage` takes only numbers of eleven characters where local numbers have ten
(`Longer`), and finds none either: a phone account never gets beyond its verification.

The three list operators are translations of the three loops: `Relisted`, `MarkedByPointer` (the
pointer into the slice) and `MarkedByValue` (a device not in the list leaves the zero value). After
the element is removed in place, the pointer of `SetAccountImage` shows the next device: that one
is stored twice, as verified, and the device whose face was checked leaves the account.

That faces match, and that a picture was uploaded, is left open, except that an account without
picture matches nothing; `VeirfyDeviceImage` reads the picture under a user id that its route
does not set, which an answer of the face service that is left open includes. What a client sends
as OTP token is `OtpChannel`'s: `proved` collects the addresses that a token confirmed, and
`confirmed` their owners with the device. `SetAccountImage` compares no faces: the code that would
is commented out (`user.go:42-57`), so that any picture opens the first refresh token. `faced`, the
pairs of account and device of `VeirfyDeviceImage`, and `pictured`, those of `SetAccountImage`, are
therefore two ghosts, and `RefreshEarned` says what a refresh token rests on: the one, or the other
with a confirmed code of the owner from that device.

### OtpPromise

Six variables and no calls: which channel and intent a code was asked for, which codes reached a
channel, the code each attempt works on, spent codes, tokens given, tokens used. `OtpChannel`
implements it with `open` mapped to `Opened`: an attempt opens when `CheckOTP` (or `FindRef`)
reads the code, not when it deletes it, and closes with the token. That is where the code
promises less than one token per code: any number of attempts may open before the first spends.

### Repository, AppLifecycle, Workspace

A collection is a function from ids to records, `Repository` the methods of `MongoRepository` on
it; the lookups that take the first match yield a *set* of documents, as no order of MongoDB's is
relied upon. Ids are ordered, as ULIDs are, which the pages rest on.

In `AppLifecycle` an application has its key `_id` and its public `appID`, written `-_id`; keys are
numbers with or without the "sandbox-" prefix they are shown or stored with. Creation is
`CountApps`, `InsertApp`, `Answer`; the four refreshes store and show a key (`Refresh`); the two
toggles look up the subscription of the application they name, then write (`SetFeature`), while
`BuyPlan` changes the plan of any application; `FindForDeletion`, `Disable`, whose result is
dropped, `EnqueueDeletion` and the task's `FindDeleted`, `RemoveApp`, `RemoveUsers` are the
deletion; `StartWalk` and `FetchAppUsers` a client that pages through AppUsers, whom `SignUp` and
`BlockAccounts` change.

**A deletion deletes nothing.** The route of `DELETE /app/delete/:id` hands the handler no `Keys`
(`web/v1/application.go:183`; `RouteTable` has it among the `Gaps`), so that the workspace in the
payload of the task is "" (`application.go:163`) and both filters of the task match no document
(`HandleDeleteApplicationTask.go:40-47`). `HandedWorkspace` is that empty id. An application that
was "deleted" is disabled for good, still counts against the limit of its workspace, and its name,
keys and AppUsers stay. The properties say what does hold: it is disabled (`DeletionsStand`), and,
as a theorem, nothing goes away (`NothingIsRemoved`).

In `Workspace` the creation is `FindExisting`, `InsertWorkspace`, `InsertMember`, `SendCode`;
verification `FindWorkspace`, `SetWorkspaceVerified`, `FindSuperAdmin`, `SetMemberVerified`,
`OpenSession`; a log-in `FindMember`, `SetDevices`, `SaveLogin`; an acknowledgement `FindInvite`,
`Accept`, `CreateUser`, `AddMember`; the task `CountInvites`, `MailInvite`, `CreateInvite`. Where
the code drops the result of a call, the call may fail and the handler goes on: the lookup before a
creation (`createWorkspace.go:30`), the update of the member (`auth.go:226`), marking an invite and
creating its member (`orgMembers.go:148`, `:162`), mailing it (`HandleWorkspaceInviteTask.go:78`).
Each is a kind of failure in `faults`, and a property that depends on one names it. The handlers
`UpdateOrgDetails`, `ResetWorkspaceMemberPassword`, `ResendInvite` and `AcknowledgeWorkspaceInvite`
are complete in the source but reached by no route yet.

What these modules show, and no sentence of the repository contradicts: the delay given with a
deletion has no effect, so that it runs as soon as a worker is free; with a workspace it would still
remove no AppUsers, since the filter has the `_id` and they carry the public id; the sandbox key is
shown without the prefix it must be sent with; the two inserts of a workspace get `context.TODO()`
and are outside the transaction; a verification between them finds no member and panics, and leaves
the workspace verified and the member not; a member that came by an invite has the workspace's id as
name, and neither e-mail nor password; `UpdateOrgDTO` has no bson tags and writes `workspacename`
beside `name`; a reset without e-mail says that one was sent.

### Billing

A payment link carries plan, interval and renewal as metadata (`GeneratePaymentLink`,
`GenerateLinkToAddCard`), `Pay` makes it a charge, and `Deliver` starts the webhook for it, as
often as Paystack likes. Its steps are the calls in their order: `CountTransactions`, `FindPlan`,
`FindActiveSub`, `CreateSubscription` or `UpdateSubscription`, `CreateTransaction`,
`FindWorkspace`, `SaveCards`, `SetAppCard`, `Refund`, `EnqueueRenewal`. The renewal task is
`StartRenewal` to `FinishRenewal`, with asynq's retries. Amounts are taken in units of 10 000 kobo and
wrap at `Wrap`; `AsUint32` has both outcomes that Go leaves to the processor for a negative float.

Seen on the way: the delay of a renewal counts 24 *minutes* per day (`webhook.go:154`), and from
annual Premium to annual Essential the link asks for a wrapped amount, although `misc.go:191`
says that no payment is needed.

### Settlement

What the handling of charges promises to the books, without lookups, cards, tasks or places in a
handler. A handler takes a charge that was made, and with it a budget of effects: subscribe and
record, or record and give back. Each is used once, the subscription before the record and the
record before the refund; it may be left out, and the delivery may be dropped, but the charge is
answered only when it has a record or its handler tried to write one. `Billing` implements it with
`budget` mapped to `Budget`, the effects still ahead of where a delivery is. It promises this per
delivery, not per charge: a second delivery that began before the first recorded the charge has a
budget of its own, which is why transactions are bounded by the handlers at once and not by one.

### Kyc

A document stands for its hashed number and the provider's record. `StartSet` to `Fetch` is the
common part of the four `Set` handlers; then `LinkNow`, when the document's phone is the session's
(a licence has no phone), or `PutNumber`, `PutOwner`, `SendCode`, `SaveIntent`. `StartVerify` with
the token of a code goes through `ReadOwner`, `LinkByCode`, `ForgetRecord`, `SaveSession`. The
phone's two entries (number and user) are separate variables; Both writes, the intent and the update
of a link drop their results, so with `Fails` any of them may be lost (`Written`). `torn` records
pairs between whose writes another request came, or one of which was lost or never made.

Seen on the way: codes go to "234" and the number, of which `VerifyOTP` takes only those of ten
characters (`Digits`); BVN dates are parsed with two layouts; `Verify` deletes a key
`<userID>-nin` that nobody writes and, for a voter card, the record's text instead of its key
(`user.go:1063`); a licence that matches neither face nor names is linked all the same.

### Face and DevApi

`Face` is one comparison or liveness check. The two pictures go through `ProcessImage`,
`EnhancedFaceDetection`,
`SetInputSize`, `Detect` in goroutines and reach `results` in the order in which they finish. They
share two detectors: YuNet, under a mutex (`mutex`, `inputSize`), and the cascade, without one
(`local_face.go:1460`). `ProcessImage` begins a detection by the cascade and `EnhancedFaceDetection`
ends it; when the other goroutine is in between, the two race (`raced`), and each may then find any
number of faces, panic - which is recovered and loses the picture - or end the process. YuNet's
faces and quality replace those of the cascade in a comparison, so a race shows in the answer only
by a lost picture: `VerdictOfImages` says that it may turn a match into none (`Spoilt`), never none
into a match. A liveness check has one picture and no race. What a race writes outside the cascade
is not modelled. A picture is known by how its processing ends, the
faces in it and its scores; a `Mat` is nil, open, closed or lost. `Decide` is the controller's
second decision by the threshold of the request. A zero `Mat` that is asked whether it is empty
may end the process (`crashed`, `Exit`).

`DevApi` extends it. `Passes` says how often the production chains authenticate a route: three
times for identity requests, twice for pictures. Each pass is `CheckRateLimit` and `FindApp`; the
last one leaves the context. The counter is `INCR` and `EXPIRE` in one pipeline, each of which may
be lost; `Tick` passes time. The comment "Set expiry only if this is the first request (key didn't
exist)" (`appMiddleware.go:101`) is not what line 102 does: `EXPIRE` runs every time, so that a
client that never pauses for a whole window counts on until it is refused, and stays out while it
tries. `RefusedWhenBusy` states what does hold.

Seen on the way: a panic recovered in `ProcessImage` returns zero values and no error; an
oversized picture keeps its `Mat`; the service's adaptive threshold is always overridden; the
quality scores and messages of an answer may be of the other picture, as results come in order of
arrival; a failed comparison is answered "completed" without a match.

### Routes

`Router`, in `RouteTable`, is the table of routes: the authentication of each, the permission or
intent it demands, and what it passes on. `Reads` is what each handler reads of its context, `given`
what arrives. A request goes `UserAgentMiddleware`, then the middleware of its route (`FindMember`
for the permissions of a member), `Bind`, `Handler`; each makes a new context (`Rebuilt`). A session
is a log-in on a device; `live` holds, as the cache does, the last one per device, kind and type.
`Gaps` lists the handlers that read what they are not handed: `UpdateWhiteListedIPs` and
`ToggleMFAProtectionSetting` get no `Param` - the first panics, the second works from its body and
panics only when it logs a failed update (`application.go:397`) -, `ApplicationSignUp` issues tokens
without device or user agent, and so on; `ContextProvided` says that the list is complete and exact.

Seen on the way: permissions are those of whichever member of the workspace is found first; no
route gives an intent to `WorkspaceAuthenticationMiddleware`; both refresh routes take the user's
cookie when there is one, so that `/workspace/refresh` with both cookies finds no member;
`DecryptPayloadMiddleware` does nothing.

## 3. Runs

Each run is one question. Several instances that would be runs of their own are starting states of
one run: a variable `focus` or `mode` of the MC module picks the instance in the initial state and
never changes, so that TLC explores their union.

| run | question | instance |
|---|---|---|
| `otp_channel` | the refinement of `OtpPromise` (`KeepsPromise`); at most one token per request that was in flight (`MintBound`); a code is lost only to a verification that checked it or an explained step (`CodeLossExplained`); a token's code reached its owner, and its intent was asked for by a flow of its owner (`TokenProvenance`) | one channel, e-mail or phone, or an address in two spellings (sign-ups only), 2 requests, 2 codes |
| `otp_faults` | under failures, every queued mail is archived, or sent with its intent recorded under the address it went to, or Redis lost that intent (`MailsSettled`) | 1 address in 2 spellings and 1 phone, 2 codes, 1 request at a time, fairness |
| `signup_plans` | charges have a cause and are bounded per AppUser; AppUsers per user are bounded; whoever got tokens is counted in the month that was checked | 1 user with up to 3 AppUsers, 2 requests, 2 months, a plan bought at any moment, limits of 1 |
| `signup_faults` | both limits are overshot by requests in flight, and by AppUsers for whom a Redis call was lost or never made, only | the same, 1 month, every lookup and Redis call may fail |
| `account` | who may be verified, hold a refresh token, whose picture an account has, how many accounts an address gets, and that only a log-in takes anything back | 1 owner by e-mail, 1 by phone; one request at a time with lost writes on 2 devices and 2 accounts, until three pairs of owner or account and device confirmed a code, set a picture or had faces compared; two requests on one account; overlapping log-ins on 3 accounts |
| `billing` | repeated, overlapping and abandoned deliveries: subscriptions were paid for, charges counted, acknowledged ones settled, cards and renewals in step, links not above the price; the refinement of `Settlement` (`SettlesAsPromised`) | 2 deliveries at once, 0, 20 or 400 days; 2 charges on 1 card with one failure of each kind in turn or on 2 without (`payments`); 3 charges, a subscription and those of up to 3 renewal tasks, each enqueued by the one before (`renewals`); 3 charges for changing plans (`upgrades`) |
| `app_lifecycle` | the limit of applications, live keys, paid features, complete pages, what a queued deletion finds | limit 2, 3 applications, 3 AppUsers, 2 requests, 2 tasks, one failure |
| `kyc` | what is linked was asked for, by that user, on a phone that was proved; verified fields stay | five groups of users and documents, 2 requests at once, 4 in a behaviour, or 3 where calls may fail unnoticed |
| `workspace` | duplicates, super members, agreement of the documents, members of invites | 2 addresses, 2 devices, 2 requests, 2 tasks, 4 starts, one failure of any kind, dropped results included; accounts from nothing, details and invites from a workspace in use |
| `dev_api` | the rate limit, keys that change, comparisons of pictures | limit 3, window of 2 ticks, 2 keys, 2 requests, pictures of 6 kinds, the two detections of a comparison overlapping or not, thresholds 0.5 and 0.7, one failure |
| `routes` | handlers are handed what they read, and act for a session that was live; no request gets stuck (deadlock is checked) | every route alone; one-time tokens; 2 sessions on 2 devices; 2 requests and 3 sessions on one |
| `kyc_linked_twice` | ends in a counterexample, see below | as `kyc` |

Bounds that limit a behaviour: `MaxCode` (codes), `Ids`, `Docs`, `WsIds`, `MemIds`, `InvIds`,
`AppIds`, `UserIds`, `Refs`, `Tasks` (documents, charges and tasks), `MaxMonth`, `MaxCharges`,
`MaxKey`, `MaxCards`, `MaxDevices` (length of a device list), `MaxSessions`, and in MC modules
`MaxRequests` and `MaxStarts`. `MintCap` only stops a ghost counter above every value the
properties tell apart. `MayFail` holds the sets of failures a behaviour may have: mostly one kind,
in `billing` each kind once. Deadlock checking is off where a behaviour ends when its codes, ids
or starts are used up.

Why these are enough: the hazards are races of two requests over one key or document, so two
requests on one channel, application, phone or workspace show every order of their calls; a second
code or third id is there so that an old one and a new one coexist; limits of 1 to 3 put every
request at the boundary. Where a property relates two actors of different data - channels, users
of a phone, workspaces - there are two of them. The theorems below cover every number.

### What the documents say and the code does not keep

`kyc_linked_twice` ends in a counterexample to "This NIN is already linked to another Gateman
account." (`controller/user.go:163`, and `:422` for a BVN). `HashString` returns bytes and the count
asks for bytes. A NIN that is linked without a code is stored as bytes, every other link as text: for
those the count is 0, and the document can be linked to a second account.

Three sentences of templates and plans hold only when requests do not overlap, and one of a
requirement not at all; the properties of passing runs state what holds in general. "can only be
used once" (`otp-request.html:88`): two verifications read a code before either deletes it, and both
give a token - one per attempt, as `OtpPromise` says. "You've requested a one-time password (OTP) to
{{.REQUEST_ACTION}}" (`otp-request.html:71`): the token takes the intent recorded last for the
channel. "Scale to 10,000 Monthly Active Users" (`application/subscription/index.go:15`): sign-ups
that read the same size of the set all pass, up to the requests in flight (`FreeOvershootBound`).
"properly handle concurrent operations without race conditions"
(`.kiro/specs/biometric-liveness-enhancement/requirements.md:61`): the two goroutines of a
comparison use one cascade without a lock, see `Face`; `ComparisonsCorrect` states what is left.

### Fairness

`otp_faults` assumes `WF` of `Deliver` and of the steps of a started handler: the asynq server keeps
polling its queue and runs every task once, and a goroutine that gin started keeps running.
Nothing is
assumed of clients, of expiry, of payments or of other services.

## 4. Theorems

Proved by TLAPS for all values of the constants that satisfy the assumptions named in the modules.

`OtpChannel_proofs`: `TypeCorrect`, `Provenance`, `ConsumedStaysConsumed`,
`PromiseKept`, `TokensBounded`, `LossExplained`. The inductive invariant is `IInv == TypeOK /\
Ownership /\ SpentCodes`. A token's provenance is not inductive: the code passes through the cache,
the queue, an inbox and the locals of two handlers before a token names it, so `Ownership` says of
each of these places that what it holds belongs to its channel (`BoundTo`, `Asked`). `SpentCodes`
says that a consumed code is neither in a key that is compared nor in the hands of a handler that
will put it there: `PinFresh` is needed because on a phone the reference is saved two calls after
the code was made, while other verifications run. There is one lemma per conjunct (`TypeStep`,
`OwnershipStep`, `SpentStep`), with a step per action.

`PromiseKept` is the refinement, `Spec => KeepsPromise`, for any number of requests and with Redis
failing or not. Each action is mapped: most of them close an attempt or leave it (`AtMostCloses`,
`OthersOpened`), the reads that accept are `Open`, the deletions `Spend`, `ReadIntent` is `Mint`.
`SpentCodes` is what makes `Open` possible (a code that is read is not spent), `Ownership` what
makes `Mint` possible (it reached this channel, and its intent was asked for there).

`AppSignUp_proofs`: `TypeCorrect`, `FreeOvershoot`, `UnchargedBounded`, `ChargesJustified`,
`IssuedCounted`, `AppUsersBounded`, `ChargesBounded`. The bounds are not inductive, since a request
that read a size below the limit still has a place to take; `Places` counts places taken together
with requests about to take one (`TakingFree`, `TakingPaid`), a sum that only grows when the size is
read, and then stays within limit - 1 + N because fewer than the limit are members and at most N are
in flight; AppUsers let in whom a lost call kept out of the set are counted apart, in `spoilt`.
`Counted` keeps what a request's old count still says of its month; sets of members only grow
(`StepGrows`), so it stays true while other requests run.

`Account_proofs`: `TypeCorrect`, `VerifiedProved`, `RefreshesEarned`, `ImagesOfOwners`,
`LoginsTakeBack`, `AccountsBounded`, and two about `Routes`, below. `IInv` adds to the types what
documents (`DocsGood`), keys (`CacheGood`) and requests (`RequestGood`) hold. Requests act on old
copies, so nothing they hold equals the document they will write; what keeps `IInv` inductive is
`Kept`: documents stay, with their address, and the ghosts only grow. Whatever a copy or a token
claimed when it was made (`CopyGood`, `Backed`, `Names`) is therefore still justified when it is
used, however many other requests ran (`GoodKept`). `DocStep`, `CacheStep`, `LocalTypes` and
`RequestStep` are the step for each part of the state. `Places` counts the accounts of an address
together with the requests that saw none and will create one; a request gets such a place only while
there is no account, so the sum never exceeds the requests in flight.

The same module proves about `Routes`, for any requests, members, sessions and grants and any set of
served handlers: `ContextIsProvided` and `IdentityIsHeld`. `Routes` and `Account` both have an
`Init`, a `Next` and a `Spec`, so the module extends `Account` and `RouteTable`, where the state and
the properties of `Routes` are, and takes the rest as the instance `R == INSTANCE Routes`, over the
same variables; `SameTables` to `SameGaps` say that the tables of the instance are those of
`RouteTable`. The first is about a table, so most of it is lemmas that compute the table
(`RouterTables`, `ReadTables`): what each route passes on, what each handler reads, and that the
handlers that read more than that are those of `Gaps`, with what they miss (`GapsAre`). The
inductive invariant is `RouteInv`. `Contextual` follows a request through the chain: in each place
its context has the fields that this middleware leaves (`KeysOf`, `FieldsOf`), so that what is
missing on arrival is what the route does not pass on. `Admitted` says of the caller in the context
that it was let through for a session of its kind that the cache had for its device (`HeldFor`), or
for a token that was given; `live` may have changed since, so it speaks of the ghost set `held`,
which only grows. TLC checked `RouteInv` on the instance of `routes` before. All that
`RoutesAssumption` says of the handlers is that those served are in the table and that `None` is
not. The table is put together with `++`, defined in `RouteTable`, because the provers cannot look
into TLC's `@@`.

`Kyc_proofs`: `Invariance`, `ProofOfPhone`, `AskedBeforeLinked`, `FieldsAreKept`. A document waits
for its code in two entries that all users of a phone share, so that "the pair names a user who
asked for its document" is not inductive: between the two writes it may be false. `PairInv` says
when it is: a pair that is whole (not in `torn`) has at most one request between its halves, with
the document of the first half, and only this one may make the owner's entry disagree. `ReqInv`
says by which path a request came to where it is, and `FieldsInv` that one about to write has the
user's names and birth date as they are, unless the user was updated under it (`crossed`), which is
the exception in `VerifiedFieldsKept`.

`AppLifecycle_proofs`: `Invariance`, `LimitOvershoot`, `KeysInHand`, `FeaturesArePaid`,
`QueuedDeletions`, `WalksComplete`, and `NothingIsRemoved`: whatever task runs, no application and no
AppUser goes away, since every document has the workspace and the payload has none.
`FeaturesArePaid` needs that a request past the lookup names an application whose plan is the one it
saw, unless the plan was changed since (`moved`).
`AppsBound` counts applications together with requests past the count. `LiveKeysHeld` follows
because a key is only held by the request that stored it until it is shown (`OfferInv`).
For the pages, `WalkInv` says that the client has been given, in order, each AppUser that stayed
and comes before the last id; `Paged` (a query returns ids that no other of the rest precedes, and
some if there are any) makes each page extend this.

`Workspace_proofs`: `Invariance`, `Duplicates`, `SuperMembers`, `InvitesAnswered`, `Agreement`.
Documents of workspaces, members and invites are never removed and their addresses never change, so
what a request read of a document that does not change stays true; `ReqInv` and `TaskInv` say this
of each place of the handlers and of the task, `SuperInv`, `SessionInv`, `VerInv` and `InviteInv` of
the documents. The bounds on duplicates count, as before, what is stored together with the requests
that saw nothing and will insert, and add one for each call that failed unnoticed.

`Billing_proofs`: `Invariance`, `PaidFor`, `CountedOnce`, `AnsweredIsSettled`, `CardListed`,
`RenewalsCounted`, `LinkAtMostPrice`, `BooksKept`. `Recorded` counts the transactions of a charge
together with its handlers past the duplicate check: at most as many as there are handlers. What
holds of deliveries one at a time needs `Alone` (then no second handler is active), `StillNew`,
`CalmOnce` and `CardsKept` (what the handler read of transactions, subscription and cards is what is
stored). `RenewalsDue` compares the tasks made with the recorded plans whose handler has ended, as
the task is enqueued last. `LinkAtMostPrice` is arithmetic modulo `Wrap` over `PricesAssumption`,
which the prices of `subscription/index.go` satisfy: the credit is between 0 and twice the old
price, whichever outcome the conversion of the negative days has, and so at most the new price.

`BooksKept` is the refinement `Spec => SettlesAsPromised`. `Owned`, a part of `IInv`, gives what maps
the steps: a delivery that is under way has a charge that was made, and one that looks for plan or
subscription has a charge with a plan, so that `BudgetHere` knows the budget in every place. A
delivery moves no budget but its own (`OthersBudgetKept`), and a new charge moves none, since no
delivery reports it yet (`ChargesAsPromised`). Then `TakesAsPromised`, `SubscribesAsPromised`,
`RecordsAsPromised` and `OthersAsPromised` name for each action the effect it spends or leaves out,
the end it is, or that it is a stutter.

`DevApi_proofs`, which reasons about `Face` and `DevApi` together: `Invariance`, `RateLimitKept`,
`KnownCallers`, `AnswersAboutImages`. `JobOK` follows a comparison: of each picture, how far its
goroutine is and, once it ended, that error and faces are those of the picture (`Picture`); of the
channel, that it holds the results of those that ended, in some order (`Delivered`). The answer does
not depend on that order because `Confidence` is symmetric (`ConfidenceSym`). `RacedOK` and `Spoilt`
keep apart what a race of the cascade may do: until one has happened a picture is what its kind
says, after it only a lost picture differs. `CallOK` says that the application of a request was
found by the key it sent, and that only a live handler has pictures. `CounterOK` and `AdmittedOK`
relate the counter to time: it lives at least until the window since the last pass ends, and counts
no fewer than what was let through in any number of ticks.

Added to the first two modules: `AppUsersBounded` and `ChargesBounded` of sign-up (`Overlaps`:
AppUsers of a user, or charges for one, together with those on their way), `TokensBounded` and
`LossExplained` of one-time passwords. `TokensBounded` uses the refinement: every step is one
of the promise (`PromiseStep`), so tokens given for a code together with attempts open on it never
exceed the requests. `LossExplained` rests on `AcceptedNotNewer`: the code a verification accepted
is not newer than the one in the key when it deletes.

The assumptions are the `ASSUME`s of the modules, evaluated by TLC in every run. They say that
requests, tasks and references are finite sets, that `None` and `NoDoc` are not among ids, records
or pictures, that bounds are natural numbers (`MaxDevices` and `MaxKey` positive, `Wrap` more than
the days of a year, as 2^32 is in any unit used), that `Price` is below `Wrap` and ordered as
above, and that failures and models come from the sets named. They fix no number of requests,
documents or tries.

Only model-checked:
* liveness under fairness (`MailsSettled`), which the prover does not do.
* the counterexample of `kyc_linked_twice`: an existing behaviour, not a theorem.

## 5. Not modelled

* Scores of pixels and networks: a picture has them as constants. The comparers that nobody calls
  (FaceNet, MobileNet, YuNet, Haar), most of the 5700 lines of `local_face.go`, and the video
  liveness, whose service is remote.
* Key exchange: the middleware that should use the key does nothing, so that it is written and
  read by nobody.
* Activity log, help centre, listing of countries and the like: inserts and reads without state of
  their own. Request validation, uploads and logging: functions of the request, and I/O. Where a
  validation decides what can happen it is in the module (`Longer`, `Digits`).
* The pin and the eligibility rules of an application's sign-up, which only refuse (`Abort`).
* Time is abstracted to expiry at any moment, but for the rate limit, which ticks; hashing and
  encryption to equality; amounts of usage to numbers of users.
