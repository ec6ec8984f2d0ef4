----------------------------- MODULE OtpChannel -----------------------------
(***************************************************************************)
(* One-time passwords.  A flow (sign-up, workspace creation, NIN, BVN or   *)
(* voter-card linking ...) asks GenerateOTP for a code on a channel - an   *)
(* e-mail address or a phone number -, hands the code to the e-mail queue  *)
(* or the SMS provider and records the flow's intent in Redis; the owner   *)
(* of the channel submits the code to VerifyOTP and gets an OTP token; the *)
(* OTP middleware lets the token through to the route of its intent.       *)
(*                                                                         *)
(* The cache keys "<channel>-otp", "<channel>-sms-otp-ref" and             *)
(* "<channel>-otp-intent" are three variables.  A handler makes one cache, *)
(* queue or provider call per action, because any other request, of this   *)
(* replica or another one, runs between two of them.                       *)
(*                                                                         *)
(* A code is a number, fresh at every generation (production: six random   *)
(* digits).  On a phone channel the code saved under "-otp" is never sent: *)
(* the provider makes its own pin, which the model names by the number of  *)
(* the same generation and keeps apart by where it is looked up.           *)
(***************************************************************************)
EXTENDS Naturals, FiniteSets

CONSTANTS
  Emails,     \* channels that are e-mail addresses, in every spelling
  Lower,      \* the lower-case spelling of an address
  Phones,     \* channels that are phone numbers, of ten characters: VerifyOTP
              \* takes no others, and ResendOTP only takes numbers of eleven
  Requests,   \* HTTP requests that can be in flight at once
  MaxCode,    \* bound on the codes generated in a behaviour
  RedisFails, \* may a Redis call fail?  its callers here go on regardless
  None        \* an absent key or field

Channels == Emails \cup Phones
\* Keys are named by an address as it is spelled; its spellings are one mailbox.
Owner    == [ch \in Channels |-> IF ch \in Emails THEN Lower[ch] ELSE ch]
Codes    == 1..MaxCode
Wrong    == 0                       \* a code nobody generated
MintCap  == Cardinality(Requests) + 1   \* where the ghost count of tokens stops

(***************************************************************************)
(* The flows that generate a code, named by the intent of their token.     *)
(* Every e-mail flow gives the intent to the queued task, whose worker     *)
(* writes the intent key; workspace and SMS flows write it themselves, too.*)
(***************************************************************************)
Flows(ch) == IF ch \in Emails THEN {"verify_account", "verify_workspace"}
                              ELSE {"verify_account", "verify_nin"}
Direct(ch, i) == ch \in Phones \/ i = "verify_workspace"
Intents    == {"verify_account", "verify_workspace", "verify_nin"}
Purposes   == [ch : Channels, intent : Intents]
Asks       == [intent : Intents, to : Channels]

\* The key a flow generates its code under, for an address as typed.  Sign-up finds a
\* known account by the lower-case address: the code of one that is not verified is
\* kept under the address of the account and mailed to the one typed.
KeptUnder(to, i) ==
  IF to \in Emails /\ i = "verify_account" THEN {to, Lower[to]} ELSE {to}

ASSUME ConstantsAssumption ==
  /\ Emails \cap Phones = {} /\ IsFiniteSet(Requests)
  /\ Lower \in [Emails -> Emails] /\ \A e \in Emails : Lower[Lower[e]] = Lower[e]
  /\ MaxCode \in Nat
  /\ RedisFails \in BOOLEAN
  /\ None \notin Nat \cup Channels \cup Intents \cup Purposes

VARIABLES
  otp,        \* "<channel>-otp": the saved code
  ref,        \* "<channel>-sms-otp-ref": the provider's reference
  intent,     \* "<channel>-otp-intent"
  queue,      \* send_email tasks, pending or with the mail sent
  archived,   \* codes of the tasks that were archived
  inbox,      \* codes a mailbox or a phone has received
  next,       \* the next fresh code
  tokens,     \* OTP tokens (JWT) not yet expired; "code" is a ghost
  granted,    \* tokens the middleware has let through
  pc,         \* where each request is
  chan,       \* the channel a request is about
  code,       \* the code it generated or was given
  flow,       \* what a request that sends a code was asked: intent, address as typed
  held,       \* the reference it read
  consumed,   \* ghost: codes some verification deleted from Redis
  minted,     \* ghost: how many tokens each code gave, up to MintCap
  purpose,    \* ghost: the key and intent each code was generated for
  recorded,   \* ghost: codes whose task found its intent under its key in the end
  lost        \* ghost: codes of whose task Redis lost the intent

cacheVars == <<otp, ref, intent>>
reqVars   == <<pc, chan, code, flow, held>>
mailVars  == <<archived, recorded, lost>>
ghostVars == <<consumed, minted, purpose, mailVars>>
vars == <<cacheVars, queue, inbox, next, tokens, granted, reqVars, ghostVars>>

PCs  == {"idle", "generate", "dispatch", "saveRef", "saveIntent",
         "check", "consume", "findRef", "provider", "consumeRef", "readIntent"}
Tasks  == [to : Emails, code : Codes, intent : Intents, stage : {"pending", "mailed"}]
Tokens == [ch : Channels, intent : Intents, code : Codes]

CacheOK ==
  /\ otp    \in [Channels -> Codes \cup {None}]
  /\ ref    \in [Phones -> Codes \cup {None}]
  /\ intent \in [Channels -> Intents \cup {None}]
WorldOK ==
  /\ queue   \subseteq Tasks
  /\ inbox   \in [Channels -> SUBSET Codes]
  /\ next    \in 1..(MaxCode + 1)
  /\ tokens  \subseteq Tokens
  /\ granted \subseteq Tokens
LocalsOK ==
  /\ pc   \in [Requests -> PCs]
  /\ chan \in [Requests -> Channels \cup {None}]
  /\ code \in [Requests -> 0..MaxCode]
  /\ flow \in [Requests -> Asks \cup {None}]
  /\ held \in [Requests -> Codes \cup {None}]
GhostsOK ==
  /\ consumed \subseteq Codes
  /\ minted   \in [Codes -> Nat]
  /\ purpose  \in [Codes -> Purposes \cup {None}]
  /\ archived \subseteq Codes /\ recorded \subseteq Codes /\ lost \subseteq Codes

TypeOK == CacheOK /\ WorldOK /\ LocalsOK /\ GhostsOK

Init ==
  /\ otp      = [ch \in Channels |-> None]
  /\ ref      = [ch \in Phones |-> None]
  /\ intent   = [ch \in Channels |-> None]
  /\ queue    = {}
  /\ inbox    = [ch \in Channels |-> {}]
  /\ next     = 1
  /\ tokens   = {}
  /\ granted  = {}
  /\ pc       = [r \in Requests |-> "idle"]
  /\ chan     = [r \in Requests |-> None]
  /\ code     = [r \in Requests |-> 0]
  /\ flow     = [r \in Requests |-> None]
  /\ held     = [r \in Requests |-> None]
  /\ consumed = {}
  /\ minted   = [c \in Codes |-> 0]
  /\ purpose  = [c \in Codes |-> None]
  /\ archived = {} /\ recorded = {} /\ lost = {}

-----------------------------------------------------------------------------
At(r, here)   == pc[r] = here
Goto(r, there) == pc' = [pc EXCEPT ![r] = there]

\* What a read of a key returns, and what the keys are after a write: FindOne
\* answers nil on an error too, and no caller looks at CreateEntry's result.
Found(v)         == IF RedisFails THEN {v, None} ELSE {v}
Written(f, k, v) == {[f EXCEPT ![k] = v]} \cup IF RedisFails THEN {f} ELSE {}

\* The handler answers, with a result or an error, and its locals are gone.
Finish(r) ==
  /\ pc'   = [pc   EXCEPT ![r] = "idle"]
  /\ chan' = [chan EXCEPT ![r] = None]
  /\ code' = [code EXCEPT ![r] = 0]
  /\ flow' = [flow EXCEPT ![r] = None]
  /\ held' = [held EXCEPT ![r] = None]

(***************************************************************************)
(* Sending a code.                                                         *)
(***************************************************************************)

\* A handler of some flow decides to send a code to the address or number typed.
StartSend(r, to) ==
  /\ At(r, "idle")
  /\ Goto(r, "generate")
  /\ \E f \in Flows(to) :
       /\ flow' = [flow EXCEPT ![r] = [intent |-> f, to |-> to]]
       /\ \E ch \in KeptUnder(to, f) : chan' = [chan EXCEPT ![r] = ch]
  /\ UNCHANGED <<cacheVars, queue, inbox, next, tokens, granted, code, held,
                 ghostVars>>

\* GenerateOTP: the hash of a fresh code overwrites the channel's key.
GenerateOTP(r) ==
  /\ At(r, "generate")
  /\ next \in Codes
  /\ otp'  = [otp EXCEPT ![chan[r]] = next]
  /\ code' = [code EXCEPT ![r] = next]
  /\ next' = next + 1
  /\ purpose' = [purpose EXCEPT ![next] = [ch |-> chan[r], intent |-> flow[r].intent]]
  /\ Goto(r, "dispatch")
  /\ UNCHANGED <<ref, intent, queue, inbox, tokens, granted, chan, flow, held,
                 consumed, minted, mailVars>>

\* Redis refused the key: "could not save otp".
GenerateOTPFails(r) ==
  /\ At(r, "generate")
  /\ Finish(r)
  /\ UNCHANGED <<cacheVars, queue, inbox, next, tokens, granted, ghostVars>>

\* E-mail channel: the task is enqueued for the address as typed; Enqueue drops the
\* client's error, so the handler goes on when the task is lost.
EnqueueEmail(r) ==
  /\ At(r, "dispatch")
  /\ chan[r] \in Emails
  /\ \/ queue' = queue \cup {[to |-> flow[r].to, code |-> code[r],
                              intent |-> flow[r].intent, stage |-> "pending"]}
     \/ queue' = queue
  /\ IF Direct(chan[r], flow[r].intent)
       THEN Goto(r, "saveIntent") /\ UNCHANGED <<chan, code, flow, held>>
       ELSE Finish(r)
  /\ UNCHANGED <<cacheVars, inbox, next, tokens, granted, ghostVars>>

\* Phone channel: the provider sends its pin and returns the reference.
SendSms(r) ==
  /\ At(r, "dispatch")
  /\ chan[r] \in Phones
  /\ inbox' = [inbox EXCEPT ![chan[r]] = @ \cup {code[r]}]
  /\ Goto(r, "saveRef")
  /\ UNCHANGED <<cacheVars, queue, next, tokens, granted, chan, code, flow,
                 held, ghostVars>>

\* SendOTP returned nil, whether or not the pin went out: the handler
\* dereferences it and panics.
SendSmsFails(r) ==
  /\ At(r, "dispatch")
  /\ chan[r] \in Phones
  /\ inbox' \in {inbox, [inbox EXCEPT ![chan[r]] = @ \cup {code[r]}]}
  /\ Finish(r)
  /\ UNCHANGED <<cacheVars, queue, next, tokens, granted, ghostVars>>

SaveRef(r) ==
  /\ At(r, "saveRef")
  /\ ref' \in Written(ref, chan[r], code[r])
  /\ Goto(r, "saveIntent")
  /\ UNCHANGED <<otp, intent, queue, inbox, next, tokens, granted, chan, code,
                 flow, held, ghostVars>>

\* Mutant of SaveIntent: every flow records the intent of a sign-up.
SaveIntentOfSignUp(r) ==
  /\ At(r, "saveIntent")
  /\ intent' \in Written(intent, chan[r], "verify_account")
  /\ Finish(r)
  /\ UNCHANGED <<otp, ref, queue, inbox, next, tokens, granted, ghostVars>>

SaveIntent(r) ==
  /\ At(r, "saveIntent")
  /\ intent' \in Written(intent, chan[r], flow[r].intent)
  /\ Finish(r)
  /\ UNCHANGED <<otp, ref, queue, inbox, next, tokens, granted, ghostVars>>

(***************************************************************************)
(* The send_email worker.  A task is enqueued with no retry: when the mail *)
(* cannot be sent, or the process dies, the task is archived.              *)
(***************************************************************************)
SendEmail(t) ==
  /\ t.stage = "pending"
  /\ inbox' = [inbox EXCEPT ![Owner[t.to]] = @ \cup {t.code}]
  /\ queue' = (queue \ {t}) \cup {[t EXCEPT !.stage = "mailed"]}
  /\ UNCHANGED <<cacheVars, next, tokens, granted, reqVars, ghostVars>>

\* What became of the intent of a task: a lost write is Redis's.
IntentWritten(t) ==
  \/ intent' = [intent EXCEPT ![t.to] = t.intent] /\ UNCHANGED lost
  \/ RedisFails /\ UNCHANGED intent /\ lost' = lost \cup {t.code}
IntentNoted(t) ==
  recorded' = IF intent'[t.to] = t.intent THEN recorded \cup {t.code} ELSE recorded

\* Mutant of RecordIntent: an intent that is there already is left.
RecordIntentIfAbsent(t) ==
  /\ t.stage = "mailed"
  /\ IF intent[t.to] = None THEN IntentWritten(t) ELSE UNCHANGED <<intent, lost>>
  /\ IntentNoted(t)
  /\ queue' = queue \ {t}
  /\ UNCHANGED <<otp, ref, inbox, next, tokens, granted, reqVars, consumed, minted,
                 purpose, archived>>

RecordIntent(t) ==
  /\ t.stage = "mailed"
  /\ IntentWritten(t) /\ IntentNoted(t)
  /\ queue'  = queue \ {t}
  /\ UNCHANGED <<otp, ref, inbox, next, tokens, granted, reqVars, consumed, minted,
                 purpose, archived>>

ArchiveTask(t) ==
  /\ queue' = queue \ {t}
  /\ archived' = archived \cup {t.code}
  /\ UNCHANGED <<cacheVars, inbox, next, tokens, granted, reqVars, consumed, minted,
                 purpose, recorded, lost>>

Deliver == \E t \in queue : SendEmail(t) \/ RecordIntent(t)

(***************************************************************************)
(* Verifying a code.                                                       *)
(***************************************************************************)
\* A client can only type a code that reached one of its channels, or guess.
Received == UNION {inbox[ch] : ch \in Channels}

StartVerify(r, ch) ==
  /\ At(r, "idle")
  /\ Goto(r, "check")
  /\ chan' = [chan EXCEPT ![r] = ch]
  /\ \E c \in Received \cup {Wrong} : code' = [code EXCEPT ![r] = c]
  /\ UNCHANGED <<cacheVars, queue, inbox, next, tokens, granted, flow, held,
                 ghostVars>>

\* Mutant of CheckOTP: a wrong guess deletes the key.
CheckOTPDeletesOnMismatch(r) ==
  /\ At(r, "check")
  /\ IF otp[chan[r]] = code[r]
       THEN Goto(r, "consume") /\ UNCHANGED <<cacheVars, chan, code, flow, held>>
       ELSE Finish(r) /\ otp' = [otp EXCEPT ![chan[r]] = None] /\ UNCHANGED <<ref, intent>>
  /\ UNCHANGED <<queue, inbox, next, tokens, granted, ghostVars>>

\* auth.VerifyOTP reads the key and compares.  On a phone the saved code was
\* never sent, so what the owner submits does not match it, and the handler
\* falls back to the SMS reference.
CheckOTP(r) ==
  /\ At(r, "check")
  /\ \E saved \in Found(otp[chan[r]]) :
       \/ /\ chan[r] \in Emails
          /\ saved = code[r]
          /\ Goto(r, "consume")
          /\ UNCHANGED <<chan, code, flow, held>>
       \/ /\ chan[r] \in Phones
          /\ Goto(r, "findRef")
          /\ UNCHANGED <<chan, code, flow, held>>
       \/ /\ chan[r] \in Emails
          /\ saved # code[r]
          /\ Finish(r)
  /\ UNCHANGED <<cacheVars, queue, inbox, next, tokens, granted, ghostVars>>

\* Mutant of ConsumeOTP: the key is left alone.
ConsumeOTPKeepsKey(r) ==
  /\ At(r, "consume")
  /\ consumed' = consumed \cup {code[r]}
  /\ Goto(r, "readIntent")
  /\ UNCHANGED <<cacheVars, queue, inbox, next, tokens, granted, chan, code,
                 flow, held, minted, purpose, mailVars>>

\* ... and deletes the key, whatever it holds by now.
ConsumeOTP(r) ==
  /\ At(r, "consume")
  /\ otp' \in Written(otp, chan[r], None)
  /\ consumed' = IF otp'[chan[r]] = None THEN consumed \cup {code[r]} ELSE consumed
  /\ Goto(r, "readIntent")
  /\ UNCHANGED <<ref, intent, queue, inbox, next, tokens, granted, chan, code,
                 flow, held, minted, purpose, mailVars>>

FindRef(r) ==
  /\ At(r, "findRef")
  /\ \E saved \in Found(ref[chan[r]]) :
       IF saved = None
         THEN Finish(r)
         ELSE /\ held' = [held EXCEPT ![r] = saved]
              /\ Goto(r, "provider")
              /\ UNCHANGED <<chan, code, flow>>
  /\ UNCHANGED <<cacheVars, queue, inbox, next, tokens, granted, ghostVars>>

\* The provider confirms the pin of its reference, or refuses (wrong pin, too
\* many attempts, its own expiry, a network error).
ProviderVerify(r) ==
  /\ At(r, "provider")
  /\ \/ /\ held[r] = code[r]
        /\ Goto(r, "consumeRef")
        /\ UNCHANGED <<chan, code, flow, held>>
     \/ Finish(r)
  /\ UNCHANGED <<cacheVars, queue, inbox, next, tokens, granted, ghostVars>>

\* Mutant of ConsumeRef: the reference stays until it expires.
ConsumeRefKeepsKey(r) ==
  /\ At(r, "consumeRef")
  /\ consumed' = consumed \cup {code[r]}
  /\ Goto(r, "readIntent")
  /\ UNCHANGED <<cacheVars, queue, inbox, next, tokens, granted, chan, code,
                 flow, held, minted, purpose, mailVars>>

ConsumeRef(r) ==
  /\ At(r, "consumeRef")
  /\ ref' \in Written(ref, chan[r], None)
  /\ consumed' = IF ref'[chan[r]] = None THEN consumed \cup {code[r]} ELSE consumed
  /\ Goto(r, "readIntent")
  /\ UNCHANGED <<otp, intent, queue, inbox, next, tokens, granted, chan, code,
                 flow, held, minted, purpose, mailVars>>

\* The intent of the token is the one found under the channel now.
ReadIntent(r) ==
  /\ At(r, "readIntent")
  /\ Finish(r)
  /\ \E want \in Found(intent[chan[r]]) :
       IF want = None
         THEN UNCHANGED <<tokens, minted>>
         ELSE /\ tokens' = tokens \cup {[ch |-> chan[r], intent |-> want,
                                         code |-> code[r]]}
              /\ minted' = [minted EXCEPT ![code[r]] = IF @ < MintCap THEN @ + 1 ELSE @]
  /\ UNCHANGED <<cacheVars, queue, inbox, next, granted, consumed, purpose, mailVars>>

(***************************************************************************)
(* The OTP middleware: one read of the intent key, which must still be the *)
(* token's (the route's intent is the token's own: the client picks it).   *)
(***************************************************************************)
UseToken(t) ==
  /\ intent[t.ch] = t.intent
  /\ granted' = granted \cup {t}
  /\ UNCHANGED <<cacheVars, queue, inbox, next, tokens, reqVars, ghostVars>>

(***************************************************************************)
(* Ten minutes pass for a key or a token.                                  *)
(***************************************************************************)
ExpireOtp(ch) ==
  /\ otp[ch] # None
  /\ otp' = [otp EXCEPT ![ch] = None]
  /\ UNCHANGED <<ref, intent, queue, inbox, next, tokens, granted, reqVars,
                 ghostVars>>

ExpireRef(ch) ==
  /\ ref[ch] # None
  /\ ref' = [ref EXCEPT ![ch] = None]
  /\ UNCHANGED <<otp, intent, queue, inbox, next, tokens, granted, reqVars,
                 ghostVars>>

ExpireIntent(ch) ==
  /\ intent[ch] # None
  /\ intent' = [intent EXCEPT ![ch] = None]
  /\ UNCHANGED <<otp, ref, queue, inbox, next, tokens, granted, reqVars,
                 ghostVars>>

ExpireToken(t) ==
  /\ tokens' = tokens \ {t}
  /\ UNCHANGED <<cacheVars, queue, inbox, next, granted, reqVars, ghostVars>>

\* The client goes away or the replica dies between two calls of a handler.
Abort(r) ==
  /\ pc[r] # "idle"
  /\ Finish(r)
  /\ UNCHANGED <<cacheVars, queue, inbox, next, tokens, granted, ghostVars>>

-----------------------------------------------------------------------------
Send(r) ==
  \/ GenerateOTP(r) \/ GenerateOTPFails(r) \/ EnqueueEmail(r)
  \/ SendSms(r) \/ SendSmsFails(r) \/ SaveRef(r) \/ SaveIntent(r)

Verify(r) ==
  \/ CheckOTP(r) \/ ConsumeOTP(r) \/ FindRef(r) \/ ProviderVerify(r)
  \/ ConsumeRef(r) \/ ReadIntent(r)

Start(r) == \E ch \in Channels : StartSend(r, ch) \/ StartVerify(r, ch)

Expire ==
  \/ \E ch \in Channels : ExpireOtp(ch) \/ ExpireIntent(ch)
  \/ \E ch \in Phones : ExpireRef(ch)
  \/ \E t \in tokens : ExpireToken(t)

Next ==
  \/ \E r \in Requests : Start(r) \/ Send(r) \/ Verify(r) \/ Abort(r)
  \/ Deliver
  \/ \E t \in queue : ArchiveTask(t)
  \/ \E t \in tokens : UseToken(t)
  \/ Expire

Spec == Init /\ [][Next]_vars

\* A started handler keeps running and the workers keep draining the queue.
Fairness == WF_vars(Deliver) /\ \A r \in Requests : WF_vars(Send(r) \/ Verify(r))
FairSpec == Spec /\ Fairness

-----------------------------------------------------------------------------
(***************************************************************************)
(* Properties.                                                             *)
(***************************************************************************)

\* A token for a channel, held or already let through the middleware, was bought
\* with a code that had reached the mailbox or phone of that very channel: VerifyOTP
\* (auth.go) never answers a guess or a code of another owner, although the key of a
\* code and the address it was mailed to may be spelled differently.  Its intent is
\* one that a flow asked for of that owner: the late mail worker, overlapping flows
\* and NIN linking may swap the intents of one owner but never bring another's.
Asked(ch, i) ==
  \E c \in Codes : /\ purpose[c] # None
                   /\ Owner[purpose[c].ch] = Owner[ch] /\ purpose[c].intent = i
TokenProvenance ==
  \A t \in tokens \cup granted :
    t.code \in inbox[Owner[t.ch]] /\ Asked(t.ch, t.intent)

\* Once a verification has deleted a code, or the reference of a pin, no read
\* that comes later accepts it: not the comparison of auth.VerifyOTP, nor the
\* look-up of the SMS reference, whatever overlapping sends have saved since.
ConsumedNotAccepted ==
  [][\A r \in Requests :
       /\ At(r, "check") /\ pc'[r] = "consume" => code[r] \notin consumed
       /\ At(r, "findRef") /\ pc'[r] = "provider" => held'[r] \notin consumed]_vars

\* As long as Redis answers, one code gives at most one token per request in
\* flight: only checks that overlap the deletion can reuse it.
MintBound ==
  ~RedisFails => \A c \in Codes : minted[c] <= Cardinality(Requests)

\* The code a verification has read under its channel and goes on with.
Opened(r) ==
  IF pc[r] \in {"provider", "consumeRef"} THEN held[r]
  ELSE IF pc[r] \in {"consume", "readIntent"} THEN code[r] ELSE None

Promise == INSTANCE OtpPromise WITH open  <- [r \in Requests |-> Opened(r)],
                                    spent <- consumed

\* Sending and verifying codes, through a cache, a queue and a provider that
\* other requests use between any two calls, keeps what OtpPromise promises:
\* a token only from an attempt that began before the code was deleted, on a
\* code of that channel, with an intent asked for there, and one per attempt.
KeepsPromise == Promise!Spec

\* A saved code goes away other than by time only when a verification deletes
\* it, and that verification had checked this code or an older one.
CodeLossExplained ==
  [][\A ch \in Channels :
       (otp[ch] # None /\ otp'[ch] = None /\ pc' # pc)
         => \E r \in Requests : /\ At(r, "consume")
                                /\ chan[r] = ch
                                /\ code[r] <= otp[ch]]_vars

\* Every mail that was enqueued is eventually archived, or sent to its mailbox and its
\* intent recorded under the address it went to, unless Redis lost that write: without
\* the intent no verification of the code can give a token (HandleEmailDeliveryTask).
MailsSettled ==
  \A c \in Codes :
    (\E t \in queue : t.code = c) ~>
      (c \in archived \/ (c \in recorded \cup lost /\ c \in inbox[Owner[purpose[c].ch]]))

-----------------------------------------------------------------------------
(***************************************************************************)
(* What makes the safety properties inductive.                             *)
(***************************************************************************)
BoundTo(c, ch) == c \in Codes /\ purpose[c] # None /\ purpose[c].ch = ch
Meant(c, ch)   == c \in Codes /\ purpose[c] # None /\ Owner[purpose[c].ch] = ch

Sends(r)    == pc[r] \in {"dispatch", "saveRef", "saveIntent"}
Unsaved(r)  == pc[r] \in {"dispatch", "saveRef"} /\ chan[r] \in Phones
Trying(r)   == pc[r] \in {"check", "findRef", "provider"}
Accepted(r) == pc[r] \in {"consume", "consumeRef", "readIntent"}

CodesFresh  == \A c \in Codes : purpose[c] # None => c < next
CacheOwned  ==
  /\ \A ch \in Channels : /\ otp[ch] # None => BoundTo(otp[ch], ch)
                          /\ intent[ch] # None => Asked(ch, intent[ch])
  /\ \A ch \in Phones : ref[ch] # None => BoundTo(ref[ch], ch)
QueueOwned  ==
  \A t \in queue : Meant(t.code, Owner[t.to]) /\ purpose[t.code].intent = t.intent
InboxOwned  == \A ch \in Channels : \A c \in inbox[ch] : Meant(c, ch)
TokensOwned ==
  \A t \in tokens \cup granted : t.code \in inbox[Owner[t.ch]] /\ Asked(t.ch, t.intent)
RequestOwned(r) ==
  /\ ~At(r, "idle") => chan[r] \in Channels
  /\ pc[r] \in {"saveRef", "findRef", "provider", "consumeRef"} => chan[r] \in Phones
  /\ At(r, "consume") => chan[r] \in Emails /\ BoundTo(code[r], chan[r])
  /\ At(r, "generate") \/ Sends(r) =>
       flow[r] \in Asks /\ Owner[flow[r].to] = Owner[chan[r]]
       /\ (chan[r] \in Emails => flow[r].to \in Emails)
  /\ Sends(r) => /\ code[r] \in Codes
                 /\ purpose[code[r]] = [ch |-> chan[r], intent |-> flow[r].intent]
  /\ Trying(r) => code[r] \in Received \cup {Wrong}
  /\ pc[r] \in {"provider", "consumeRef"} => BoundTo(held[r], chan[r])
  /\ Accepted(r) => code[r] \in inbox[Owner[chan[r]]]

\* A code never leaves the owner it was generated for: not in the cache, the
\* queue, an inbox or a token, nor in the locals of an overlapping handler.
Ownership ==
  /\ CodesFresh /\ CacheOwned /\ QueueOwned /\ InboxOwned /\ TokensOwned
  /\ \A r \in Requests : RequestOwned(r)

ConsumedKnown == \A c \in consumed : purpose[c] # None
ConsumedGone  == /\ \A ch \in Emails : otp[ch] \notin consumed
                 /\ \A ch \in Phones : ref[ch] \notin consumed
PinConfirmed  == \A r \in Requests : At(r, "consumeRef") => held[r] = code[r]
PinFresh(r)   ==
  Unsaved(r) =>
    /\ code[r] \notin consumed
    /\ \A ch \in Phones : ref[ch] # code[r]
    /\ \A s \in Requests :
         /\ pc[s] \in {"provider", "consumeRef"} => held[s] # code[r]
         /\ Unsaved(s) /\ s # r => code[s] # code[r]

\* A code some verification has deleted is nowhere it could be accepted again,
\* and no handler is about to put it there.
SpentCodes ==
  ConsumedKnown /\ ConsumedGone /\ PinConfirmed /\ \A r \in Requests : PinFresh(r)

IInv == TypeOK /\ Ownership /\ SpentCodes

\* The requests that have accepted a code and may still answer a token for it.
Attempts(c) == {r \in Requests : Opened(r) = c}

\* While Redis answers, a code that gave a token is spent, and its tokens and the
\* attempts still open are no more than the requests that were in flight.
TokensCounted ==
  ~RedisFails =>
    /\ \A r \in Requests : At(r, "readIntent") => code[r] \in consumed
    /\ \A c \in Codes : /\ minted[c] > 0 => c \in consumed
                        /\ minted[c] + Cardinality(Attempts(c)) <= Cardinality(Requests)

\* The code that a verification accepted is the one under its key, or an older one.
AcceptedNotNewer ==
  \A r \in Requests :
    At(r, "consume") /\ otp[chan[r]] # None => code[r] <= otp[chan[r]]
=============================================================================
