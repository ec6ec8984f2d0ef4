-------------------------- MODULE OtpChannel_proofs --------------------------
(***************************************************************************)
(* Proofs about OtpChannel, for any channels, requests and bound on codes, *)
(* with or without Redis failures.  TypeOK, Ownership and SpentCodes are   *)
(* inductive together; the rest follows from them.                         *)
(***************************************************************************)
EXTENDS OtpChannel, FiniteSetTheorems, TLAPS

LEMMA FlowFacts ==
  \A ch : Flows(ch) \subseteq Intents
BY DEF Flows, Intents

\* A spelling of an address belongs to an address, a number to itself.
LEMMA OwnerFacts ==
  /\ \A ch \in Channels : Owner[ch] \in Channels /\ Owner[Owner[ch]] = Owner[ch]
  /\ \A ch \in Emails : ch \in Channels /\ Owner[ch] \in Emails
  /\ \A ch \in Phones : ch \in Channels /\ Owner[ch] = ch /\ ch \notin Emails
<1>1. \A ch \in Emails : ch \in Channels /\ Owner[ch] = Lower[ch] /\ Lower[ch] \in Emails
                         /\ Lower[Lower[ch]] = Lower[ch]
  BY ConstantsAssumption DEF Owner, Channels
<1>2. \A ch \in Phones : ch \in Channels /\ Owner[ch] = ch /\ ch \notin Emails
  BY ConstantsAssumption DEF Owner, Channels
<1> QED
  BY <1>1, <1>2 DEF Channels

\* What was asked is an intent and a channel of the owner the code is kept for.
LEMMA AskFacts ==
  ASSUME NEW to \in Channels, NEW f \in Flows(to), NEW ch \in KeptUnder(to, f)
  PROVE  /\ ch \in Channels /\ Owner[ch] = Owner[to] /\ (ch \in Emails => to \in Emails)
         /\ [intent |-> f, to |-> to] \in Asks
<1>1. f \in Intents
  BY FlowFacts
<1>2. CASE ch = to
  BY <1>1, <1>2 DEF Asks
<1>3. CASE ch # to
  <2>1. to \in Emails /\ ch = Lower[to]
    BY <1>3 DEF KeptUnder
  <2>2. ch = Owner[to] /\ ch \in Channels
    BY <2>1, OwnerFacts DEF Owner
  <2> QED
    BY <1>1, <2>1, <2>2, OwnerFacts DEF Asks
<1> QED
  BY <1>2, <1>3

\* What the locals of a request are, where it stands.
LEMMA Locals ==
  ASSUME TypeOK, Ownership, NEW r \in Requests
  PROVE  /\ ~At(r, "idle") => chan[r] \in Channels
         /\ At(r, "generate") \/ Sends(r) =>
              /\ flow[r] \in Asks /\ flow[r].intent \in Intents /\ flow[r].to \in Channels
              /\ Owner[flow[r].to] = Owner[chan[r]]
              /\ chan[r] \in Emails => flow[r].to \in Emails
         /\ Sends(r) => code[r] \in Codes
         /\ Accepted(r) => code[r] \in Codes
         /\ pc[r] \in {"saveRef", "findRef", "provider", "consumeRef"} => chan[r] \in Phones
         /\ At(r, "consume") => chan[r] \in Emails
<1>1. RequestOwned(r)
  BY DEF Ownership
<1>2. Accepted(r) => code[r] \in Codes
  BY <1>1, OwnerFacts DEF RequestOwned, Accepted, At, TypeOK, WorldOK
<1> QED
  BY <1>1, <1>2 DEF RequestOwned, Asks, Sends, At

LEMMA FinishTypes ==
  ASSUME NEW r \in Requests, LocalsOK, Finish(r)
  PROVE  LocalsOK'
<1>1. 0 \in 0..MaxCode
  BY ConstantsAssumption
<1> QED
  BY <1>1 DEF LocalsOK, Finish, PCs

(***************************************************************************)
(* Typing.                                                                 *)
(***************************************************************************)
LEMMA TypeStep == IInv /\ [Next]_vars => TypeOK'
<1> SUFFICES ASSUME TypeOK, Ownership, [Next]_vars PROVE TypeOK'
  BY DEF IInv
<1> USE DEF TypeOK, cacheVars, reqVars, ghostVars, mailVars, mailVars
<1>1. ASSUME NEW r \in Requests, NEW ch \in Channels, StartSend(r, ch) PROVE TypeOK'
  <2>1. PICK f \in Flows(ch) : \E key \in KeptUnder(ch, f) :
           /\ chan' = [chan EXCEPT ![r] = key]
           /\ flow' = [flow EXCEPT ![r] = [intent |-> f, to |-> ch]]
    BY <1>1 DEF StartSend
  <2>2. LocalsOK'
    BY <1>1, <2>1, AskFacts DEF StartSend, LocalsOK, Goto, PCs
  <2> QED
    BY <1>1, <2>2 DEF StartSend, CacheOK, WorldOK, GhostsOK
<1>2. ASSUME NEW r \in Requests, NEW ch \in Channels, StartVerify(r, ch) PROVE TypeOK'
  <2>1. Received \cup {Wrong} \subseteq 0..MaxCode
    BY ConstantsAssumption DEF Received, Wrong, WorldOK, Codes
  <2>2. LocalsOK'
    BY <1>2, <2>1 DEF StartVerify, LocalsOK, Goto, PCs
  <2> QED
    BY <1>2, <2>2 DEF StartVerify, CacheOK, WorldOK, GhostsOK
<1>3. ASSUME NEW r \in Requests, GenerateOTP(r) PROVE TypeOK'
  <2>1. next + 1 \in 1..(MaxCode + 1) /\ next \in 0..MaxCode
    BY <1>3, ConstantsAssumption DEF GenerateOTP, Codes
  <2>2. [ch |-> chan[r], intent |-> flow[r].intent] \in Purposes
    BY <1>3, Locals DEF GenerateOTP, At, Purposes
  <2>3. CacheOK'
    BY <1>3 DEF GenerateOTP, CacheOK
  <2>4. WorldOK'
    BY <1>3, <2>1 DEF GenerateOTP, WorldOK
  <2>5. LocalsOK'
    BY <1>3, <2>1 DEF GenerateOTP, LocalsOK, Goto, PCs
  <2>6. GhostsOK'
    BY <1>3, <2>2 DEF GenerateOTP, GhostsOK
  <2> QED
    BY <2>3, <2>4, <2>5, <2>6
<1>4. ASSUME NEW r \in Requests, GenerateOTPFails(r) \/ Abort(r) PROVE TypeOK'
  <2>1. LocalsOK'
    BY <1>4, FinishTypes DEF GenerateOTPFails, Abort
  <2> QED
    BY <1>4, <2>1 DEF GenerateOTPFails, Abort, CacheOK, WorldOK, GhostsOK
<1>5. ASSUME NEW r \in Requests, EnqueueEmail(r) PROVE TypeOK'
  <2>1. code[r] \in Codes /\ flow[r].intent \in Intents /\ flow[r].to \in Emails
    BY <1>5, Locals DEF EnqueueEmail, At, Sends
  <2>2. [to |-> flow[r].to, code |-> code[r], intent |-> flow[r].intent, stage |-> "pending"]
          \in Tasks
    BY <2>1 DEF Tasks
  <2>3. WorldOK'
    BY <1>5, <2>2 DEF EnqueueEmail, WorldOK
  <2>4. LocalsOK'
    BY <1>5, FinishTypes DEF EnqueueEmail, LocalsOK, Goto, PCs
  <2> QED
    BY <1>5, <2>3, <2>4 DEF EnqueueEmail, CacheOK, GhostsOK
<1>6. ASSUME NEW r \in Requests, SendSms(r) \/ SendSmsFails(r) PROVE TypeOK'
  <2>1. code[r] \in Codes
    BY <1>6, Locals DEF SendSms, SendSmsFails, At, Sends
  <2>2. WorldOK'
    BY <1>6, <2>1 DEF SendSms, SendSmsFails, WorldOK
  <2>3. LocalsOK'
    BY <1>6, FinishTypes DEF SendSms, SendSmsFails, LocalsOK, Goto, PCs
  <2> QED
    BY <1>6, <2>2, <2>3 DEF SendSms, SendSmsFails, CacheOK, GhostsOK
<1>7. ASSUME NEW r \in Requests, SaveRef(r) PROVE TypeOK'
  <2>1. code[r] \in Codes
    BY <1>7, Locals DEF SaveRef, At, Sends
  <2>2. CacheOK'
    BY <1>7, <2>1 DEF SaveRef, CacheOK, Written
  <2>3. LocalsOK'
    BY <1>7 DEF SaveRef, LocalsOK, Goto, PCs
  <2> QED
    BY <1>7, <2>2, <2>3 DEF SaveRef, WorldOK, GhostsOK
<1>8. ASSUME NEW r \in Requests, SaveIntent(r) PROVE TypeOK'
  <2>1. flow[r].intent \in Intents
    BY <1>8, Locals DEF SaveIntent, At, Sends
  <2>2. CacheOK'
    BY <1>8, <2>1 DEF SaveIntent, CacheOK, Written
  <2>3. LocalsOK'
    BY <1>8, FinishTypes DEF SaveIntent
  <2> QED
    BY <1>8, <2>2, <2>3 DEF SaveIntent, WorldOK, GhostsOK
<1>9. ASSUME NEW r \in Requests, CheckOTP(r) \/ ProviderVerify(r) PROVE TypeOK'
  <2>1. LocalsOK'
    BY <1>9, FinishTypes DEF CheckOTP, ProviderVerify, LocalsOK, Goto, PCs
  <2> QED
    BY <1>9, <2>1 DEF CheckOTP, ProviderVerify, CacheOK, WorldOK, GhostsOK
<1>10. ASSUME NEW r \in Requests, ConsumeOTP(r) PROVE TypeOK'
  <2>1. code[r] \in Codes
    BY <1>10, Locals DEF ConsumeOTP, At, Accepted
  <2>2. CacheOK'
    BY <1>10 DEF ConsumeOTP, CacheOK, Written
  <2>3. LocalsOK'
    BY <1>10 DEF ConsumeOTP, LocalsOK, Goto, PCs
  <2>4. GhostsOK'
    BY <1>10, <2>1 DEF ConsumeOTP, GhostsOK
  <2> QED
    BY <1>10, <2>2, <2>3, <2>4 DEF ConsumeOTP, WorldOK
<1>11. ASSUME NEW r \in Requests, FindRef(r) PROVE TypeOK'
  <2>1. chan[r] \in Phones
    BY <1>11, Locals DEF FindRef, At
  <2>2. PICK saved \in Found(ref[chan[r]]) :
          \/ Finish(r)
          \/ saved # None /\ held' = [held EXCEPT ![r] = saved]
             /\ Goto(r, "provider") /\ UNCHANGED <<chan, code, flow>>
    BY <1>11 DEF FindRef
  <2>3. saved \in Codes \cup {None}
    BY <2>1, <2>2 DEF Found, CacheOK
  <2>4. LocalsOK'
    BY <2>2, <2>3, FinishTypes DEF LocalsOK, Goto, PCs
  <2> QED
    BY <1>11, <2>4 DEF FindRef, CacheOK, WorldOK, GhostsOK
<1>12. ASSUME NEW r \in Requests, ConsumeRef(r) PROVE TypeOK'
  <2>1. code[r] \in Codes
    BY <1>12, Locals DEF ConsumeRef, At, Accepted
  <2>2. CacheOK'
    BY <1>12 DEF ConsumeRef, CacheOK, Written
  <2>3. LocalsOK'
    BY <1>12 DEF ConsumeRef, LocalsOK, Goto, PCs
  <2>4. GhostsOK'
    BY <1>12, <2>1 DEF ConsumeRef, GhostsOK
  <2> QED
    BY <1>12, <2>2, <2>3, <2>4 DEF ConsumeRef, WorldOK
<1>13. ASSUME NEW r \in Requests, ReadIntent(r) PROVE TypeOK'
  <2>1. chan[r] \in Channels /\ code[r] \in Codes
    BY <1>13, Locals DEF ReadIntent, At, Accepted
  <2>2. PICK want \in Found(intent[chan[r]]) :
          IF want = None
            THEN UNCHANGED <<tokens, minted>>
            ELSE /\ tokens' = tokens \cup {[ch |-> chan[r], intent |-> want,
                                            code |-> code[r]]}
                 /\ minted' = [minted EXCEPT ![code[r]] = IF @ < MintCap THEN @ + 1 ELSE @]
    BY <1>13 DEF ReadIntent
  <2>3. want # None => [ch |-> chan[r], intent |-> want, code |-> code[r]] \in Tokens
    BY <2>1 DEF Found, CacheOK, Tokens
  <2>4. WorldOK'
    BY <1>13, <2>2, <2>3 DEF ReadIntent, WorldOK
  <2>5. GhostsOK'
    BY <1>13, <2>2 DEF ReadIntent, GhostsOK
  <2>6. LocalsOK'
    BY <1>13, FinishTypes DEF ReadIntent
  <2> QED
    BY <1>13, <2>4, <2>5, <2>6 DEF ReadIntent, CacheOK
<1>14. ASSUME NEW t \in queue, SendEmail(t) PROVE TypeOK'
  <2>1. t \in Tasks /\ t.to \in Channels /\ t.code \in Codes
    BY DEF WorldOK, Tasks, Channels
  <2>2. [t EXCEPT !.stage = "mailed"] \in Tasks
    BY <2>1 DEF Tasks
  <2>3. WorldOK'
    BY <1>14, <2>1, <2>2, OwnerFacts DEF SendEmail, WorldOK
  <2> QED
    BY <1>14, <2>3 DEF SendEmail, CacheOK, LocalsOK, GhostsOK
<1>15. ASSUME NEW t \in queue, RecordIntent(t) PROVE TypeOK'
  <2>1. t.to \in Channels /\ t.intent \in Intents
    BY DEF WorldOK, Tasks, Channels
  <2>2. CacheOK'
    BY <1>15, <2>1 DEF RecordIntent, IntentWritten, CacheOK
  <2>3. t.code \in Codes
    BY DEF WorldOK, Tasks
  <2>4. GhostsOK'
    BY <1>15, <2>3 DEF RecordIntent, IntentWritten, IntentNoted, GhostsOK
  <2> QED
    BY <1>15, <2>2, <2>4 DEF RecordIntent, WorldOK, LocalsOK
<1>16. ASSUME NEW t \in queue, ArchiveTask(t) PROVE TypeOK'
  BY <1>16 DEF ArchiveTask, CacheOK, WorldOK, LocalsOK, GhostsOK, Tasks
<1>17. ASSUME NEW t \in tokens, UseToken(t) \/ ExpireToken(t) PROVE TypeOK'
  BY <1>17 DEF UseToken, ExpireToken, CacheOK, WorldOK, LocalsOK, GhostsOK
<1>18. ASSUME NEW ch \in Channels, ExpireOtp(ch) \/ ExpireIntent(ch) PROVE TypeOK'
  BY <1>18 DEF ExpireOtp, ExpireIntent, CacheOK, WorldOK, LocalsOK, GhostsOK
<1>19. ASSUME NEW ch \in Phones, ExpireRef(ch) PROVE TypeOK'
  BY <1>19 DEF ExpireRef, CacheOK, WorldOK, LocalsOK, GhostsOK
<1>20. ASSUME UNCHANGED vars PROVE TypeOK'
  BY <1>20 DEF vars, CacheOK, WorldOK, LocalsOK, GhostsOK
<1> QED
  BY <1>1, <1>2, <1>3, <1>4, <1>5, <1>6, <1>7, <1>8, <1>9, <1>10, <1>11, <1>12,
     <1>13, <1>14, <1>15, <1>16, <1>17, <1>18, <1>19, <1>20
  DEF Next, Start, Send, Verify, Deliver, Expire

(***************************************************************************)
(* Ownership.  A step only adds purposes and received codes, so what was   *)
(* owned stays owned; what a step writes is bound to the channel it is     *)
(* written under.                                                          *)
(***************************************************************************)
LEMMA PurposeIsSome ==
  ASSUME NEW ch \in Channels, NEW i \in Intents
  PROVE  [ch |-> ch, intent |-> i] \in Purposes /\ [ch |-> ch, intent |-> i] # None
<1>1. [ch |-> ch, intent |-> i] \in Purposes
  BY DEF Purposes
<1> QED
  BY <1>1, ConstantsAssumption

Grows ==
  /\ \A c \in Codes : purpose[c] # None => purpose'[c] = purpose[c]
  /\ \A ch \in Channels : inbox[ch] \subseteq inbox'[ch]
SameLocals(s) ==
  /\ pc'[s] = pc[s] /\ chan'[s] = chan[s] /\ code'[s] = code[s]
  /\ flow'[s] = flow[s] /\ held'[s] = held[s]

LEMMA BoundKept ==
  ASSUME TypeOK, Grows, NEW c, NEW ch, BoundTo(c, ch)
  PROVE  BoundTo(c, ch)'
BY DEF Grows, BoundTo

LEMMA MeantKept ==
  ASSUME TypeOK, Grows, NEW c, NEW ch, Meant(c, ch)
  PROVE  Meant(c, ch)'
BY DEF Grows, Meant

LEMMA AskedKept ==
  ASSUME TypeOK, Grows, NEW ch \in Channels, NEW i \in Intents, Asked(ch, i)
  PROVE  Asked(ch, i)'
<1>1. PICK c \in Codes : /\ purpose[c] # None
                         /\ Owner[purpose[c].ch] = Owner[ch] /\ purpose[c].intent = i
  BY DEF Asked
<1>2. purpose'[c] = purpose[c]
  BY <1>1 DEF Grows
<1> QED
  BY <1>1, <1>2 DEF Asked

LEMMA CacheKept ==
  ASSUME TypeOK, Grows, CacheOwned, UNCHANGED cacheVars
  PROVE  CacheOwned'
<1>1. ASSUME NEW ch \in Channels
      PROVE  /\ (otp[ch] # None => BoundTo(otp[ch], ch))'
             /\ (intent[ch] # None => Asked(ch, intent[ch]))'
  BY BoundKept, AskedKept DEF CacheOwned, cacheVars, TypeOK, CacheOK
<1>2. ASSUME NEW ch \in Phones PROVE (ref[ch] # None => BoundTo(ref[ch], ch))'
  BY BoundKept DEF CacheOwned, cacheVars
<1> QED
  BY <1>1, <1>2 DEF CacheOwned

LEMMA QueueKept ==
  ASSUME TypeOK, Grows, QueueOwned, queue' \subseteq queue
  PROVE  QueueOwned'
<1> SUFFICES ASSUME NEW t \in queue
             PROVE  Meant(t.code, Owner[t.to])' /\ purpose'[t.code].intent = t.intent
  BY DEF QueueOwned
<1> QED
  BY MeantKept DEF QueueOwned, Grows, Meant

LEMMA InboxKept ==
  ASSUME TypeOK, Grows, InboxOwned, UNCHANGED inbox
  PROVE  InboxOwned'
BY MeantKept DEF InboxOwned

LEMMA TokensKept ==
  ASSUME TypeOK, Grows, TokensOwned, tokens' \cup granted' \subseteq tokens \cup granted
  PROVE  TokensOwned'
<1> SUFFICES ASSUME NEW t \in tokens \cup granted
             PROVE  t.code \in inbox'[Owner[t.ch]] /\ Asked(t.ch, t.intent)'
  BY DEF TokensOwned
<1>1. t.ch \in Channels /\ t.intent \in Intents
  BY DEF TypeOK, WorldOK, Tokens
<1> QED
  BY <1>1, AskedKept, OwnerFacts DEF TokensOwned, Grows

LEMMA RequestKept ==
  ASSUME TypeOK, Grows, NEW r \in Requests, RequestOwned(r), SameLocals(r)
  PROVE  RequestOwned(r)'
<1>1. Received \subseteq Received'
  BY DEF Grows, Received
<1>2. Sends(r) => purpose'[code[r]] = [ch |-> chan[r], intent |-> flow[r].intent]
  <2>1. Sends(r) => [ch |-> chan[r], intent |-> flow[r].intent] \in Purposes
    BY DEF RequestOwned, Sends, At, Purposes, Asks
  <2> QED
    BY <2>1, ConstantsAssumption DEF RequestOwned, Grows
<1>3. /\ pc[r] \in {"provider", "consumeRef"} => BoundTo(held[r], chan[r])'
      /\ At(r, "consume") => BoundTo(code[r], chan[r])'
  BY BoundKept DEF RequestOwned, SameLocals
<1>4. Accepted(r) => code[r] \in inbox'[Owner[chan[r]]]
  BY OwnerFacts DEF RequestOwned, Accepted, At, Grows
<1> QED
  BY <1>1, <1>2, <1>3, <1>4
  DEF RequestOwned, SameLocals, At, Sends, Trying, Accepted, BoundTo

LEMMA IdleOwned ==
  ASSUME TypeOK, NEW r \in Requests, Finish(r)
  PROVE  /\ RequestOwned(r)'
         /\ \A s \in Requests \ {r} : SameLocals(s)
<1>1. pc'[r] = "idle"
  BY DEF Finish, TypeOK, LocalsOK
<1>2. RequestOwned(r)'
  BY <1>1 DEF RequestOwned, At, Sends, Trying, Accepted
<1> QED
  BY <1>2 DEF Finish, SameLocals, TypeOK, LocalsOK

\* The requests part: the one that moved, if it still owns its locals, and the
\* ones that did not.
LEMMA RequestsKept ==
  ASSUME TypeOK, Ownership, Grows, NEW r \in Requests, RequestOwned(r)',
         \A s \in Requests \ {r} : SameLocals(s)
  PROVE  \A s \in Requests : RequestOwned(s)'
BY RequestKept DEF Ownership

LEMMA StepGrows ==
  ASSUME TypeOK, Ownership, Next
  PROVE  Grows
<1> USE DEF Grows, cacheVars, reqVars, ghostVars, mailVars, mailVars
<1>1. ASSUME NEW r \in Requests, GenerateOTP(r) PROVE Grows
  <2>1. purpose[next] = None
    BY <1>1, ConstantsAssumption DEF GenerateOTP, Ownership, CodesFresh, Codes
  <2> QED
    BY <1>1, <2>1 DEF GenerateOTP, TypeOK, GhostsOK
<1>2. ASSUME NEW r \in Requests, SendSms(r) \/ SendSmsFails(r) PROVE Grows
  BY <1>2 DEF SendSms, SendSmsFails, TypeOK, WorldOK
<1>3. ASSUME NEW t \in queue, SendEmail(t) PROVE Grows
  BY <1>3 DEF SendEmail, TypeOK, WorldOK
<1>4. UNCHANGED <<purpose, inbox>> => Grows
  OBVIOUS
<1> QED
  BY <1>1, <1>2, <1>3, <1>4
  DEF Next, Start, Send, Verify, Deliver, Expire, StartSend, StartVerify,
      GenerateOTPFails, EnqueueEmail, SaveRef, SaveIntent, CheckOTP, ConsumeOTP,
      FindRef, ProviderVerify, ConsumeRef, ReadIntent, Abort, RecordIntent,
      ArchiveTask, UseToken, ExpireToken, ExpireOtp, ExpireIntent, ExpireRef

\* A code that somebody received and that is kept for a channel reached its owner.
LEMMA ReachedOwner ==
  ASSUME Ownership, NEW c \in Received, NEW ch \in Channels, BoundTo(c, ch)
  PROVE  c \in inbox[Owner[ch]]
<1>1. PICK d \in Channels : c \in inbox[d]
  BY DEF Received
<1>2. Meant(c, d)
  BY <1>1 DEF Ownership, InboxOwned
<1> QED
  BY <1>1, <1>2 DEF BoundTo, Meant

LEMMA OwnershipStep == IInv /\ [Next]_vars => Ownership'
<1> SUFFICES ASSUME TypeOK, TypeOK', Ownership, [Next]_vars PROVE Ownership'
  BY TypeStep DEF IInv
<1>0. CASE UNCHANGED vars
  BY <1>0 DEF vars, cacheVars, reqVars, ghostVars, mailVars, Ownership, CodesFresh, CacheOwned,
     QueueOwned, InboxOwned, TokensOwned, RequestOwned, BoundTo, Meant, Asked, At, Sends,
     Trying, Accepted, Received
<1> SUFFICES ASSUME Next PROVE Ownership'
  BY <1>0
<1> Grows
  BY StepGrows
<1> USE DEF cacheVars, reqVars, ghostVars, mailVars, mailVars
<1>1. CodesFresh'
  <2>1. ASSUME NEW r \in Requests, GenerateOTP(r) PROVE CodesFresh'
    BY <2>1, ConstantsAssumption DEF GenerateOTP, Ownership, CodesFresh, TypeOK, WorldOK, GhostsOK, Codes
  <2>2. UNCHANGED <<purpose, next>> => CodesFresh'
    BY DEF Ownership, CodesFresh
  <2> QED
    BY <2>1, <2>2
    DEF Next, Start, Send, Verify, Deliver, Expire, StartSend, StartVerify,
        GenerateOTPFails, EnqueueEmail, SendSms, SendSmsFails, SaveRef, SaveIntent,
        CheckOTP, ConsumeOTP, FindRef, ProviderVerify, ConsumeRef, ReadIntent, Abort,
        SendEmail, RecordIntent, ArchiveTask, UseToken, ExpireToken, ExpireOtp,
        ExpireIntent, ExpireRef
<1>2. CacheOwned'
  <2>0. ASSUME /\ \A ch \in Channels :
                    /\ otp'[ch] \in {otp[ch], None} \/ (BoundTo(otp[ch], ch))'
                    /\ intent'[ch] \in {intent[ch], None} \/ (Asked(ch, intent[ch]))'
               /\ \A ch \in Phones :
                    ref'[ch] \in {ref[ch], None} \/ (BoundTo(ref[ch], ch))'
        PROVE  CacheOwned'
    <3>1. ASSUME NEW ch \in Channels
          PROVE  /\ (otp[ch] # None => BoundTo(otp[ch], ch))'
                 /\ (intent[ch] # None => Asked(ch, intent[ch]))'
      BY <2>0, BoundKept, AskedKept DEF Ownership, CacheOwned, TypeOK, CacheOK
    <3>2. ASSUME NEW ch \in Phones PROVE (ref[ch] # None => BoundTo(ref[ch], ch))'
      BY <2>0, BoundKept DEF Ownership, CacheOwned
    <3> QED
      BY <3>1, <3>2 DEF CacheOwned
  <2>1. ASSUME NEW r \in Requests, GenerateOTP(r) PROVE CacheOwned'
    <3>1. chan[r] \in Channels /\ flow[r].intent \in Intents /\ next \in Codes
      BY <2>1, Locals DEF GenerateOTP, At
    <3>2. purpose'[next] = [ch |-> chan[r], intent |-> flow[r].intent] /\ purpose'[next] # None
      BY <2>1, <3>1, PurposeIsSome DEF GenerateOTP, TypeOK, GhostsOK
    <3>3. ASSUME NEW ch \in Channels
          PROVE  otp'[ch] = otp[ch] \/ (BoundTo(otp[ch], ch))'
      BY <2>1, <3>1, <3>2 DEF GenerateOTP, TypeOK, CacheOK, BoundTo
    <3> QED
      BY <2>0, <2>1, <3>3 DEF GenerateOTP
  <2>2. ASSUME NEW r \in Requests, SaveRef(r) PROVE CacheOwned'
    <3>1. purpose[code[r]] = [ch |-> chan[r], intent |-> flow[r].intent]
      BY <2>2 DEF SaveRef, At, Ownership, RequestOwned, Sends
    <3>2. BoundTo(code[r], chan[r])
      BY <2>2, <3>1, Locals, PurposeIsSome DEF SaveRef, At, Sends, BoundTo
    <3> QED
      BY <2>0, <2>2, <3>2 DEF SaveRef, Written, TypeOK, CacheOK, BoundTo
  <2>3. ASSUME NEW r \in Requests, SaveIntent(r) PROVE CacheOwned'
    <3>1. Asked(chan[r], flow[r].intent)
      <4>1. code[r] \in Codes /\ purpose[code[r]] = [ch |-> chan[r], intent |-> flow[r].intent]
        BY <2>3 DEF SaveIntent, At, Ownership, RequestOwned, Sends
      <4>2. purpose[code[r]] # None
        BY <2>3, <4>1, Locals, PurposeIsSome DEF SaveIntent, At, Sends
      <4> QED
        BY <4>1, <4>2 DEF Asked
    <3> QED
      BY <2>0, <2>3, <3>1 DEF SaveIntent, Written, TypeOK, CacheOK, Asked
  <2>4. ASSUME NEW t \in queue, RecordIntent(t) PROVE CacheOwned'
    <3>1. Asked(t.to, t.intent)
      BY DEF Ownership, QueueOwned, Meant, Asked
    <3> QED
      BY <2>0, <2>4, <3>1 DEF RecordIntent, IntentWritten, TypeOK, CacheOK, Asked
  <2>5. ASSUME NEW r \in Requests, ConsumeOTP(r) \/ ConsumeRef(r) PROVE CacheOwned'
    BY <2>0, <2>5 DEF ConsumeOTP, ConsumeRef, Written, TypeOK, CacheOK
  <2>6. ASSUME NEW ch \in Channels, ExpireOtp(ch) \/ ExpireIntent(ch) PROVE CacheOwned'
    BY <2>0, <2>6 DEF ExpireOtp, ExpireIntent, TypeOK, CacheOK
  <2>7. ASSUME NEW ch \in Phones, ExpireRef(ch) PROVE CacheOwned'
    BY <2>0, <2>7 DEF ExpireRef, TypeOK, CacheOK
  <2>8. UNCHANGED cacheVars => CacheOwned'
    BY CacheKept DEF Ownership
  <2> QED
    BY <2>1, <2>2, <2>3, <2>4, <2>5, <2>6, <2>7, <2>8
    DEF Next, Start, Send, Verify, Deliver, Expire, StartSend, StartVerify,
        GenerateOTPFails, EnqueueEmail, SendSms, SendSmsFails, CheckOTP, FindRef,
        ProviderVerify, ReadIntent, Abort, SendEmail, ArchiveTask, UseToken, ExpireToken
<1>3. QueueOwned'
  <2>1. ASSUME NEW r \in Requests, EnqueueEmail(r) PROVE QueueOwned'
    <3>1. /\ Meant(code[r], Owner[flow[r].to])
          /\ purpose[code[r]].intent = flow[r].intent
      <4>1. code[r] \in Codes /\ purpose[code[r]] = [ch |-> chan[r], intent |-> flow[r].intent]
        BY <2>1 DEF EnqueueEmail, At, Ownership, RequestOwned, Sends
      <4>2. purpose[code[r]] # None /\ Owner[flow[r].to] = Owner[chan[r]]
        BY <2>1, <4>1, Locals, PurposeIsSome DEF EnqueueEmail, At, Sends
      <4> QED
        BY <4>1, <4>2 DEF Meant
    <3> DEFINE task == [to |-> flow[r].to, code |-> code[r], intent |-> flow[r].intent,
                        stage |-> "pending"]
    <3>2. \A t \in queue' : t \in queue \/ t = task
      BY <2>1 DEF EnqueueEmail
    <3>3. UNCHANGED purpose
      BY <2>1 DEF EnqueueEmail
    <3>4. ASSUME NEW t \in queue'
          PROVE  Meant(t.code, Owner[t.to]) /\ purpose[t.code].intent = t.intent
      <4>1. CASE t = task
        <5>1. t.code = code[r] /\ t.to = flow[r].to /\ t.intent = flow[r].intent
          BY <4>1
        <5> QED
          BY <3>1, <5>1
      <4>2. CASE t \in queue
        BY <4>2 DEF Ownership, QueueOwned
      <4> QED
        BY <3>2, <4>1, <4>2
    <3> QED
      BY <3>3, <3>4 DEF QueueOwned, Meant
  <2>2. ASSUME NEW t \in queue, SendEmail(t) PROVE QueueOwned'
    <3>1. t \in Tasks
      BY DEF TypeOK, WorldOK
    <3>2. /\ [t EXCEPT !.stage = "mailed"].to = t.to
          /\ [t EXCEPT !.stage = "mailed"].code = t.code
          /\ [t EXCEPT !.stage = "mailed"].intent = t.intent
      BY <3>1 DEF Tasks
    <3>3. \A u \in queue' : u \in queue \/ u = [t EXCEPT !.stage = "mailed"]
      BY <2>2 DEF SendEmail
    <3>4. UNCHANGED purpose
      BY <2>2 DEF SendEmail
    <3>5. ASSUME NEW u \in queue'
          PROVE  Meant(u.code, Owner[u.to]) /\ purpose[u.code].intent = u.intent
      <4>1. Meant(t.code, Owner[t.to]) /\ purpose[t.code].intent = t.intent
        BY DEF Ownership, QueueOwned
      <4> QED
        BY <3>2, <3>3, <4>1 DEF Ownership, QueueOwned
    <3> QED
      BY <3>4, <3>5 DEF QueueOwned, Meant
  <2>3. queue' \subseteq queue => QueueOwned'
    BY QueueKept DEF Ownership
  <2> QED
    BY <2>1, <2>2, <2>3
    DEF Next, Start, Send, Verify, Deliver, Expire, StartSend, StartVerify, GenerateOTP,
        GenerateOTPFails, SendSms, SendSmsFails, SaveRef, SaveIntent,
        CheckOTP, ConsumeOTP, FindRef, ProviderVerify, ConsumeRef, ReadIntent, Abort,
        RecordIntent, ArchiveTask, UseToken, ExpireToken, ExpireOtp,
        ExpireIntent, ExpireRef
<1>4. InboxOwned'
  <2>0. ASSUME NEW ch \in Channels, NEW c, Meant(c, ch), UNCHANGED purpose,
               inbox' = [inbox EXCEPT ![ch] = @ \cup {c}]
        PROVE  InboxOwned'
    BY <2>0 DEF Ownership, InboxOwned, Meant, TypeOK, WorldOK
  <2>1. ASSUME NEW r \in Requests, SendSms(r) \/ SendSmsFails(r) PROVE InboxOwned'
    <3>1. code[r] \in Codes /\ purpose[code[r]] = [ch |-> chan[r], intent |-> flow[r].intent]
      BY <2>1 DEF SendSms, SendSmsFails, At, Ownership, RequestOwned, Sends
    <3>2. chan[r] \in Channels /\ Owner[chan[r]] = chan[r] /\ purpose[code[r]] # None
      BY <2>1, <3>1, Locals, OwnerFacts, PurposeIsSome DEF SendSms, SendSmsFails, At, Sends
    <3>3. Meant(code[r], chan[r])
      BY <3>1, <3>2 DEF Meant
    <3> QED
      BY <2>0, <2>1, <3>2, <3>3, InboxKept DEF SendSms, SendSmsFails, Ownership
  <2>2. ASSUME NEW t \in queue, SendEmail(t) PROVE InboxOwned'
    <3>1. Owner[t.to] \in Channels
      BY OwnerFacts DEF TypeOK, WorldOK, Tasks
    <3>3. Meant(t.code, Owner[t.to])
      BY DEF Ownership, QueueOwned
    <3> QED
      BY <2>0, <2>2, <3>1, <3>3 DEF SendEmail
  <2>3. UNCHANGED inbox => InboxOwned'
    BY InboxKept DEF Ownership
  <2> QED
    BY <2>1, <2>2, <2>3
    DEF Next, Start, Send, Verify, Deliver, Expire, StartSend, StartVerify, GenerateOTP,
        GenerateOTPFails, EnqueueEmail, SaveRef, SaveIntent,
        CheckOTP, ConsumeOTP, FindRef, ProviderVerify, ConsumeRef, ReadIntent, Abort,
        RecordIntent, ArchiveTask, UseToken, ExpireToken, ExpireOtp,
        ExpireIntent, ExpireRef
<1>5. TokensOwned'
  <2>1. ASSUME NEW r \in Requests, ReadIntent(r) PROVE TokensOwned'
    <3>1. chan[r] \in Channels /\ code[r] \in inbox[Owner[chan[r]]]
      BY <2>1, Locals DEF ReadIntent, At, Accepted, Ownership, RequestOwned
    <3>2. PICK want \in Found(intent[chan[r]]) :
            IF want = None
              THEN UNCHANGED tokens
              ELSE tokens' = tokens \cup {[ch |-> chan[r], intent |-> want,
                                           code |-> code[r]]}
      BY <2>1 DEF ReadIntent
    <3>3. want # None => Asked(chan[r], want)
      BY <3>1 DEF Found, Ownership, CacheOwned
    <3> QED
      BY <2>1, <3>1, <3>2, <3>3 DEF ReadIntent, Ownership, TokensOwned, Asked
  <2>2. tokens' \cup granted' \subseteq tokens \cup granted => TokensOwned'
    BY TokensKept DEF Ownership
  <2> QED
    BY <2>1, <2>2
    DEF Next, Start, Send, Verify, Deliver, Expire, StartSend, StartVerify, GenerateOTP,
        GenerateOTPFails, EnqueueEmail, SendSms, SendSmsFails, SaveRef, SaveIntent,
        CheckOTP, ConsumeOTP, FindRef, ProviderVerify, ConsumeRef, Abort,
        SendEmail, RecordIntent, ArchiveTask, UseToken, ExpireToken, ExpireOtp,
        ExpireIntent, ExpireRef
<1>6. \A s \in Requests : RequestOwned(s)'
  <2>0. ASSUME NEW r \in Requests, RequestOwned(r)',
               \A s \in Requests \ {r} : SameLocals(s)
        PROVE  \A s \in Requests : RequestOwned(s)'
    BY <2>0, RequestsKept
  <2>1. ASSUME NEW r \in Requests, Finish(r)
        PROVE  \A s \in Requests : RequestOwned(s)'
    BY <2>0, <2>1, IdleOwned
  <2> USE DEF At, Goto, TypeOK, LocalsOK, SameLocals
  <2>2. ASSUME NEW r \in Requests, NEW ch \in Channels, StartSend(r, ch)
        PROVE  \A s \in Requests : RequestOwned(s)'
    <3>0. PICK f \in Flows(ch) : \E key \in KeptUnder(ch, f) :
             /\ chan' = [chan EXCEPT ![r] = key]
             /\ flow' = [flow EXCEPT ![r] = [intent |-> f, to |-> ch]]
      BY <2>2 DEF StartSend
    <3>1. RequestOwned(r)'
      <4>1. PICK key \in KeptUnder(ch, f) :
               /\ chan'[r] = key /\ flow'[r] = [intent |-> f, to |-> ch]
        BY <3>0
      <4>2. /\ key \in Channels /\ Owner[key] = Owner[ch] /\ (key \in Emails => ch \in Emails)
            /\ [intent |-> f, to |-> ch] \in Asks
        BY AskFacts
      <4>3. pc'[r] = "generate" /\ flow'[r].to = ch
        BY <2>2, <4>1 DEF StartSend
      <4> QED
        BY <4>1, <4>2, <4>3 DEF RequestOwned, Sends, Trying, Accepted
    <3> QED
      BY <2>0, <2>2, <3>0, <3>1 DEF StartSend
  <2>3. ASSUME NEW r \in Requests, NEW ch \in Channels, StartVerify(r, ch)
        PROVE  \A s \in Requests : RequestOwned(s)'
    <3>1. RequestOwned(r)'
      BY <2>3 DEF StartVerify, RequestOwned, Sends, Trying, Accepted, Received
    <3> QED
      BY <2>0, <2>3, <3>1 DEF StartVerify
  <2>4. ASSUME NEW r \in Requests, GenerateOTP(r)
        PROVE  \A s \in Requests : RequestOwned(s)'
    <3>1. /\ chan[r] \in Channels /\ flow[r] \in Asks /\ Owner[flow[r].to] = Owner[chan[r]]
          /\ (chan[r] \in Emails => flow[r].to \in Emails)
      BY <2>4, Locals DEF GenerateOTP
    <3>2. RequestOwned(r)'
      BY <2>4, <3>1 DEF GenerateOTP, RequestOwned, Sends, Trying, Accepted, GhostsOK
    <3> QED
      BY <2>0, <2>4, <3>2 DEF GenerateOTP
  <2>5. ASSUME NEW r \in Requests, EnqueueEmail(r)
        PROVE  \A s \in Requests : RequestOwned(s)'
    <3>1. CASE Finish(r)
      BY <2>1, <3>1
    <3>2. CASE Goto(r, "saveIntent") /\ UNCHANGED <<chan, code, flow, held>>
      <4>1. RequestOwned(r)'
        BY <2>5, <3>2 DEF EnqueueEmail, Ownership, RequestOwned, Sends, Trying, Accepted
      <4> QED
        BY <2>0, <3>2, <4>1
    <3> QED
      BY <2>5, <3>1, <3>2 DEF EnqueueEmail
  <2>6. ASSUME NEW r \in Requests, SendSms(r)
        PROVE  \A s \in Requests : RequestOwned(s)'
    <3>1. RequestOwned(r)'
      BY <2>6 DEF SendSms, Ownership, RequestOwned, Sends, Trying, Accepted
    <3> QED
      BY <2>0, <2>6, <3>1 DEF SendSms
  <2>7. ASSUME NEW r \in Requests, SaveRef(r)
        PROVE  \A s \in Requests : RequestOwned(s)'
    <3>1. RequestOwned(r)'
      BY <2>7 DEF SaveRef, Ownership, RequestOwned, Sends, Trying, Accepted
    <3> QED
      BY <2>0, <2>7, <3>1 DEF SaveRef
  <2>8. ASSUME NEW r \in Requests, CheckOTP(r)
        PROVE  \A s \in Requests : RequestOwned(s)'
    <3>1. code[r] \in Received \cup {Wrong} /\ chan[r] \in Channels
      BY <2>8 DEF CheckOTP, Ownership, RequestOwned, Trying
    <3>2. PICK saved \in Found(otp[chan[r]]) :
            \/ /\ chan[r] \in Emails
               /\ saved = code[r]
               /\ Goto(r, "consume")
               /\ UNCHANGED <<chan, code, flow, held>>
            \/ /\ chan[r] \in Phones
               /\ Goto(r, "findRef")
               /\ UNCHANGED <<chan, code, flow, held>>
            \/ Finish(r)
      BY <2>8 DEF CheckOTP
    <3>3. UNCHANGED <<inbox, purpose>>
      BY <2>8 DEF CheckOTP
    <3>4. CASE /\ chan[r] \in Emails /\ saved = code[r]
               /\ Goto(r, "consume") /\ UNCHANGED <<chan, code, flow, held>>
      <4>1. code[r] # None
        BY <3>1, ConstantsAssumption
      <4>2. BoundTo(code[r], chan[r])
        BY <3>1, <3>2, <3>4, <4>1 DEF Found, Ownership, CacheOwned
      <4>3. code[r] \in Received
        BY <3>1, <4>2 DEF BoundTo, Wrong, Codes
      <4>4. code[r] \in inbox[Owner[chan[r]]]
        BY <3>1, <4>2, <4>3, ReachedOwner
      <4>5. RequestOwned(r)'
        BY <3>1, <3>3, <3>4, <4>2, <4>4 DEF RequestOwned, Sends, Trying, Accepted, BoundTo
      <4> QED
        BY <2>0, <3>4, <4>5
    <3>5. CASE /\ chan[r] \in Phones /\ Goto(r, "findRef")
               /\ UNCHANGED <<chan, code, flow, held>>
      <4>1. RequestOwned(r)'
        BY <3>1, <3>3, <3>5 DEF RequestOwned, Sends, Trying, Accepted, Received
      <4> QED
        BY <2>0, <3>5, <4>1
    <3>6. CASE Finish(r)
      BY <2>1, <3>6
    <3> QED
      BY <3>2, <3>4, <3>5, <3>6
  <2>9. ASSUME NEW r \in Requests, ConsumeOTP(r) \/ ConsumeRef(r)
        PROVE  \A s \in Requests : RequestOwned(s)'
    <3>1. RequestOwned(r)'
      BY <2>9 DEF ConsumeOTP, ConsumeRef, Ownership, RequestOwned, Sends, Trying, Accepted
    <3> QED
      BY <2>0, <2>9, <3>1 DEF ConsumeOTP, ConsumeRef
  <2>10. ASSUME NEW r \in Requests, FindRef(r)
         PROVE  \A s \in Requests : RequestOwned(s)'
    <3>1. chan[r] \in Phones /\ code[r] \in Received \cup {Wrong} /\ chan[r] \in Channels
      BY <2>10 DEF FindRef, Ownership, RequestOwned, Trying
    <3>2. PICK saved \in Found(ref[chan[r]]) :
            IF saved = None
              THEN Finish(r)
              ELSE /\ held' = [held EXCEPT ![r] = saved]
                   /\ Goto(r, "provider")
                   /\ UNCHANGED <<chan, code, flow>>
      BY <2>10 DEF FindRef
    <3>3. UNCHANGED <<inbox, purpose>>
      BY <2>10 DEF FindRef
    <3>4. CASE saved # None
      <4>1. BoundTo(saved, chan[r])
        BY <3>1, <3>4 DEF Found, Ownership, CacheOwned
      <4>2. RequestOwned(r)'
        BY <3>1, <3>2, <3>3, <3>4, <4>1
        DEF RequestOwned, Sends, Trying, Accepted, Received, BoundTo
      <4> QED
        BY <2>0, <3>2, <3>4, <4>2
    <3> QED
      BY <2>1, <3>2, <3>4
  <2>11. ASSUME NEW r \in Requests, ProviderVerify(r)
         PROVE  \A s \in Requests : RequestOwned(s)'
    <3>1. /\ chan[r] \in Phones /\ chan[r] \in Channels
          /\ code[r] \in Received \cup {Wrong}
          /\ BoundTo(held[r], chan[r])
      BY <2>11 DEF ProviderVerify, Ownership, RequestOwned, Trying
    <3>2. CASE /\ held[r] = code[r] /\ Goto(r, "consumeRef")
               /\ UNCHANGED <<chan, code, flow, held, inbox, purpose>>
      <4>1. code[r] \in Received
        BY <3>1, <3>2 DEF BoundTo, Wrong, Codes
      <4>2. code[r] \in inbox[Owner[chan[r]]]
        BY <3>1, <3>2, <4>1, ReachedOwner
      <4>3. RequestOwned(r)'
        BY <3>1, <3>2, <4>2 DEF RequestOwned, Sends, Trying, Accepted, BoundTo
      <4> QED
        BY <2>0, <3>2, <4>3
    <3> QED
      BY <2>1, <2>11, <3>2 DEF ProviderVerify
  <2>12. ASSUME UNCHANGED reqVars
         PROVE  \A s \in Requests : RequestOwned(s)'
    BY <2>12, RequestKept DEF Ownership
  <2> QED
    BY <2>1, <2>2, <2>3, <2>4, <2>5, <2>6, <2>7, <2>8, <2>9, <2>10, <2>11, <2>12
    DEF Next, Start, Send, Verify, Deliver, Expire, GenerateOTPFails, SendSmsFails,
        SaveIntent, ReadIntent, Abort, SendEmail, RecordIntent, ArchiveTask, UseToken,
        ExpireToken, ExpireOtp, ExpireIntent, ExpireRef
<1> QED
  BY <1>1, <1>2, <1>3, <1>4, <1>5, <1>6 DEF Ownership

(***************************************************************************)
(* Spent codes.                                                            *)
(***************************************************************************)
Holds(s) == pc[s] \in {"provider", "consumeRef"}

LEMMA NoneIsNoCode ==
  ASSUME TypeOK
  PROVE  None \notin consumed /\ None \notin Codes
<1>1. None \notin Nat
  BY ConstantsAssumption
<1>2. Codes \subseteq Nat
  BY ConstantsAssumption DEF Codes
<1> QED
  BY <1>1, <1>2 DEF TypeOK, GhostsOK

LEMMA SpentKept ==
  ASSUME TypeOK, SpentCodes, Grows, UNCHANGED consumed,
         \A ch \in Emails : otp'[ch] \in {otp[ch], None},
         \A ch \in Phones : ref'[ch] \in {ref[ch], None},
         \A s \in Requests : SameLocals(s) \/ ~(Holds(s)' \/ Unsaved(s)')
  PROVE  SpentCodes'
<1>1. ConsumedKnown'
  BY DEF SpentCodes, ConsumedKnown, Grows, TypeOK, GhostsOK
<1>2. ConsumedGone'
  BY NoneIsNoCode DEF SpentCodes, ConsumedGone
<1>3. PinConfirmed'
  BY DEF SpentCodes, PinConfirmed, SameLocals, Holds, At
<1>4. ASSUME NEW r \in Requests, Unsaved(r)' PROVE PinFresh(r)'
  <2>1. SameLocals(r) /\ Unsaved(r) /\ PinFresh(r)
    BY <1>4 DEF SameLocals, Unsaved, SpentCodes
  <2>2. code[r] \in Codes \/ code[r] # None
    BY ConstantsAssumption DEF TypeOK, LocalsOK, Codes
  <2>3. \A ch \in Phones : ref'[ch] # code[r]
    BY <2>1, <2>2, NoneIsNoCode DEF PinFresh
  <2>4. ASSUME NEW s \in Requests
        PROVE  /\ Holds(s)' => held'[s] # code[r]
               /\ Unsaved(s)' /\ s # r => code'[s] # code[r]
    BY <2>1 DEF PinFresh, SameLocals, Holds, Unsaved
  <2> QED
    BY <2>1, <2>3, <2>4 DEF PinFresh, SameLocals, Holds
<1> QED
  BY <1>1, <1>2, <1>3, <1>4 DEF SpentCodes, PinFresh

\* A verification spends a code of its own channel: no other channel holds it.
LEMMA SpendOne ==
  ASSUME TypeOK, Ownership, SpentCodes, NEW r \in Requests, BoundTo(code[r], chan[r]),
         Accepted(r), Goto(r, "readIntent"), UNCHANGED <<chan, code, flow, held, purpose>>,
         \/ UNCHANGED consumed
         \/ /\ consumed' = consumed \cup {code[r]}
            /\ IF chan[r] \in Emails THEN otp'[chan[r]] = None ELSE ref'[chan[r]] = None,
         \A ch \in Emails : otp'[ch] \in {otp[ch], None},
         \A ch \in Phones : ref'[ch] \in {ref[ch], None},
         \A s \in Requests : Unsaved(s) => code[s] # code[r]
  PROVE  SpentCodes'
<1>1. ConsumedKnown'
  BY DEF SpentCodes, ConsumedKnown, BoundTo
<1>2. ConsumedGone'
  <2>1. ASSUME NEW ch \in Emails PROVE otp'[ch] \notin consumed'
    BY <2>1, NoneIsNoCode DEF SpentCodes, ConsumedGone, Ownership, CacheOwned, BoundTo, Channels
  <2>2. ASSUME NEW ch \in Phones PROVE ref'[ch] \notin consumed'
    BY <2>2, NoneIsNoCode, ConstantsAssumption
    DEF SpentCodes, ConsumedGone, Ownership, CacheOwned, BoundTo, Channels
  <2> QED
    BY <2>1, <2>2 DEF ConsumedGone
<1>3. PinConfirmed'
  BY DEF SpentCodes, PinConfirmed, Goto, At, TypeOK, LocalsOK
<1>4. ASSUME NEW s \in Requests PROVE PinFresh(s)'
  <2>1. \A u \in Requests : (Unsaved(u)' => Unsaved(u)) /\ (Holds(u)' => Holds(u))
    BY DEF Unsaved, Holds, Goto, TypeOK, LocalsOK
  <2>2. Unsaved(s)' => \A ch \in Phones : ref'[ch] # code[s]
    BY <2>1, NoneIsNoCode, ConstantsAssumption
    DEF SpentCodes, PinFresh, TypeOK, LocalsOK
  <2> QED
    BY <2>1, <2>2 DEF SpentCodes, PinFresh, Holds
<1> QED
  BY <1>1, <1>2, <1>3, <1>4 DEF SpentCodes

LEMMA SpentStep == IInv /\ [Next]_vars => SpentCodes'
<1> SUFFICES ASSUME TypeOK, TypeOK', Ownership, SpentCodes, [Next]_vars PROVE SpentCodes'
  BY TypeStep DEF IInv
<1>0. CASE UNCHANGED vars
  BY <1>0 DEF vars, cacheVars, reqVars, ghostVars, mailVars, SpentCodes, ConsumedKnown,
     ConsumedGone, PinConfirmed, PinFresh, Unsaved, At
<1> SUFFICES ASSUME Next PROVE SpentCodes'
  BY <1>0
<1> Grows
  BY StepGrows
<1> USE DEF cacheVars, reqVars, ghostVars, mailVars, mailVars
<1>1. ASSUME UNCHANGED consumed,
             \A ch \in Emails : otp'[ch] \in {otp[ch], None},
             \A ch \in Phones : ref'[ch] \in {ref[ch], None},
             NEW r \in Requests, \A s \in Requests \ {r} : SameLocals(s),
             ~(Holds(r)' \/ Unsaved(r)')
      PROVE  SpentCodes'
  BY <1>1, SpentKept
<1>2. ASSUME UNCHANGED consumed,
             \A ch \in Emails : otp'[ch] \in {otp[ch], None},
             \A ch \in Phones : ref'[ch] \in {ref[ch], None},
             NEW r \in Requests, Finish(r)
      PROVE  SpentCodes'
  BY <1>1, <1>2, IdleOwned DEF Finish, Holds, Unsaved, TypeOK, LocalsOK
<1> USE DEF At, Goto
<1>3. ASSUME NEW r \in Requests, NEW ch \in Channels,
             StartSend(r, ch) \/ StartVerify(r, ch)
      PROVE  SpentCodes'
  BY <1>1, <1>3 DEF StartSend, StartVerify, SameLocals, Holds, Unsaved, TypeOK, LocalsOK
<1>4. ASSUME NEW r \in Requests, EnqueueEmail(r) PROVE SpentCodes'
  BY <1>1, <1>2, <1>4 DEF EnqueueEmail, SameLocals, Holds, Unsaved, TypeOK, LocalsOK
<1>5. ASSUME NEW r \in Requests, GenerateOTPFails(r) \/ SendSmsFails(r) \/ SaveIntent(r)
                                  \/ ReadIntent(r) \/ Abort(r)
      PROVE  SpentCodes'
  BY <1>2, <1>5 DEF GenerateOTPFails, SendSmsFails, SaveIntent, ReadIntent, Abort
<1>6. ASSUME NEW r \in Requests, CheckOTP(r) PROVE SpentCodes'
  <2>1. Finish(r) \/ ((Goto(r, "consume") \/ Goto(r, "findRef"))
                       /\ UNCHANGED <<chan, code, flow, held>>)
    BY <1>6 DEF CheckOTP
  <2> QED
    BY <1>1, <1>2, <1>6, <2>1 DEF CheckOTP, SameLocals, Holds, Unsaved, TypeOK, LocalsOK
<1>7. ASSUME UNCHANGED consumed, UNCHANGED reqVars,
             \A ch \in Emails : otp'[ch] \in {otp[ch], None},
             \A ch \in Phones : ref'[ch] \in {ref[ch], None}
      PROVE  SpentCodes'
  BY <1>7, SpentKept DEF SameLocals
<1>8. ASSUME NEW ch \in Channels, ExpireOtp(ch) \/ ExpireIntent(ch) PROVE SpentCodes'
  BY <1>7, <1>8 DEF ExpireOtp, ExpireIntent, TypeOK, CacheOK, Channels
<1>9. ASSUME NEW ch \in Phones, ExpireRef(ch) PROVE SpentCodes'
  BY <1>7, <1>9 DEF ExpireRef, TypeOK, CacheOK
<1>10. ASSUME NEW r \in Requests, GenerateOTP(r) PROVE SpentCodes'
  <2>1. next \in Codes /\ purpose[next] = None /\ next # None
    BY <1>10, ConstantsAssumption DEF GenerateOTP, Ownership, CodesFresh, Codes
  <2>2. next \notin consumed
    BY <2>1 DEF SpentCodes, ConsumedKnown
  <2>3. \A ch \in Phones : ref[ch] # next
    BY <2>1 DEF Ownership, CacheOwned, BoundTo
  <2>4. \A s \in Requests : Holds(s) => held[s] # next
    BY <2>1 DEF Ownership, RequestOwned, BoundTo, Holds
  <2>5. ASSUME NEW s \in Requests, Unsaved(s) PROVE code[s] # next
    <3>1. purpose[code[s]] = [ch |-> chan[s], intent |-> flow[s].intent]
      BY <2>5 DEF Ownership, RequestOwned, Unsaved, Sends
    <3>2. chan[s] \in Channels /\ flow[s].intent \in Intents
      BY <2>5, Locals DEF Unsaved, Sends
    <3> QED
      BY <2>1, <3>1, <3>2, PurposeIsSome
  <2>6. ConsumedKnown'
    BY <1>10 DEF GenerateOTP, SpentCodes, ConsumedKnown, Grows, TypeOK, GhostsOK
  <2>7. ConsumedGone'
    BY <1>10, <2>2 DEF GenerateOTP, SpentCodes, ConsumedGone, TypeOK, CacheOK, Channels
  <2>8. PinConfirmed'
    BY <1>10 DEF GenerateOTP, SpentCodes, PinConfirmed, TypeOK, LocalsOK
  <2>9. ASSUME NEW s \in Requests PROVE PinFresh(s)'
    <3>1. /\ UNCHANGED <<consumed, ref, held, chan>>
          /\ \A u \in Requests : Holds(u)' => Holds(u)
          /\ \A u \in Requests \ {r} : pc'[u] = pc[u] /\ code'[u] = code[u]
          /\ code'[r] = next
      BY <1>10 DEF GenerateOTP, Holds, TypeOK, LocalsOK
    <3>2. CASE s = r
      BY <2>2, <2>3, <2>4, <2>5, <3>1, <3>2 DEF PinFresh, Holds, Unsaved
    <3>3. CASE s # r
      BY <2>5, <3>1, <3>3 DEF SpentCodes, PinFresh, Holds, Unsaved
    <3> QED
      BY <3>2, <3>3
  <2> QED
    BY <2>6, <2>7, <2>8, <2>9 DEF SpentCodes
<1>11. ASSUME NEW r \in Requests, SendSms(r) PROVE SpentCodes'
  <2>1. /\ UNCHANGED <<consumed, otp, ref, held, chan, code, purpose>>
        /\ \A u \in Requests : Holds(u)' => Holds(u)
        /\ \A u \in Requests : At(u, "consumeRef")' => At(u, "consumeRef")
        /\ \A u \in Requests : Unsaved(u)' => Unsaved(u)
    BY <1>11 DEF SendSms, Holds, Unsaved, TypeOK, LocalsOK
  <2> QED
    BY <2>1 DEF SpentCodes, ConsumedKnown, ConsumedGone, PinConfirmed, PinFresh, Holds
<1>12. ASSUME NEW r \in Requests, SaveRef(r) PROVE SpentCodes'
  <2>1. Unsaved(r)
    BY <1>12 DEF SaveRef, Ownership, RequestOwned, Unsaved
  <2>2. /\ UNCHANGED <<consumed, otp, held, chan, code, purpose>>
        /\ \A ch \in Phones : ref'[ch] \in {ref[ch], code[r]}
        /\ \A u \in Requests : Holds(u)' => Holds(u)
        /\ \A u \in Requests : At(u, "consumeRef")' => At(u, "consumeRef")
        /\ \A u \in Requests : Unsaved(u)' => Unsaved(u) /\ u # r
    BY <1>12 DEF SaveRef, Written, Holds, Unsaved, TypeOK, LocalsOK, CacheOK
  <2> QED
    BY <2>1, <2>2 DEF SpentCodes, ConsumedKnown, ConsumedGone, PinConfirmed, PinFresh, Holds
<1>13. ASSUME NEW r \in Requests, ConsumeOTP(r) PROVE SpentCodes'
  <2>1. /\ chan[r] \in Emails /\ chan[r] \in Channels
        /\ Accepted(r)
    BY <1>13 DEF ConsumeOTP, Ownership, RequestOwned, Accepted, Channels
  <2>2. BoundTo(code[r], chan[r])
    BY <1>13 DEF ConsumeOTP, Ownership, RequestOwned
  <2>3. ASSUME NEW s \in Requests, Unsaved(s) PROVE code[s] # code[r]
    <3>1. purpose[code[s]] = [ch |-> chan[s], intent |-> flow[s].intent]
      BY <2>3 DEF Ownership, RequestOwned, Unsaved, Sends
    <3> QED
      BY <2>1, <2>2, <2>3, <3>1, ConstantsAssumption DEF BoundTo, Unsaved
  <2>4. \A ch \in Emails : otp'[ch] \in {otp[ch], None}
    BY <1>13 DEF ConsumeOTP, Written, TypeOK, CacheOK, Channels
  <2>5. \/ UNCHANGED consumed
        \/ consumed' = consumed \cup {code[r]} /\ otp'[chan[r]] = None
    BY <1>13 DEF ConsumeOTP
  <2> QED
    BY <1>13, <2>1, <2>2, <2>3, <2>4, <2>5, SpendOne DEF ConsumeOTP
<1>14. ASSUME NEW r \in Requests, ConsumeRef(r) PROVE SpentCodes'
  <2>1. /\ chan[r] \in Phones /\ chan[r] \notin Emails /\ Accepted(r)
        /\ BoundTo(held[r], chan[r])
    BY <1>14, ConstantsAssumption DEF ConsumeRef, Ownership, RequestOwned, Accepted
  <2>2. held[r] = code[r]
    BY <1>14 DEF ConsumeRef, SpentCodes, PinConfirmed
  <2>3. \A s \in Requests : Unsaved(s) => code[s] # code[r]
    BY <1>14, <2>2 DEF ConsumeRef, SpentCodes, PinFresh
  <2>4. \A ch \in Phones : ref'[ch] \in {ref[ch], None}
    BY <1>14 DEF ConsumeRef, Written, TypeOK, CacheOK
  <2>5. \/ UNCHANGED consumed
        \/ consumed' = consumed \cup {code[r]} /\ ref'[chan[r]] = None
    BY <1>14 DEF ConsumeRef
  <2> QED
    BY <1>14, <2>1, <2>2, <2>3, <2>4, <2>5, SpendOne DEF ConsumeRef
<1>15. ASSUME NEW r \in Requests, FindRef(r) PROVE SpentCodes'
  <2>1. chan[r] \in Phones
    BY <1>15, Locals DEF FindRef
  <2>2. PICK saved \in Found(ref[chan[r]]) :
          IF saved = None
            THEN Finish(r)
            ELSE /\ held' = [held EXCEPT ![r] = saved]
                 /\ Goto(r, "provider")
                 /\ UNCHANGED <<chan, code, flow>>
    BY <1>15 DEF FindRef
  <2>3. CASE saved = None
    BY <1>2, <1>15, <2>2, <2>3 DEF FindRef
  <2>4. CASE saved # None
    <3>1. saved = ref[chan[r]]
      BY <2>4 DEF Found
    <3>2. /\ UNCHANGED <<consumed, otp, ref, chan, code, purpose>>
          /\ \A u \in Requests : Holds(u)' => \/ Holds(u) /\ held'[u] = held[u]
                                              \/ held'[u] = saved
          /\ \A u \in Requests : At(u, "consumeRef")' => /\ At(u, "consumeRef")
                                                         /\ held'[u] = held[u]
          /\ \A u \in Requests : Unsaved(u)' => Unsaved(u)
      BY <1>15, <2>2, <2>4 DEF FindRef, Holds, Unsaved, TypeOK, LocalsOK
    <3> QED
      BY <2>1, <3>1, <3>2 DEF SpentCodes, ConsumedKnown, ConsumedGone, PinConfirmed, PinFresh, Holds
  <2> QED
    BY <2>3, <2>4
<1>16. ASSUME NEW r \in Requests, ProviderVerify(r) PROVE SpentCodes'
  <2>1. CASE Finish(r)
    BY <1>2, <1>16, <2>1 DEF ProviderVerify
  <2>2. CASE /\ held[r] = code[r] /\ Goto(r, "consumeRef")
             /\ UNCHANGED <<chan, code, flow, held>>
    <3>1. /\ UNCHANGED <<consumed, otp, ref, chan, code, held, purpose>>
          /\ \A u \in Requests : Holds(u)' => Holds(u)
          /\ \A u \in Requests : At(u, "consumeRef")' => At(u, "consumeRef") \/ u = r
          /\ \A u \in Requests : Unsaved(u)' => Unsaved(u)
      BY <1>16, <2>2 DEF ProviderVerify, Holds, Unsaved, TypeOK, LocalsOK
    <3> QED
      BY <2>2, <3>1 DEF SpentCodes, ConsumedKnown, ConsumedGone, PinConfirmed, PinFresh, Holds
  <2> QED
    BY <1>16, <2>1, <2>2 DEF ProviderVerify
<1> QED
  BY <1>3, <1>4, <1>5, <1>6, <1>7, <1>8, <1>9, <1>10, <1>11, <1>12, <1>13, <1>14,
     <1>15, <1>16
  DEF Next, Start, Send, Verify, Deliver, Expire, SendEmail, RecordIntent, ArchiveTask,
      UseToken, ExpireToken

(***************************************************************************)
(* The inductive invariant, and what follows from it.                      *)
(***************************************************************************)
LEMMA InitIInv == Init => IInv
<1> SUFFICES ASSUME Init PROVE IInv
  OBVIOUS
<1>1. TypeOK
  BY ConstantsAssumption
  DEF Init, TypeOK, CacheOK, WorldOK, LocalsOK, GhostsOK, PCs
<1>2. Ownership
  BY DEF Init, Ownership, CodesFresh, CacheOwned, QueueOwned, InboxOwned, TokensOwned,
     RequestOwned, At, Sends, Trying, Accepted
<1>3. SpentCodes
  BY DEF Init, SpentCodes, ConsumedKnown, ConsumedGone, PinConfirmed, PinFresh, Unsaved, At
<1> QED
  BY <1>1, <1>2, <1>3 DEF IInv

LEMMA Invariance == Spec => []IInv
<1>1. IInv /\ [Next]_vars => IInv'
  BY TypeStep, OwnershipStep, SpentStep DEF IInv
<1> QED
  BY <1>1, InitIInv, PTL DEF Spec

\* Every variable of the code flows keeps its type, at any number of channels,
\* concurrent requests and generated codes.
THEOREM TypeCorrect == Spec => []TypeOK
<1>1. IInv => TypeOK
  BY DEF IInv
<1> QED
  BY <1>1, Invariance, PTL

\* Whatever flows, verifications, expiries and Redis failures overlap, a token
\* of VerifyOTP is backed by a code that was delivered to the owner of the token's
\* channel, in whatever spelling it was kept and mailed, and its intent was asked for
\* by some flow of that owner.
THEOREM Provenance == Spec => []TokenProvenance
<1>1. IInv => TokenProvenance
  BY DEF IInv, Ownership, TokensOwned, Asked, TokenProvenance
<1> QED
  BY <1>1, Invariance, PTL

\* Only the comparison leads from "check" to "consume", only the look-up from
\* "findRef" to "provider".
LEMMA AcceptingStep ==
  ASSUME TypeOK, Next, NEW r \in Requests
  PROVE  /\ At(r, "check") /\ pc'[r] = "consume" => CheckOTP(r)
         /\ At(r, "findRef") /\ pc'[r] = "provider" => FindRef(r)
<1> DEFINE Accepts == \/ At(r, "check") /\ pc'[r] = "consume"
                      \/ At(r, "findRef") /\ pc'[r] = "provider"
<1>1. ASSUME NEW q \in Requests, q # r, \E there \in PCs : Goto(q, there) PROVE ~Accepts
  BY <1>1 DEF Goto, At, TypeOK, LocalsOK
<1>2. ASSUME NEW q \in Requests, Finish(q) PROVE ~Accepts
  BY <1>2 DEF Finish, At, TypeOK, LocalsOK
<1>3. UNCHANGED pc => ~Accepts
  BY DEF At
<1>4. ASSUME NEW q \in Requests, Send(q) PROVE ~Accepts
  BY <1>1, <1>2, <1>4
  DEF Send, GenerateOTP, GenerateOTPFails, EnqueueEmail, SendSms, SendSmsFails, SaveRef,
      SaveIntent, At, PCs
<1>5. ASSUME NEW q \in Requests, Start(q) PROVE ~Accepts
  BY <1>1, <1>5 DEF Start, StartSend, StartVerify, At, PCs
<1>6. ASSUME NEW q \in Requests, ConsumeOTP(q) \/ ProviderVerify(q) \/ ConsumeRef(q)
                                 \/ ReadIntent(q) \/ Abort(q)
      PROVE  ~Accepts
  BY <1>1, <1>2, <1>6 DEF ConsumeOTP, ProviderVerify, ConsumeRef, ReadIntent, Abort, At, PCs
<1>7. ASSUME NEW q \in Requests, q # r, CheckOTP(q) \/ FindRef(q) PROVE ~Accepts
  BY <1>1, <1>2, <1>7 DEF CheckOTP, FindRef, PCs
<1>8. Deliver \/ Expire \/ (\E t \in queue : ArchiveTask(t)) \/ (\E t \in tokens : UseToken(t))
        => ~Accepts
  BY <1>3 DEF Deliver, Expire, SendEmail, RecordIntent, ArchiveTask, UseToken, ExpireOtp,
     ExpireIntent, ExpireRef, ExpireToken, reqVars
<1>9. Accepts => CheckOTP(r) \/ FindRef(r)
  BY <1>4, <1>5, <1>6, <1>7, <1>8 DEF Next, Verify
<1> QED
  BY <1>9 DEF CheckOTP, FindRef, At

\* Once VerifyOTP has deleted a code, or the reference of a pin, no later read
\* accepts it, although reading and deleting are two calls.
THEOREM ConsumedStaysConsumed == Spec => ConsumedNotAccepted
<1>1. IInv /\ [Next]_vars =>
        [\A r \in Requests :
           /\ At(r, "check") /\ pc'[r] = "consume" => code[r] \notin consumed
           /\ At(r, "findRef") /\ pc'[r] = "provider" => held'[r] \notin consumed]_vars
  <2> SUFFICES ASSUME TypeOK, Ownership, SpentCodes, Next, NEW r \in Requests
               PROVE  /\ At(r, "check") /\ pc'[r] = "consume" => code[r] \notin consumed
                      /\ At(r, "findRef") /\ pc'[r] = "provider" => held'[r] \notin consumed
    BY DEF IInv
  <2>1. ASSUME CheckOTP(r), pc'[r] = "consume" PROVE code[r] \notin consumed
    <3>1. chan[r] \in Emails /\ code[r] \in {otp[chan[r]], None}
      BY <2>1 DEF CheckOTP, Goto, Finish, Found, TypeOK, LocalsOK
    <3> QED
      BY <3>1, NoneIsNoCode DEF SpentCodes, ConsumedGone
  <2>2. ASSUME FindRef(r), pc'[r] = "provider" PROVE held'[r] \notin consumed
    <3>1. chan[r] \in Phones
      BY <2>2, Locals DEF FindRef, At
    <3>2. held'[r] \in {ref[chan[r]], None}
      BY <2>2 DEF FindRef, Goto, Finish, Found, TypeOK, LocalsOK
    <3> QED
      BY <3>1, <3>2, NoneIsNoCode DEF SpentCodes, ConsumedGone
  <2> QED
    BY <2>1, <2>2, AcceptingStep
<1> QED
  BY <1>1, Invariance, PTL DEF Spec, ConsumedNotAccepted

(***************************************************************************)
(* OtpChannel implements OtpPromise.                                       *)
(***************************************************************************)
\* What an action of a request does to the attempts, when it does no more than
\* end one: nothing, or it closes the attempt.
LEMMA AtMostCloses ==
  ASSUME NEW r \in Requests,
         UNCHANGED <<purpose, inbox, consumed, tokens, granted>>,
         \A q \in Requests : q # r => Opened(q)' = Opened(q),
         Opened(r)' \in {None, Opened(r)}
  PROVE  [Promise!Next]_(Promise!vars)
<1>1. CASE Opened(r)' = Opened(r)
  BY <1>1 DEF Promise!vars
<1>2. CASE Opened(r)' = None
  <2>1. Promise!Close(r)
    BY <1>2 DEF Promise!Close
  <2> QED
    BY <2>1 DEF Promise!Next
<1> QED
  BY <1>1, <1>2

\* Attempts of other requests do not move.
LEMMA OthersOpened ==
  ASSUME LocalsOK, NEW r \in Requests,
         \/ Finish(r)
         \/ /\ \E there \in PCs : Goto(r, there)
            /\ \A q \in Requests : q # r => code'[q] = code[q] /\ held'[q] = held[q]
  PROVE  \A q \in Requests : q # r => Opened(q)' = Opened(q)
BY DEF LocalsOK, Finish, Goto, Opened

LEMMA FinishCloses ==
  ASSUME LocalsOK, NEW r \in Requests, Finish(r)
  PROVE  Opened(r)' = None
BY DEF LocalsOK, Finish, Opened

\* The first steps of sending: a code is asked for, and reaches its channel.
LEMMA SendPromised ==
  ASSUME IInv, NEW r \in Requests, Send(r)
  PROVE  [Promise!Next]_(Promise!vars)
<1> USE DEF IInv, TypeOK, cacheVars, ghostVars, mailVars, reqVars
<1>1. CASE GenerateOTP(r)
  <2>1. Promise!Ask(next, chan[r], flow[r].intent)
    BY <1>1 DEF GenerateOTP, Ownership, CodesFresh, WorldOK, LocalsOK, Promise!Ask, At, Goto, Opened
  <2>2. chan[r] \in Channels /\ flow[r].intent \in Intents /\ next \in Codes
    BY <1>1, Locals DEF GenerateOTP, At
  <2> QED
    BY <2>1, <2>2 DEF Promise!Next
<1>2. ASSUME SendSms(r) \/ SendSmsFails(r) PROVE [Promise!Next]_(Promise!vars)
  <2>1. code[r] \in Codes /\ purpose[code[r]] = [ch |-> chan[r], intent |-> flow[r].intent]
    BY <1>2 DEF SendSms, SendSmsFails, Ownership, RequestOwned, Sends, At
  <2>2. chan[r] \in Channels /\ Owner[chan[r]] = chan[r]
    BY <1>2, OwnerFacts DEF SendSms, SendSmsFails, Channels
  <2>3. purpose[code[r]] # None
    BY <2>1, <2>2, PurposeIsSome, Locals, <1>2 DEF SendSms, SendSmsFails, At, Sends
  <2>4. \A q \in Requests : Opened(q)' = Opened(q)
    BY <1>2 DEF SendSms, SendSmsFails, At, Goto, Finish, LocalsOK, Opened
  <2>5. CASE inbox' = inbox
    BY <1>2, <2>4, <2>5 DEF SendSms, SendSmsFails, Promise!vars
  <2>6. CASE inbox' = [inbox EXCEPT ![chan[r]] = @ \cup {code[r]}]
    <3>0. /\ Owner[purpose[code[r]].ch] = chan[r]
          /\ UNCHANGED <<purpose, consumed, tokens, granted>>
      BY <1>2, <2>1, <2>2 DEF SendSms, SendSmsFails
    <3>1. Promise!Deliver(code[r])
      BY <2>3, <2>4, <2>6, <3>0 DEF Promise!Deliver
    <3> QED
      BY <2>1, <3>1 DEF Promise!Next
  <2> QED
    BY <1>2, <2>5, <2>6 DEF SendSms, SendSmsFails
<1>3. ASSUME GenerateOTPFails(r) \/ EnqueueEmail(r) \/ SaveRef(r) \/ SaveIntent(r)
      PROVE  [Promise!Next]_(Promise!vars)
  <2>1. UNCHANGED <<purpose, inbox, consumed, tokens, granted>>
    BY <1>3 DEF GenerateOTPFails, EnqueueEmail, SaveRef, SaveIntent
  <2>2. \A q \in Requests : Opened(q)' = Opened(q)
    BY <1>3 DEF GenerateOTPFails, EnqueueEmail, SaveRef, SaveIntent, At, Goto, Finish, LocalsOK, Opened
  <2> QED
    BY <2>1, <2>2 DEF Promise!vars
<1> QED
  BY <1>1, <1>2, <1>3 DEF Send

\* Verifying: an attempt opens on a code that is not spent, and closes.
LEMMA VerifyPromised ==
  ASSUME IInv, NEW r \in Requests, Verify(r)
  PROVE  [Promise!Next]_(Promise!vars)
<1> USE DEF IInv, TypeOK, cacheVars, ghostVars, mailVars, reqVars
<1>1. ASSUME NEW c \in Codes, Opened(r) = None, Opened(r)' = c,
             \A q \in Requests : q # r => Opened(q)' = Opened(q),
             purpose[c] # None, c \notin consumed,
             UNCHANGED <<purpose, inbox, consumed, tokens, granted>>
      PROVE  [Promise!Next]_(Promise!vars)
  <2>1. Promise!Open(r, c)
    BY <1>1 DEF Promise!Open
  <2> QED
    BY <2>1 DEF Promise!Next
<1>2. CASE CheckOTP(r)
  <2>1. /\ UNCHANGED <<purpose, inbox, consumed, tokens, granted>>
        /\ \A q \in Requests : q # r => Opened(q)' = Opened(q)
        /\ Opened(r) = None
    BY <1>2, OthersOpened DEF CheckOTP, At, PCs, Opened
  <2>2. CASE Opened(r)' = None
    BY <2>1, <2>2, AtMostCloses
  <2>3. CASE Opened(r)' # None
    <3>1. /\ chan[r] \in Emails /\ code[r] \in {otp[chan[r]], None}
          /\ Opened(r)' = code[r]
      BY <1>2, <2>3, FinishCloses DEF CheckOTP, At, Goto, Found, LocalsOK, Opened
    <3>2. code[r] # None
      BY ConstantsAssumption DEF LocalsOK
    <3>3. BoundTo(code[r], chan[r]) /\ code[r] \notin consumed
      BY <3>1, <3>2 DEF Ownership, CacheOwned, SpentCodes, ConsumedGone, Channels
    <3> QED
      BY <1>1, <2>1, <3>1, <3>3 DEF BoundTo
  <2> QED
    BY <2>2, <2>3
<1>3. CASE FindRef(r)
  <2>1. /\ UNCHANGED <<purpose, inbox, consumed, tokens, granted>>
        /\ Opened(r) = None
    BY <1>3 DEF FindRef, At, Opened
  <2>2. \A q \in Requests : q # r => Opened(q)' = Opened(q)
    BY <1>3, OthersOpened DEF FindRef, PCs, LocalsOK
  <2>3. CASE Opened(r)' = None
    BY <2>1, <2>2, <2>3, AtMostCloses
  <2>4. CASE Opened(r)' # None
    <3>1. /\ chan[r] \in Phones /\ ref[chan[r]] # None
          /\ Opened(r)' = ref[chan[r]]
      BY <1>3, <2>4, FinishCloses, Locals DEF FindRef, At, Goto, Found, LocalsOK, Opened
    <3>2. BoundTo(ref[chan[r]], chan[r]) /\ ref[chan[r]] \notin consumed
      BY <3>1 DEF Ownership, CacheOwned, SpentCodes, ConsumedGone
    <3> QED
      BY <1>1, <2>1, <2>2, <3>1, <3>2 DEF BoundTo
  <2> QED
    BY <2>3, <2>4
<1>4. CASE ProviderVerify(r)
  <2>1. \A q \in Requests : q # r => Opened(q)' = Opened(q)
    BY <1>4, OthersOpened DEF ProviderVerify, PCs, LocalsOK
  <2>2. Opened(r)' \in {None, Opened(r)}
    BY <1>4, FinishCloses DEF ProviderVerify, At, Goto, LocalsOK, Opened
  <2> QED
    BY <1>4, <2>1, <2>2, AtMostCloses DEF ProviderVerify
<1>5. ASSUME ConsumeOTP(r) \/ ConsumeRef(r) PROVE [Promise!Next]_(Promise!vars)
  <2>1. \A q \in Requests : Opened(q)' = Opened(q)
    BY <1>5 DEF ConsumeOTP, ConsumeRef, At, Goto, LocalsOK, Opened, SpentCodes, PinConfirmed
  <2>2. Opened(r) = code[r] /\ code[r] # None
    BY <1>5, ConstantsAssumption DEF ConsumeOTP, ConsumeRef, At, LocalsOK, Opened, SpentCodes, PinConfirmed
  <2>3. CASE consumed' = consumed
    BY <1>5, <2>1, <2>3 DEF ConsumeOTP, ConsumeRef, Promise!vars
  <2>4. CASE consumed' = consumed \cup {code[r]}
    <3>1. Promise!Spend(r)
      BY <1>5, <2>1, <2>2, <2>4 DEF ConsumeOTP, ConsumeRef, Promise!Spend
    <3> QED
      BY <3>1 DEF Promise!Next
  <2> QED
    BY <1>5, <2>3, <2>4 DEF ConsumeOTP, ConsumeRef
<1>6. CASE ReadIntent(r)
  <2>1. /\ UNCHANGED <<purpose, inbox, consumed, granted>>
        /\ \A q \in Requests : q # r => Opened(q)' = Opened(q)
        /\ Opened(r)' = None
    BY <1>6, OthersOpened, FinishCloses DEF ReadIntent
  <2>2. CASE tokens' = tokens
    BY <2>1, <2>2, AtMostCloses
  <2>3. CASE tokens' # tokens
    <3>1. PICK want \in Found(intent[chan[r]]) :
            /\ want # None
            /\ tokens' = tokens \cup {[ch |-> chan[r], intent |-> want, code |-> code[r]]}
      BY <1>6, <2>3 DEF ReadIntent
    <3>2. /\ Accepted(r) /\ chan[r] \in Channels /\ code[r] \in inbox[Owner[chan[r]]]
          /\ code[r] \in Codes
      BY <1>6, Locals DEF ReadIntent, At, Accepted, Ownership, RequestOwned
    <3>3. want \in Intents /\ Asked(chan[r], want)
      BY <3>1, <3>2 DEF Found, Ownership, CacheOwned, CacheOK
    <3>4. Opened(r) = code[r] /\ code[r] # None
      BY <1>6, ConstantsAssumption DEF ReadIntent, At, LocalsOK, Opened
    <3>5. Promise!Mint(r, chan[r], want)
      BY <2>1, <3>1, <3>2, <3>3, <3>4 DEF Promise!Mint, Asked
    <3> QED
      BY <3>2, <3>3, <3>5 DEF Promise!Next
  <2> QED
    BY <2>2, <2>3
<1> QED
  BY <1>2, <1>3, <1>4, <1>5, <1>6 DEF Verify

\* The workers, the routes behind the middleware, and time.
LEMMA WorldPromised ==
  ASSUME IInv,
         \/ Deliver \/ Expire
         \/ \E t \in queue : ArchiveTask(t)
         \/ \E t \in tokens : UseToken(t)
  PROVE  [Promise!Next]_(Promise!vars)
<1> USE DEF IInv, TypeOK, cacheVars, ghostVars, mailVars, reqVars
<1>1. \A q \in Requests : Opened(q)' = Opened(q)
  BY DEF Deliver, Expire, SendEmail, RecordIntent, ArchiveTask, UseToken, ExpireOtp,
     ExpireRef, ExpireIntent, ExpireToken, Opened
<1>2. ASSUME NEW t \in queue, SendEmail(t) PROVE [Promise!Next]_(Promise!vars)
  <2>1. t.code \in Codes
    BY DEF WorldOK, Tasks
  <2>2. purpose[t.code] # None /\ Owner[purpose[t.code].ch] = Owner[t.to]
    BY DEF Ownership, QueueOwned, Meant
  <2>3. Promise!Deliver(t.code)
    BY <1>1, <1>2, <2>2 DEF SendEmail, Promise!Deliver
  <2> QED
    BY <2>1, <2>3 DEF Promise!Next
<1>3. ASSUME NEW t \in tokens, UseToken(t) PROVE [Promise!Next]_(Promise!vars)
  <2>1. Promise!Grant(t)
    BY <1>1, <1>3 DEF UseToken, Promise!Grant
  <2> QED
    BY <2>1 DEF Promise!Next
<1>4. ASSUME NEW t \in tokens, ExpireToken(t) PROVE [Promise!Next]_(Promise!vars)
  <2>1. Promise!Lapse(t)
    BY <1>1, <1>4 DEF ExpireToken, Promise!Lapse
  <2> QED
    BY <2>1 DEF Promise!Next
<1>5. ASSUME \/ \E t \in queue : RecordIntent(t) \/ ArchiveTask(t)
             \/ \E ch \in Channels : ExpireOtp(ch) \/ ExpireIntent(ch)
             \/ \E ch \in Phones : ExpireRef(ch)
      PROVE  [Promise!Next]_(Promise!vars)
  BY <1>1, <1>5 DEF RecordIntent, ArchiveTask, ExpireOtp, ExpireIntent, ExpireRef, Promise!vars
<1> QED
  BY <1>2, <1>3, <1>4, <1>5 DEF Deliver, Expire

\* Every step of the two handlers, the worker, the middleware and the cache is one
\* that the promise allows.
LEMMA PromiseStep == IInv /\ [Next]_vars => [Promise!Next]_(Promise!vars)
<1> SUFFICES ASSUME IInv, [Next]_vars PROVE [Promise!Next]_(Promise!vars)
  OBVIOUS
<1>1. CASE UNCHANGED vars
  BY <1>1 DEF vars, cacheVars, reqVars, ghostVars, mailVars, Promise!vars, Opened
<1>2. ASSUME NEW r \in Requests, Start(r) \/ Abort(r)
      PROVE  [Promise!Next]_(Promise!vars)
  <2>1. /\ UNCHANGED <<purpose, inbox, consumed, tokens, granted>>
        /\ \A q \in Requests : q # r => Opened(q)' = Opened(q)
    BY <1>2, OthersOpened
    DEF Start, Abort, StartSend, StartVerify, ghostVars, IInv, TypeOK, LocalsOK, PCs
  <2>2. Opened(r)' = None
    BY <1>2, FinishCloses
    DEF Start, Abort, StartSend, StartVerify, Goto, IInv, TypeOK, LocalsOK, Opened
  <2> QED
    BY <2>1, <2>2, AtMostCloses
<1> QED
  BY <1>1, <1>2, SendPromised, VerifyPromised, WorldPromised DEF Next

\* Every behaviour of the two handlers, the worker, the middleware and the cache
\* is one that the promise allows: KeepsPromise, for every set of channels and
\* requests.
THEOREM PromiseKept == Spec => KeepsPromise
<1>1. Init => Promise!Init
  BY DEF Init, Promise!Init, Opened
<1> QED
  BY <1>1, PromiseStep, Invariance, PTL DEF Spec, KeepsPromise, Promise!Spec

(***************************************************************************)
(* How many tokens a code can give.                                        *)
(***************************************************************************)
\* By the promise, an attempt opens only on a code that is not spent.
LEMMA AttemptsOpen ==
  ASSUME IInv, [Next]_vars, NEW c \in Codes
  PROVE  /\ consumed \subseteq consumed'
         /\ c \in consumed => Attempts(c)' \subseteq Attempts(c)
<1>1. CASE UNCHANGED Promise!vars
  BY <1>1 DEF Promise!vars, Attempts
<1>2. CASE Promise!Next
  <2>1. CASE \/ \E d \in Codes, ch \in Channels, i \in Intents : Promise!Ask(d, ch, i)
             \/ \E d \in Codes : Promise!Deliver(d)
             \/ \E t \in tokens : Promise!Grant(t) \/ Promise!Lapse(t)
    BY <2>1 DEF Promise!Ask, Promise!Deliver, Promise!Grant, Promise!Lapse, Attempts
  <2>2. ASSUME NEW r \in Requests, NEW d \in Codes, Promise!Open(r, d)
        PROVE  consumed' = consumed /\ (c \in consumed => Attempts(c)' \subseteq Attempts(c))
    BY <2>2 DEF Promise!Open, Attempts
  <2>3. ASSUME NEW r \in Requests, Promise!Close(r)
        PROVE  consumed' = consumed /\ Attempts(c)' \subseteq Attempts(c)
    BY <2>3, NoneIsNoCode DEF Promise!Close, Attempts, IInv
  <2>4. ASSUME NEW r \in Requests, Promise!Spend(r)
        PROVE  consumed \subseteq consumed' /\ Attempts(c)' \subseteq Attempts(c)
    BY <2>4 DEF Promise!Spend, Attempts
  <2>5. ASSUME NEW r \in Requests, NEW ch \in Channels, NEW i \in Intents, Promise!Mint(r, ch, i)
        PROVE  consumed' = consumed /\ Attempts(c)' \subseteq Attempts(c)
    BY <2>5, NoneIsNoCode DEF Promise!Mint, Attempts, IInv
  <2> QED
    BY <1>2, <2>1, <2>2, <2>3, <2>4, <2>5 DEF Promise!Next
<1> QED
  BY <1>1, <1>2, PromiseStep

\* Only ReadIntent counts a token, and it ends the attempt.
LEMMA TokenClosesAttempt ==
  ASSUME IInv, [Next]_vars, NEW c \in Codes, minted'[c] # minted[c]
  PROVE  /\ minted'[c] = minted[c] + 1
         /\ \E r \in Requests : /\ At(r, "readIntent") /\ code[r] = c /\ r \in Attempts(c)
                                /\ consumed' = consumed
                                /\ Attempts(c)' \subseteq Attempts(c) \ {r}
<1>1. PICK r \in Requests : ReadIntent(r)
  BY DEF Next, vars, Start, StartSend, StartVerify, Send, GenerateOTP, GenerateOTPFails,
     EnqueueEmail, SendSms, SendSmsFails, SaveRef, SaveIntent, Verify, CheckOTP, ConsumeOTP,
     FindRef, ProviderVerify, ConsumeRef, Abort, Deliver, SendEmail, RecordIntent, ArchiveTask,
     UseToken, Expire, ExpireOtp, ExpireRef, ExpireIntent, ExpireToken, ghostVars
<1>2. /\ At(r, "readIntent") /\ code[r] \in Codes /\ LocalsOK /\ consumed' = consumed
      /\ Finish(r) /\ minted \in [Codes -> Nat]
  BY <1>1, Locals DEF ReadIntent, IInv, TypeOK, GhostsOK, Accepted, At
<1>3. /\ minted' = [minted EXCEPT ![code[r]] = IF @ < MintCap THEN @ + 1 ELSE @]
  BY <1>1 DEF ReadIntent
<1>4. code[r] = c /\ minted'[c] = minted[c] + 1
  BY <1>2, <1>3
<1>5. Opened(r) = c /\ Opened(r)' = None /\ \A q \in Requests : q # r => Opened(q)' = Opened(q)
  BY <1>2, <1>4, FinishCloses, OthersOpened DEF Opened, At
<1> QED
  BY <1>2, <1>4, <1>5, NoneIsNoCode DEF Attempts, IInv

\* ConsumeOTP and ConsumeRef, which alone lead to "readIntent", have deleted the code
\* when Redis answers.
LEMMA ReadersSpent ==
  ASSUME IInv, [Next]_vars, ~RedisFails, NEW q \in Requests, At(q, "readIntent")'
  PROVE  \/ At(q, "readIntent") /\ code'[q] = code[q] /\ consumed \subseteq consumed'
         \/ code'[q] \in consumed'
<1> USE DEF At
<1>1. TypeOK /\ LocalsOK /\ GhostsOK /\ CacheOK
  BY DEF IInv, TypeOK
<1>2. ASSUME NEW r \in Requests, Finish(r), consumed' = consumed
      PROVE  At(q, "readIntent") /\ code'[q] = code[q]
  BY <1>1, <1>2 DEF Finish, LocalsOK
<1>3. ASSUME NEW r \in Requests, NEW there \in PCs \ {"readIntent"}, Goto(r, there),
             consumed' = consumed, code'[q] = code[q] \/ q = r
      PROVE  At(q, "readIntent") /\ code'[q] = code[q]
  BY <1>1, <1>3 DEF Goto, LocalsOK
<1>4. ASSUME NEW r \in Requests, Start(r) \/ Abort(r)
      PROVE  At(q, "readIntent") /\ code'[q] = code[q] /\ consumed' = consumed
  BY <1>1, <1>2, <1>3, <1>4 DEF Start, StartSend, StartVerify, Abort, ghostVars, mailVars, LocalsOK, PCs
<1>5. ASSUME NEW r \in Requests, Send(r)
      PROVE  At(q, "readIntent") /\ code'[q] = code[q] /\ consumed' = consumed
  BY <1>1, <1>2, <1>3, <1>5
  DEF Send, GenerateOTP, GenerateOTPFails, EnqueueEmail, SendSms, SendSmsFails, SaveRef,
      SaveIntent, ghostVars, mailVars, LocalsOK, PCs
<1>6. ASSUME NEW r \in Requests, CheckOTP(r) \/ FindRef(r) \/ ProviderVerify(r) \/ ReadIntent(r)
      PROVE  At(q, "readIntent") /\ code'[q] = code[q] /\ consumed' = consumed
  BY <1>1, <1>2, <1>3, <1>6
  DEF CheckOTP, FindRef, ProviderVerify, ReadIntent, ghostVars, mailVars, LocalsOK, PCs
<1>7. ASSUME NEW r \in Requests, ConsumeOTP(r) \/ ConsumeRef(r)
      PROVE  \/ At(q, "readIntent") /\ code'[q] = code[q] /\ consumed \subseteq consumed'
             \/ code'[q] \in consumed'
  <2>1. chan[r] \in Channels /\ (At(r, "consumeRef") => chan[r] \in Phones)
    BY <1>7, Locals DEF ConsumeOTP, ConsumeRef, IInv
  <2>2. consumed' = consumed \cup {code[r]}
    BY <1>1, <1>7, <2>1 DEF ConsumeOTP, ConsumeRef, Written, CacheOK
  <2> QED
    BY <1>1, <1>7, <2>2 DEF ConsumeOTP, ConsumeRef, Goto, LocalsOK
<1>8. CASE \/ UNCHANGED vars \/ Deliver \/ Expire
           \/ \E t \in queue : ArchiveTask(t)
           \/ \E t \in tokens : UseToken(t)
  BY <1>8 DEF vars, Deliver, SendEmail, RecordIntent, ArchiveTask, UseToken, Expire, ExpireOtp,
     ExpireRef, ExpireIntent, ExpireToken, reqVars, ghostVars
<1> QED
  BY <1>4, <1>5, <1>6, <1>7, <1>8 DEF Next, Verify

LEMMA CountedStep ==
  ASSUME IInv, IInv', [Next]_vars, TokensCounted, ~RedisFails
  PROVE  TokensCounted'
<1>1. ASSUME NEW q \in Requests, At(q, "readIntent")' PROVE code'[q] \in consumed'
  BY <1>1, ReadersSpent DEF TokensCounted
<1>2. ASSUME NEW c \in Codes
      PROVE  /\ minted'[c] > 0 => c \in consumed'
             /\ minted'[c] + Cardinality(Attempts(c)') <= Cardinality(Requests)
  <2>1. /\ minted[c] > 0 => c \in consumed
        /\ minted[c] + Cardinality(Attempts(c)) <= Cardinality(Requests)
        /\ \A q \in Requests : At(q, "readIntent") => code[q] \in consumed
    BY DEF TokensCounted
  <2>2. /\ IsFiniteSet(Attempts(c)) /\ IsFiniteSet(Attempts(c)')
        /\ Cardinality(Attempts(c)) \in Nat /\ Cardinality(Attempts(c)') \in Nat
        /\ Cardinality(Attempts(c)') <= Cardinality(Requests)
        /\ Cardinality(Requests) \in Nat /\ minted[c] \in Nat
    <3>1. Attempts(c) \subseteq Requests /\ Attempts(c)' \subseteq Requests
      BY DEF Attempts
    <3> QED
      BY <3>1, FS_Subset, FS_CardinalityType, ConstantsAssumption DEF IInv, TypeOK, GhostsOK
  <2>3. CASE minted'[c] = minted[c] /\ c \in consumed
    <3>1. Cardinality(Attempts(c)') <= Cardinality(Attempts(c)) /\ c \in consumed'
      BY <2>2, <2>3, AttemptsOpen, FS_Subset
    <3> QED
      BY <2>1, <2>2, <2>3, <3>1
  <2>4. CASE minted'[c] = minted[c] /\ c \notin consumed
    <3>1. minted'[c] = 0
      BY <2>1, <2>2, <2>4
    <3> QED
      BY <2>2, <3>1
  <2>5. CASE minted'[c] # minted[c]
    <3>1. PICK r \in Requests : /\ At(r, "readIntent") /\ code[r] = c /\ r \in Attempts(c)
                                /\ consumed' = consumed
                                /\ Attempts(c)' \subseteq Attempts(c) \ {r}
      BY <2>5, TokenClosesAttempt
    <3>2. minted'[c] = minted[c] + 1
      BY <2>5, TokenClosesAttempt
    <3>3. /\ IsFiniteSet(Attempts(c) \ {r})
          /\ Cardinality(Attempts(c) \ {r}) = Cardinality(Attempts(c)) - 1
      BY <2>2, <3>1, FS_RemoveElement
    <3>4. Cardinality(Attempts(c)') <= Cardinality(Attempts(c) \ {r})
      BY <3>1, <3>3, FS_Subset
    <3> QED
      BY <2>1, <2>2, <3>1, <3>2, <3>3, <3>4
  <2> QED
    BY <2>3, <2>4, <2>5
<1> QED
  BY <1>1, <1>2 DEF TokensCounted

\* While Redis answers, one code gives at most one token per request in flight: reading
\* and deleting are two calls, and only verifications that read before can go on.
THEOREM TokensBounded == Spec => []MintBound
<1>1. Init => TokensCounted
  <2> SUFFICES ASSUME Init PROVE TokensCounted
    OBVIOUS
  <2>1. \A c \in Codes : minted[c] = 0 /\ Attempts(c) = {}
    <3>1. \A r \in Requests : Opened(r) = None
      BY DEF Init, Opened
    <3> QED
      BY <3>1, InitIInv, NoneIsNoCode DEF Init, Attempts, IInv
  <2>2. Cardinality({}) = 0 /\ 0 + 0 <= Cardinality(Requests) /\ ~(0 > 0)
    BY FS_EmptySet, FS_CardinalityType, ConstantsAssumption
  <2>3. \A c \in Codes : /\ minted[c] > 0 => c \in consumed
                         /\ minted[c] + Cardinality(Attempts(c)) <= Cardinality(Requests)
    BY <2>1, <2>2
  <2> QED
    BY <2>3 DEF Init, At, TokensCounted
<1>2. IInv /\ IInv' /\ TokensCounted /\ [Next]_vars => TokensCounted'
  BY CountedStep DEF TokensCounted
<1>3. IInv /\ TokensCounted => MintBound
  <2> SUFFICES ASSUME IInv, TokensCounted, ~RedisFails, NEW c \in Codes
               PROVE  minted[c] <= Cardinality(Requests)
    BY DEF MintBound
  <2>1. minted[c] \in Nat /\ Cardinality(Attempts(c)) \in Nat /\ Cardinality(Requests) \in Nat
    BY FS_Subset, FS_CardinalityType, ConstantsAssumption DEF Attempts, IInv, TypeOK, GhostsOK
  <2> QED
    BY <2>1 DEF TokensCounted
<1> QED
  BY <1>1, <1>2, <1>3, Invariance, PTL DEF Spec

(***************************************************************************)
(* How a saved code is lost.                                               *)
(***************************************************************************)
\* Only GenerateOTP writes a code under a key, and a later one than any accepted; a
\* verification accepts the code that is there.
LEMMA NotNewerStep ==
  ASSUME IInv, IInv', [Next]_vars, AcceptedNotNewer
  PROVE  AcceptedNotNewer'
<1> SUFFICES ASSUME NEW q \in Requests, At(q, "consume")', otp'[chan'[q]] # None
             PROVE  code'[q] <= otp'[chan'[q]]
  BY DEF AcceptedNotNewer
<1> USE DEF At
<1>1. TypeOK /\ LocalsOK /\ CacheOK /\ GhostsOK /\ WorldOK /\ RequestOwned(q)
  BY DEF IInv, TypeOK, Ownership
<1> DEFINE Stays == /\ At(q, "consume") /\ chan'[q] = chan[q] /\ code'[q] = code[q]
<1>2. ASSUME NEW r \in Requests, Finish(r) PROVE Stays
  BY <1>1, <1>2 DEF Finish, LocalsOK
<1>3. ASSUME NEW r \in Requests, NEW there \in PCs \ {"consume"}, Goto(r, there),
             \A s \in Requests : s # r => chan'[s] = chan[s] /\ code'[s] = code[s]
      PROVE  Stays
  BY <1>1, <1>3 DEF Goto, LocalsOK
<1>4. Stays /\ otp'[chan[q]] \in {otp[chan[q]], None} => code'[q] <= otp'[chan'[q]]
  BY DEF AcceptedNotNewer
<1>5. ASSUME NEW r \in Requests, GenerateOTP(r) PROVE code'[q] <= otp'[chan'[q]]
  <2>1. Stays
    BY <1>1, <1>3, <1>5 DEF GenerateOTP, LocalsOK, PCs
  <2>2. chan[q] \in Channels /\ code[q] \in Codes /\ code[q] < next
    <3>1. chan[q] \in Channels
      BY <1>1, <2>1 DEF RequestOwned
    <3>2. BoundTo(code[q], chan[q])
      BY <1>1, <2>1 DEF RequestOwned
    <3> QED
      BY <3>1, <3>2 DEF IInv, Ownership, CodesFresh, BoundTo
  <2>3. next \in Nat /\ code[q] \in Nat
    BY <1>1, <2>2, ConstantsAssumption DEF WorldOK, Codes
  <2>4. otp'[chan[q]] \in {otp[chan[q]], next}
    BY <1>1, <1>5, <2>2 DEF GenerateOTP, CacheOK
  <2> QED
    BY <1>4, <2>1, <2>2, <2>3, <2>4
<1>6. ASSUME NEW r \in Requests,
             GenerateOTPFails(r) \/ EnqueueEmail(r) \/ SendSms(r) \/ SendSmsFails(r) \/ SaveRef(r)
               \/ SaveIntent(r)
      PROVE  Stays /\ otp' = otp
  BY <1>1, <1>2, <1>3, <1>6
  DEF GenerateOTPFails, EnqueueEmail, SendSms, SendSmsFails, SaveRef, SaveIntent, cacheVars,
      LocalsOK, PCs
<1>7. ASSUME NEW r \in Requests, Start(r) \/ Abort(r) PROVE Stays /\ otp' = otp
  BY <1>1, <1>2, <1>3, <1>7 DEF Start, StartSend, StartVerify, Abort, cacheVars, LocalsOK, PCs
<1>8. ASSUME NEW r \in Requests, FindRef(r) \/ ProviderVerify(r) \/ ConsumeRef(r) \/ ReadIntent(r)
      PROVE  Stays /\ otp' = otp
  BY <1>1, <1>2, <1>3, <1>8
  DEF FindRef, ProviderVerify, ConsumeRef, ReadIntent, cacheVars, LocalsOK, PCs
<1>9. ASSUME NEW r \in Requests, ConsumeOTP(r)
      PROVE  Stays /\ otp'[chan[q]] \in {otp[chan[q]], None}
  <2>1. Stays
    BY <1>1, <1>3, <1>9 DEF ConsumeOTP, LocalsOK, PCs
  <2>2. chan[q] \in Channels
    BY <1>1, <2>1 DEF RequestOwned
  <2> QED
    BY <1>1, <1>9, <2>1, <2>2 DEF ConsumeOTP, Written, CacheOK
<1>10. ASSUME NEW r \in Requests, CheckOTP(r) PROVE code'[q] <= otp'[chan'[q]]
  <2>1. otp' = otp
    BY <1>10 DEF CheckOTP, cacheVars
  <2>2. CASE Stays
    BY <1>4, <2>1, <2>2
  <2>3. CASE ~Stays
    <3>1. /\ q = r /\ chan' = chan /\ code' = code /\ chan[r] \in Emails
          /\ code[r] \in Found(otp[chan[r]])
      BY <1>1, <1>2, <1>3, <1>10, <2>3 DEF CheckOTP, Goto, LocalsOK, PCs
    <3>2. code[r] = otp[chan[r]] /\ code[r] \in Codes /\ code[r] <= code[r]
      BY <1>1, <3>1, ConstantsAssumption DEF Found, CacheOK, Channels, LocalsOK, Codes
    <3> QED
      BY <2>1, <3>1, <3>2
  <2> QED
    BY <2>2, <2>3
<1>11. CASE \/ Deliver
            \/ \E t \in queue : ArchiveTask(t)
            \/ \E t \in tokens : UseToken(t) \/ ExpireToken(t)
            \/ \E ch \in Channels : ExpireIntent(ch)
            \/ \E ch \in Phones : ExpireRef(ch)
  <2>1. Stays /\ otp' = otp
    BY <1>11 DEF Deliver, SendEmail, RecordIntent, ArchiveTask, UseToken, ExpireRef,
       ExpireIntent, ExpireToken, reqVars, cacheVars
  <2> QED
    BY <1>4, <2>1
<1>12. ASSUME NEW ch \in Channels, ExpireOtp(ch) PROVE code'[q] <= otp'[chan'[q]]
  <2>1. Stays
    BY <1>12 DEF ExpireOtp, reqVars
  <2>2. chan[q] \in Channels
    BY <1>1, <2>1 DEF RequestOwned
  <2>3. otp'[chan[q]] \in {otp[chan[q]], None}
    BY <1>1, <1>12, <2>2 DEF ExpireOtp, CacheOK
  <2> QED
    BY <1>4, <2>1, <2>3
<1>13. CASE UNCHANGED vars
  BY <1>4, <1>13 DEF vars, cacheVars, reqVars
<1> QED
  BY <1>4, <1>5, <1>6, <1>7, <1>8, <1>9, <1>10, <1>11, <1>12, <1>13
  DEF Next, Send, Verify, Expire

\* The code of a key goes away other than by time only when a verification deletes it
\* that checked this code or an older one: a mail that comes late cannot cost its owner
\* a code made after it.
THEOREM LossExplained == Spec => CodeLossExplained
<1>1. Init => AcceptedNotNewer
  BY DEF Init, AcceptedNotNewer, At
<1>2. IInv /\ IInv' /\ AcceptedNotNewer /\ [Next]_vars => AcceptedNotNewer'
  BY NotNewerStep
<1>3. IInv /\ AcceptedNotNewer /\ [Next]_vars =>
        [\A ch \in Channels :
           (otp[ch] # None /\ otp'[ch] = None /\ pc' # pc)
             => \E r \in Requests : /\ At(r, "consume")
                                    /\ chan[r] = ch
                                    /\ code[r] <= otp[ch]]_vars
  <2> SUFFICES ASSUME IInv, AcceptedNotNewer, Next, NEW ch \in Channels,
                      otp[ch] # None, otp'[ch] = None, pc' # pc
               PROVE  \E r \in Requests : /\ At(r, "consume") /\ chan[r] = ch
                                          /\ code[r] <= otp[ch]
    OBVIOUS
  <2>1. TypeOK /\ CacheOK /\ LocalsOK /\ None \notin Codes
    BY NoneIsNoCode DEF IInv, TypeOK
  <2>2. ASSUME NEW r \in Requests, GenerateOTP(r) PROVE FALSE
    BY <2>1, <2>2 DEF GenerateOTP, CacheOK
  <2>3. PICK r \in Requests : ConsumeOTP(r)
    BY <2>2 DEF Next, Start, StartSend, StartVerify, Send, GenerateOTPFails, EnqueueEmail,
       SendSms, SendSmsFails, SaveRef, SaveIntent, Verify, CheckOTP, FindRef, ProviderVerify,
       ConsumeRef, ReadIntent, Abort, Deliver, SendEmail, RecordIntent, ArchiveTask, UseToken,
       Expire, ExpireOtp, ExpireRef, ExpireIntent, ExpireToken, cacheVars, reqVars
  <2>4. At(r, "consume") /\ chan[r] = ch
    BY <2>1, <2>3 DEF ConsumeOTP, Written, CacheOK
  <2> QED
    BY <2>4 DEF AcceptedNotNewer
<1> QED
  BY <1>1, <1>2, <1>3, Invariance, PTL DEF Spec, CodeLossExplained
=============================================================================
