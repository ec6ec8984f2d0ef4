---------------------------- MODULE Billing_proofs ----------------------------
(***************************************************************************)
(* Proofs about Billing, for any charges, deliveries, cards and tasks, and   *)
(* any failures.  Nothing serialises the deliveries of a charge, so the       *)
(* bounds count what is recorded together with the handlers that are past    *)
(* the check for duplicates and will still record; what holds one delivery    *)
(* at a time is about the one that is under way.                             *)
(***************************************************************************)
EXTENDS Billing, FiniteSetTheorems, SequenceTheorems, TLAPS

N == Cardinality(Requests)

(***************************************************************************)
(* The inductive invariant.                                                *)
(***************************************************************************)
\* Handlers past the check for duplicates: still to record the charge, or after that.
Before == {"plan", "sub", "writeSub", "record"}
Past   == {"workspace", "saveCards", "appCard", "finish"}

Recording(f) == {r \in Requests : pc[r] \in Before /\ ref[r] = f}
Settling(f)  == \E r \in Requests : pc[r] \in Past /\ ref[r] = f

\* What a handler is sure of, where it is.
RequestOK(r) ==
  /\ pc[r] = "idle" => ref[r] = None
  /\ pc[r] # "idle" => ref[r] \in Refs /\ paid[ref[r]] # None
  /\ pc[r] \in {"plan", "sub", "writeSub"} => ~Reverse(r)
  /\ pc[r] \in {"sub", "writeSub"} => plan[r] \/ "plan" \in faults
  /\ pc[r] \in {"idle", "count", "plan", "sub"} => old[r] = 0
  /\ pc[r] = "writeSub" => old[r] \in DOMAIN subs \cup {0}
  /\ pc[r] = "appCard" => card[r] \in CardInfo
  /\ pc[r] \in Past => trx[ref[r]] > 0 \/ "insert" \in faults

\* What a task has read, where it is.
TaskOK(t) ==
  /\ task[t] \in {"card", "sub"} => tLocal[t] \in CardInfo
  /\ task[t] \in {"charge", "charged"} => tLocal[t] \in Payments

Owned == (\A r \in Requests : RequestOK(r)) /\ (\A t \in Tasks : TaskOK(t))

Alone == ~overlapped => \A r, q \in Requests : pc[r] # "idle" /\ pc[q] # "idle" => r = q

\* Charges that were recorded or answered were made, recorded, and given back if they
\* only verified a card.
Settled ==
  \A f \in Refs :
    /\ f \in acked => trx[f] > 0 \/ "insert" \in faults
    /\ trx[f] > 0 \/ f \in acked =>
         /\ paid[f] # None
         /\ \/ paid[f].plan # None \/ refunds[f] > 0 \/ Settling(f)
            \/ faults \cap {"refund", "died"} # {}

\* Documents that are there, and handlers that will add one.
Recorded ==
  "count" \notin faults => \A f \in Refs : trx[f] + Cardinality(Recording(f)) <= N

\* One delivery at a time: what was counted is still so.
StillNew ==
  ~overlapped /\ "count" \notin faults =>
    \A r \in Requests : pc[r] \in Before => trx[ref[r]] = 0

\* ... and without failures.
CalmOnce ==
  Calm => /\ \A f \in Refs : trx[f] <= 1 /\ refunds[f] <= trx[f]
          /\ Len(subs) <= 1
          /\ \A r \in Requests :
               /\ pc[r] \in Past => refunds[ref[r]] = 0
               /\ pc[r] = "writeSub" /\ old[r] = 0 => subs = <<>>

CardsKept ==
  ~overlapped =>
    /\ \A r \in Requests : pc[r] = "saveCards" => list[r] = cards
    /\ "card" \notin faults =>
         /\ appCard \in cards \cup {NoCard}
         /\ \A r \in Requests : pc[r] = "appCard" => card[r] \in cards

ChargedOnce ==
  "worker" \notin faults =>
    \A t \in Tasks : /\ charges[t] <= 1
                     /\ task[t] \notin {"charged", "done"} => charges[t] = 0

\* A recorded plan whose handler has ended has queued its renewal, if any.
Due  == {f \in Refs : trx[f] > 0 /\ paid[f] # None /\ paid[f].plan # None /\ ~Settling(f)}
Made == {t \in Tasks : task[t] # "none"}
RenewalsDue ==
  ~overlapped /\ faults \cap {"insert", "count"} = {} => Cardinality(Made) <= Cardinality(Due)

IInv == /\ TypeOK /\ Owned /\ Alone /\ SubscriptionWasPaid /\ Settled /\ Recorded /\ StillNew
        /\ CalmOnce /\ CardsKept /\ ChargedOnce /\ RenewalsDue

(***************************************************************************)
(* Steps.                                                                  *)
(***************************************************************************)
LEMMA NType == N \in Nat
BY FS_CardinalityType, ConstantsAssumption DEF N

\* A charge, and a link, are something.
LEMMA NoneIsNone == None \notin Payments /\ None \notin Links /\ None \notin Plans /\ None \notin Refs
BY ConstantsAssumption

LEMMA FirstSub ==
  ASSUME DocsOK, subs # <<>>
  PROVE  subs[1] \in Subs /\ 1 \in DOMAIN subs
<1>1. Len(subs) \in Nat /\ DOMAIN subs = 1..Len(subs) /\ \A i \in 1..Len(subs) : subs[i] \in Subs
  BY DEF DocsOK
<1>2. Len(subs) # 0
  BY EmptySeq DEF DocsOK
<1> QED
  BY <1>1, <1>2

\* Everything one delivery does to its own locals leaves those of others alone.
Same(s) == /\ pc'[s] = pc[s] /\ ref'[s] = ref[s] /\ plan'[s] = plan[s] /\ old'[s] = old[s]
           /\ renew'[s] = renew[s] /\ list'[s] = list[s] /\ card'[s] = card[s]

LEMMA OthersSame ==
  ASSUME LocalsOK, NEW r \in Requests, Webhook(r), NEW s \in Requests, s # r
  PROVE  Same(s)
<1> USE DEF LocalsOK, Same, Goto, Ended
<1>1. CASE \E f \in Refs : Deliver(r, f)
  BY <1>1 DEF Deliver
<1>2. CASE CountTransactions(r)
  BY <1>2 DEF CountTransactions, Answered
<1>3. CASE FindPlan(r) \/ FindActiveSub(r)
  BY <1>3 DEF FindPlan, FindActiveSub
<1>4. CASE CreateSubscription(r) \/ UpdateSubscription(r)
  BY <1>4 DEF CreateSubscription, UpdateSubscription
<1>5. CASE CreateTransaction(r) \/ FindWorkspace(r)
  BY <1>5 DEF CreateTransaction, FindWorkspace
<1>6. CASE SaveCards(r) \/ SetAppCard(r)
  BY <1>6 DEF SaveCards, SetAppCard
<1>7. CASE Refund(r) \/ EnqueueRenewal(r) \/ RequestDies(r)
  BY <1>7 DEF Refund, EnqueueRenewal, RequestDies, Answered
<1> QED
  BY <1>1, <1>2, <1>3, <1>4, <1>5, <1>6, <1>7 DEF Webhook

LEMMA EndedLocals ==
  ASSUME NEW r \in Requests, LocalsOK, Ended(r)
  PROVE  /\ LocalsOK' /\ pc'[r] = "idle" /\ ref'[r] = None
         /\ \A s \in Requests \ {r} : Same(s)
BY DEF LocalsOK, Ended, Goto, PCs, Same

(***************************************************************************)
(* Typing.                                                                 *)
(***************************************************************************)
LEMMA FaultTypes ==
  ASSUME GhostsOK, overlapped' = overlapped, Fine \/ \E kind \in Kinds : Fault(kind)
  PROVE  GhostsOK'
BY DEF GhostsOK, Fine, Fault

LEMMA ChargeTypes ==
  ASSUME TypeOK, Owned, NEW r \in Requests, pc[r] # "idle"
  PROVE  /\ ref[r] \in Refs /\ Charge(r) \in Payments
         /\ ~Reverse(r) => PaidSub(r) \in Subs
<1>1. ref[r] \in Refs /\ Charge(r) \in Payments
  BY DEF Owned, RequestOK, TypeOK, PaymentsOK, Charge
<1> QED
  BY <1>1 DEF Reverse, PaidSub, Subs, Payments

\* The two ways in which the subscription of a delivery is written.
LEMMA SubsWritten ==
  ASSUME subs \in Seq(Subs), NEW r \in Requests, PaidSub(r) \in Subs,
         CreateSubscription(r) \/ UpdateSubscription(r)
  PROVE  /\ subs' \in Seq(Subs) /\ DOMAIN subs \subseteq DOMAIN subs'
         /\ \A i \in DOMAIN subs' : subs'[i] = PaidSub(r) \/ (i \in DOMAIN subs /\ subs'[i] = subs[i])
<1> DEFINE new == PaidSub(r)  k == old[r]
<1>1. subs' = subs \/ subs' = Append(subs, new) \/ subs' = [subs EXCEPT ![k] = new]
  BY DEF CreateSubscription, UpdateSubscription
<1>2. subs \in Seq(Subs) /\ new \in Subs
  OBVIOUS
<1> HIDE DEF new, k
<1>3. CASE subs' = subs
  BY <1>2, <1>3
<1>4. CASE subs' = Append(subs, new)
  <2>1. subs' \in Seq(Subs) /\ Len(subs') = Len(subs) + 1 /\ Len(subs) \in Nat
    BY <1>2, <1>4
  <2>2. DOMAIN subs' = 1..(Len(subs) + 1) /\ DOMAIN subs = 1..Len(subs)
    BY <1>2, <2>1
  <2>3. \A i \in 1..(Len(subs) + 1) :
          subs'[i] = IF i = Len(subs) + 1 THEN new ELSE subs[i]
    BY <1>2, <1>4
  <2>4. \A i \in 1..(Len(subs) + 1) : i = Len(subs) + 1 \/ i \in 1..Len(subs)
    BY <2>1
  <2>5. DOMAIN subs \subseteq DOMAIN subs'
    BY <2>1, <2>2
  <2>6. \A i \in DOMAIN subs' : subs'[i] = new \/ (i \in DOMAIN subs /\ subs'[i] = subs[i])
    BY <2>2, <2>3, <2>4
  <2> QED
    BY <2>1, <2>5, <2>6 DEF new
<1>5. CASE subs' = [subs EXCEPT ![k] = new]
  <2>1. /\ DOMAIN subs' = DOMAIN subs
        /\ \A i \in DOMAIN subs : subs'[i] = IF i = k THEN new ELSE subs[i]
    BY <1>5
  <2>2. DOMAIN subs = 1..Len(subs) /\ Len(subs) \in Nat /\ \A i \in DOMAIN subs : subs[i] \in Subs
    BY <1>2
  <2>3. subs' = [i \in 1..Len(subs) |-> IF i = k THEN new ELSE subs[i]]
    BY <1>5, <2>2
  <2>4. \A i \in 1..Len(subs) : (IF i = k THEN new ELSE subs[i]) \in Subs
    BY <1>2, <2>2
  <2> DEFINE n == Len(subs)
  <2>5. n \in Nat /\ subs' \in [1..n -> Subs]
    BY <2>2, <2>3, <2>4
  <2> HIDE DEF n
  <2>6. subs' \in Seq(Subs)
    BY <2>5
  <2>7. \A i \in DOMAIN subs' : subs'[i] = new \/ (i \in DOMAIN subs /\ subs'[i] = subs[i])
    BY <2>1
  <2> QED
    BY <2>1, <2>6, <2>7 DEF new
<1> QED
  BY <1>1, <1>3, <1>4, <1>5

LEMMA WebhookTypes ==
  ASSUME TypeOK, Owned, NEW r \in Requests, Webhook(r)
  PROVE  TypeOK'
<1> USE DEF TypeOK, payVars, docVars, taskVars
<1>1. CASE \E f \in Refs : Deliver(r, f)
  <2>1. LocalsOK'
    BY <1>1 DEF Deliver, LocalsOK, Goto, PCs
  <2> QED
    BY <1>1, <2>1 DEF Deliver, PaymentsOK, DocsOK, TasksOK, GhostsOK
<1>2. CASE CountTransactions(r)
  <2>1. LocalsOK'
    BY <1>2, EndedLocals DEF CountTransactions, Answered, LocalsOK, Goto, PCs
  <2>2. GhostsOK'
    BY <1>2, FaultTypes DEF CountTransactions, Kinds
  <2>3. acked' \subseteq Refs
    BY <1>2, ChargeTypes DEF CountTransactions, Answered, PaymentsOK
  <2> QED
    BY <1>2, <2>1, <2>2, <2>3 DEF CountTransactions, PaymentsOK, DocsOK, TasksOK
<1>3. CASE FindPlan(r) \/ FindActiveSub(r)
  <2> DEFINE ar == subs[1].autoRenew
  <2>1. subs # <<>> => ar \in BOOLEAN
    BY FirstSub DEF Subs
  <2>2. /\ pc' \in [Requests -> PCs] /\ plan' \in [Requests -> BOOLEAN] /\ old' \in [Requests -> Nat]
        /\ UNCHANGED <<ref, list, card>>
    <3>1. CASE FindPlan(r)
      BY <3>1 DEF FindPlan, LocalsOK, Goto, PCs
    <3>2. CASE FindActiveSub(r)
      BY <3>2 DEF FindActiveSub, LocalsOK, Goto, PCs
    <3> QED
      BY <1>3, <3>1, <3>2
  <2>3. UNCHANGED renew \/ (subs # <<>> /\ renew' = [renew EXCEPT ![r] = ar])
    BY <1>3 DEF FindPlan, FindActiveSub
  <2> HIDE DEF ar
  <2>4. renew' \in [Requests -> BOOLEAN]
    BY <2>1, <2>3 DEF LocalsOK
  <2>5. LocalsOK'
    BY <2>2, <2>4 DEF LocalsOK
  <2>6. GhostsOK'
    BY <1>3, FaultTypes DEF FindPlan, FindActiveSub, Kinds
  <2> QED
    BY <1>3, <2>5, <2>6 DEF FindPlan, FindActiveSub, PaymentsOK, DocsOK, TasksOK
<1>4. CASE CreateSubscription(r) \/ UpdateSubscription(r)
  <2>1. LocalsOK'
    BY <1>4, EndedLocals DEF CreateSubscription, UpdateSubscription, LocalsOK, Goto, PCs
  <2>2. GhostsOK'
    BY <1>4, FaultTypes DEF CreateSubscription, UpdateSubscription, Kinds
  <2>3. PaidSub(r) \in Subs
    BY <1>4, ChargeTypes DEF CreateSubscription, UpdateSubscription, Owned, RequestOK
  <2>4. subs' \in Seq(Subs)
    BY <1>4, <2>3, SubsWritten DEF DocsOK
  <2> QED
    BY <1>4, <2>1, <2>2, <2>4 DEF CreateSubscription, UpdateSubscription, PaymentsOK, DocsOK, TasksOK
<1>5. CASE CreateTransaction(r) \/ FindWorkspace(r)
  <2>1. LocalsOK'
    BY <1>5, EndedLocals DEF CreateTransaction, FindWorkspace, LocalsOK, Goto, PCs, DocsOK
  <2>2. GhostsOK'
    BY <1>5, FaultTypes DEF CreateTransaction, FindWorkspace, Kinds
  <2>3. trx' \in [Refs -> Nat]
    BY <1>5 DEF CreateTransaction, FindWorkspace, DocsOK
  <2> QED
    BY <1>5, <2>1, <2>2, <2>3 DEF CreateTransaction, FindWorkspace, PaymentsOK, DocsOK, TasksOK
<1>6. CASE SaveCards(r)
  <2>1. Charge(r).sig \in Signatures
    BY <1>6, ChargeTypes DEF SaveCards, Payments
  <2>2. CASE \E c \in WithSignature(r) : card' = [card EXCEPT ![r] = c] /\ UNCHANGED <<cards, nextCard>>
    <3>1. LocalsOK'
      BY <1>6, <2>2 DEF SaveCards, WithSignature, LocalsOK, Goto, PCs
    <3>2. GhostsOK'
      BY <1>6, FaultTypes DEF SaveCards, Kinds
    <3> QED
      BY <1>6, <2>2, <3>1, <3>2 DEF SaveCards, PaymentsOK, DocsOK, TasksOK
  <2>3. CASE ~\E c \in WithSignature(r) : card' = [card EXCEPT ![r] = c] /\ UNCHANGED <<cards, nextCard>>
    <3> DEFINE new == [id |-> nextCard, sig |-> Charge(r).sig]
    <3>1. /\ nextCard <= MaxCards /\ nextCard' = nextCard + 1
          /\ card' = [card EXCEPT ![r] = new] /\ cards' \in {cards, list[r] \cup {new}}
      BY <1>6, <2>3 DEF SaveCards
    <3>2. nextCard \in 1..MaxCards /\ nextCard' \in 1..(MaxCards + 1)
      BY <3>1, ConstantsAssumption DEF DocsOK
    <3>3. new \in CardInfo
      BY <2>1, <3>2 DEF CardInfo
    <3> HIDE DEF new
    <3>4. LocalsOK'
      BY <1>6, <3>1, <3>3 DEF SaveCards, LocalsOK, Goto, PCs
    <3>5. GhostsOK'
      BY <1>6, FaultTypes DEF SaveCards, Kinds
    <3>6. cards' \subseteq CardInfo
      BY <3>1, <3>3 DEF DocsOK, LocalsOK
    <3> QED
      BY <1>6, <3>2, <3>4, <3>5, <3>6 DEF SaveCards, PaymentsOK, DocsOK, TasksOK
  <2> QED
    BY <2>2, <2>3
<1>7. CASE SetAppCard(r)
  <2>1. LocalsOK'
    BY <1>7 DEF SetAppCard, LocalsOK, Goto, PCs
  <2>2. GhostsOK'
    BY <1>7, FaultTypes DEF SetAppCard, Kinds
  <2>3. card[r] \in CardInfo
    BY <1>7 DEF SetAppCard, Owned, RequestOK
  <2> QED
    BY <1>7, <2>1, <2>2, <2>3 DEF SetAppCard, PaymentsOK, DocsOK, TasksOK
<1>8. CASE Refund(r) \/ EnqueueRenewal(r) \/ RequestDies(r)
  <2>1. LocalsOK'
    BY <1>8, EndedLocals DEF Refund, EnqueueRenewal, RequestDies, Answered
  <2>2. GhostsOK'
    BY <1>8, FaultTypes DEF Refund, EnqueueRenewal, RequestDies, ReverseTransaction, Enqueue, Kinds
  <2>3. ref[r] \in Refs
    BY <1>8, ChargeTypes DEF Refund, EnqueueRenewal, RequestDies
  <2>4. PaymentsOK'
    BY <1>8, <2>3 DEF Refund, EnqueueRenewal, RequestDies, Answered, ReverseTransaction, PaymentsOK
  <2>5. TasksOK'
    BY <1>8 DEF Refund, EnqueueRenewal, RequestDies, Enqueue, TasksOK, TaskStates
  <2> QED
    BY <1>8, <2>1, <2>2, <2>4, <2>5 DEF Refund, EnqueueRenewal, RequestDies, DocsOK
<1> QED
  BY <1>1, <1>2, <1>3, <1>4, <1>5, <1>6, <1>7, <1>8 DEF Webhook

LEMMA TasksTypes ==
  ASSUME TypeOK, Owned, NEW t \in Tasks, Renewal(t)
  PROVE  TypeOK'
<1> USE DEF TypeOK, taskOnly, docVars, reqVars, Step, Retry, SkipRetry
<1>1. CASE StartRenewal(t) \/ FindCard(t) \/ FinishRenewal(t)
  <2>1. TasksOK'
    BY <1>1 DEF StartRenewal, FindCard, FinishRenewal, TasksOK, TaskStates, DocsOK
  <2> QED
    BY <1>1, <2>1 DEF StartRenewal, FindCard, FinishRenewal, PaymentsOK, DocsOK, LocalsOK, GhostsOK
<1>2. CASE FindSub(t)
  <2>1. subs # <<>> => subs[1].plan \in Plans /\ subs[1].interval \in Frequencies
    BY FirstSub DEF Subs
  <2>2. tLocal[t].sig \in Signatures
    BY <1>2 DEF FindSub, Owned, TaskOK, CardInfo
  <2> DEFINE due == [plan |-> subs[1].plan, interval |-> subs[1].interval,
                     autoRenew |-> TRUE, app |-> TRUE, sig |-> tLocal[t].sig]
  <2>3. subs # <<>> => due \in Payments
    BY <2>1, <2>2 DEF Payments
  <2>4. \/ subs # <<>> /\ tLocal' = [tLocal EXCEPT ![t] = due]
        \/ tLocal' = [tLocal EXCEPT ![t] = NoCard]
    BY <1>2 DEF FindSub
  <2>5. \E where \in TaskStates : task' = [task EXCEPT ![t] = where]
    BY <1>2 DEF FindSub, TaskStates
  <2> HIDE DEF due
  <2>6. TasksOK'
    BY <1>2, <2>3, <2>4, <2>5 DEF FindSub, TasksOK
  <2> QED
    BY <1>2, <2>6 DEF FindSub, PaymentsOK, DocsOK, LocalsOK, GhostsOK
<1>3. CASE ChargeCard(t)
  <2>1. TasksOK'
    BY <1>3 DEF ChargeCard, TasksOK, TaskStates
  <2>2. tLocal[t] \in Payments
    BY <1>3 DEF ChargeCard, Owned, TaskOK
  <2>3. PaymentsOK'
    BY <1>3, <2>2 DEF ChargeCard, ChargeAuthorization, PaymentsOK
  <2> QED
    BY <1>3, <2>1, <2>3 DEF ChargeCard, DocsOK, LocalsOK, GhostsOK
<1>4. CASE WorkerDies(t)
  <2>1. TasksOK'
    BY <1>4 DEF WorkerDies, TasksOK, TaskStates
  <2>2. GhostsOK'
    BY <1>4, FaultTypes DEF WorkerDies, Kinds
  <2> QED
    BY <1>4, <2>1, <2>2 DEF WorkerDies, PaymentsOK, DocsOK, LocalsOK
<1> QED
  BY <1>1, <1>2, <1>3, <1>4 DEF Renewal

LEMMA CustomerTypes ==
  ASSUME TypeOK, Customer
  PROVE  TypeOK'
<1> USE DEF TypeOK, docVars, taskVars, reqVars, ghostVars, payVars
<1>1. CASE \E o \in Offers : GeneratePaymentLink(o)
  <2>1. \A o \in Offers : [plan |-> o.plan, interval |-> o.interval,
                           autoRenew |-> o.autoRenew, app |-> TRUE] \in Links
    BY ConstantsAssumption DEF Links
  <2>2. link' \in Links \cup {None}
    BY <1>1, <2>1 DEF GeneratePaymentLink, InitializeTransaction, PaymentsOK
  <2> QED
    BY <1>1, <2>2 DEF GeneratePaymentLink, PaymentsOK, DocsOK, TasksOK, LocalsOK, GhostsOK
<1>2. CASE \E app \in BOOLEAN : GenerateLinkToAddCard(app)
  <2>1. \A app \in BOOLEAN : [plan |-> None, interval |-> "monthly",
                              autoRenew |-> FALSE, app |-> app] \in Links
    BY DEF Links, Frequencies
  <2>2. link' \in Links \cup {None}
    BY <1>2, <2>1 DEF GenerateLinkToAddCard, InitializeTransaction, PaymentsOK
  <2> QED
    BY <1>2, <2>2 DEF GenerateLinkToAddCard, PaymentsOK, DocsOK, TasksOK, LocalsOK, GhostsOK
<1>3. CASE \E f \in Refs, s \in Signatures : Pay(f, s)
  <2>1. PICK f \in Refs, s \in Signatures : Pay(f, s)
    BY <1>3
  <2>2. [plan |-> link.plan, interval |-> link.interval, autoRenew |-> link.autoRenew,
         app |-> link.app, sig |-> s] \in Payments
    BY <2>1 DEF Pay, PaymentsOK, Links, Payments
  <2>3. PaymentsOK'
    BY <2>1, <2>2 DEF Pay, PaymentsOK
  <2> QED
    BY <2>1, <2>3 DEF Pay, DocsOK, TasksOK, LocalsOK, GhostsOK
<1>4. CASE \E c \in cards : ChooseCard(c)
  BY <1>4 DEF ChooseCard, PaymentsOK, DocsOK, TasksOK, LocalsOK, GhostsOK
<1> QED
  BY <1>1, <1>2, <1>3, <1>4 DEF Customer

LEMMA TypeStep ==
  ASSUME TypeOK, Owned, [Next]_vars
  PROVE  TypeOK'
<1>1. CASE UNCHANGED vars
  BY <1>1 DEF TypeOK, vars, docVars, taskVars, reqVars, ghostVars, payVars, PaymentsOK, DocsOK,
     TasksOK, LocalsOK, GhostsOK
<1> QED
  BY <1>1, WebhookTypes, TasksTypes, CustomerTypes DEF Next

(***************************************************************************)
(* What no step takes back.                                                *)
(***************************************************************************)
Grows ==
  /\ \A f \in Refs : /\ paid[f] # None => paid'[f] = paid[f]
                     /\ trx[f] <= trx'[f] /\ refunds[f] <= refunds'[f]
  /\ faults \subseteq faults' /\ (overlapped => overlapped')
  /\ DOMAIN subs \subseteq DOMAIN subs'

LEMMA GrowStep ==
  ASSUME TypeOK, TypeOK', [Next]_vars
  PROVE  Grows
<1> USE DEF TypeOK, PaymentsOK, DocsOK, payVars, docVars, taskVars, reqVars, ghostVars
<1>1. \A f \in Refs : paid[f] # None => paid'[f] = paid[f]
  <2>1. CASE UNCHANGED paid
    BY <2>1
  <2>2. CASE \E f \in Refs, s \in Signatures : Pay(f, s)
    BY <2>2 DEF Pay
  <2>3. CASE \E t \in Tasks : ChargeCard(t)
    BY <2>3 DEF ChargeCard, ChargeAuthorization
  <2> QED
    BY <2>1, <2>2, <2>3 DEF Next, vars, Customer, GeneratePaymentLink, GenerateLinkToAddCard, ChooseCard,
       Webhook, Deliver, CountTransactions, FindPlan, FindActiveSub, CreateSubscription,
       UpdateSubscription, CreateTransaction, FindWorkspace, SaveCards, SetAppCard, Refund,
       EnqueueRenewal, RequestDies, Renewal, StartRenewal, FindCard, FindSub, FinishRenewal,
       WorkerDies
<1>2. \A f \in Refs : trx[f] <= trx'[f]
  <2>1. CASE UNCHANGED trx
    BY <2>1
  <2>2. CASE \E r \in Requests : CreateTransaction(r)
    BY <2>2 DEF CreateTransaction
  <2> QED
    BY <2>1, <2>2 DEF Next, vars, Customer, GeneratePaymentLink, GenerateLinkToAddCard, Pay,
       ChooseCard, Webhook, Deliver, CountTransactions, FindPlan, FindActiveSub,
       CreateSubscription, UpdateSubscription, FindWorkspace, SaveCards, SetAppCard, Refund,
       EnqueueRenewal, RequestDies, Renewal, StartRenewal, FindCard, FindSub, ChargeCard,
       FinishRenewal, WorkerDies, taskOnly
<1>3. \A f \in Refs : refunds[f] <= refunds'[f]
  <2>1. CASE UNCHANGED refunds
    BY <2>1
  <2>2. CASE \E r \in Requests : Refund(r)
    BY <2>2 DEF Refund, ReverseTransaction
  <2> QED
    BY <2>1, <2>2 DEF Next, vars, Customer, GeneratePaymentLink, GenerateLinkToAddCard, Pay,
       ChooseCard, Webhook, Deliver, CountTransactions, FindPlan, FindActiveSub,
       CreateSubscription, UpdateSubscription, CreateTransaction, FindWorkspace, SaveCards,
       SetAppCard, EnqueueRenewal, RequestDies, Renewal, StartRenewal, FindCard, FindSub,
       ChargeCard, FinishRenewal, WorkerDies, taskOnly
<1>4. DOMAIN subs \subseteq DOMAIN subs'
  <2>1. CASE UNCHANGED subs
    BY <2>1
  <2>2. CASE \E r \in Requests : CreateSubscription(r) \/ UpdateSubscription(r)
    BY <2>2 DEF CreateSubscription, UpdateSubscription
  <2> QED
    BY <2>1, <2>2 DEF Next, vars, Customer, GeneratePaymentLink, GenerateLinkToAddCard, Pay,
       ChooseCard, Webhook, Deliver, CountTransactions, FindPlan, FindActiveSub,
       CreateTransaction, FindWorkspace, SaveCards, SetAppCard, Refund, EnqueueRenewal,
       RequestDies, Renewal, StartRenewal, FindCard, FindSub, ChargeCard, FinishRenewal,
       WorkerDies, taskOnly
<1>5. faults \subseteq faults'
  <2>1. CASE UNCHANGED vars \/ Customer
    BY <2>1 DEF vars, ghostVars, Customer, GeneratePaymentLink, GenerateLinkToAddCard, Pay, ChooseCard
  <2>2. CASE \E r \in Requests : Webhook(r)
    BY <2>2 DEF Webhook, Deliver, CountTransactions, FindPlan, FindActiveSub, CreateSubscription,
       UpdateSubscription, CreateTransaction, FindWorkspace, SaveCards, SetAppCard, Refund,
       ReverseTransaction, EnqueueRenewal, Enqueue, RequestDies, Fine, Fault
  <2>3. CASE \E t \in Tasks : Renewal(t)
    BY <2>3 DEF Renewal, StartRenewal, FindCard, FindSub, ChargeCard, FinishRenewal, WorkerDies,
       Enqueue, Fine, Fault, taskOnly
  <2> QED
    BY <2>1, <2>2, <2>3 DEF Next
<1>6. overlapped => overlapped'
  <2>1. CASE overlapped' = overlapped
    BY <2>1
  <2>2. CASE \E r \in Requests : \E f \in Refs : Deliver(r, f)
    BY <2>2, Zenon DEF Deliver
  <2> QED
    BY <2>1, <2>2 DEF Next, vars, Customer, GeneratePaymentLink, GenerateLinkToAddCard, Pay,
       ChooseCard, Webhook, CountTransactions, FindPlan, FindActiveSub, CreateSubscription,
       UpdateSubscription, CreateTransaction, FindWorkspace, SaveCards, SetAppCard, Refund,
       EnqueueRenewal, RequestDies, Renewal, StartRenewal, FindCard, FindSub, ChargeCard,
       FinishRenewal, WorkerDies, taskOnly
<1> QED
  BY <1>1, <1>2, <1>3, <1>4, <1>5, <1>6 DEF Grows

(***************************************************************************)
(* What handlers and tasks are sure of.                                    *)
(***************************************************************************)
LEMMA OtherKept ==
  ASSUME TypeOK, TypeOK', NEW s \in Requests, RequestOK(s), Same(s), Grows
  PROVE  RequestOK(s)'
<1>1. ref[s] \in Refs => /\ paid[ref[s]] # None => paid'[ref[s]] = paid[ref[s]]
                         /\ trx[ref[s]] > 0 => trx'[ref[s]] > 0
  BY DEF TypeOK, DocsOK, Grows
<1> QED
  BY <1>1 DEF RequestOK, Same, Grows, Reverse, Charge, Past

LEMMA OwnKept ==
  ASSUME TypeOK, TypeOK', Owned, Grows, NEW r \in Requests, Webhook(r)
  PROVE  RequestOK(r)'
<1>0. /\ RequestOK(r) /\ LocalsOK /\ LocalsOK'
      /\ ref[r] \in Refs /\ paid[ref[r]] # None => paid'[ref[r]] = paid[ref[r]]
  BY DEF Owned, TypeOK, Grows
<1> USE <1>0 DEF Past
<1>1. CASE \E f \in Refs : Deliver(r, f)
  <2>1. PICK f \in Refs : Deliver(r, f)
    BY <1>1
  <2>2. pc'[r] = "count" /\ ref'[r] = f /\ paid'[f] # None /\ pc[r] = "idle" /\ old' = old
    BY <2>1 DEF Deliver, VerifyTransaction, LocalsOK, Goto, payVars
  <2> QED
    BY <2>2 DEF RequestOK
<1>2. CASE Ended(r)
  <2>1. pc'[r] = "idle" /\ ref'[r] = None /\ old'[r] = 0
    BY <1>2 DEF Ended, Goto, LocalsOK
  <2> QED
    BY <2>1 DEF RequestOK
<1>3. CASE CountTransactions(r) /\ ~Ended(r)
  <2>1. /\ pc[r] = "count" /\ pc'[r] = IF Reverse(r) THEN "record" ELSE "plan"
        /\ UNCHANGED <<ref, paid, old>>
    BY <1>3 DEF CountTransactions, Answered, Goto, LocalsOK
  <2> QED
    BY <2>1 DEF RequestOK, Reverse, Charge
<1>4. CASE FindPlan(r)
  <2>1. /\ pc[r] = "plan" /\ pc'[r] = "sub" /\ UNCHANGED <<ref, paid, old>>
        /\ (plan'[r] \/ "plan" \in faults')
    BY <1>4 DEF FindPlan, Fault, Goto, LocalsOK, payVars
  <2> QED
    BY <2>1 DEF RequestOK, Reverse, Charge
<1>5. CASE FindActiveSub(r)
  <2>1. pc[r] = "sub" /\ pc'[r] = "writeSub" /\ UNCHANGED <<ref, paid, plan, subs>>
    BY <1>5 DEF FindActiveSub, Goto, LocalsOK, payVars, docVars
  <2>2. old'[r] = old[r] \/ (old'[r] = 1 /\ subs # <<>>)
    BY <1>5 DEF FindActiveSub, LocalsOK
  <2> QED
    BY <2>1, <2>2, FirstSub DEF RequestOK, Reverse, Charge, Grows, TypeOK
<1>6. CASE (CreateSubscription(r) \/ UpdateSubscription(r)) /\ ~Ended(r)
  <2>1. pc[r] = "writeSub" /\ pc'[r] = "record" /\ UNCHANGED <<ref, paid>>
    BY <1>6 DEF CreateSubscription, UpdateSubscription, Goto, LocalsOK, payVars
  <2> QED
    BY <2>1 DEF RequestOK
<1>7. CASE CreateTransaction(r)
  <2>1. /\ pc[r] = "record" /\ pc'[r] = "workspace" /\ UNCHANGED <<ref, paid>>
        /\ trx'[ref[r]] = trx[ref[r]] + 1 \/ "insert" \in faults'
    BY <1>7 DEF CreateTransaction, Fault, Goto, LocalsOK, payVars, TypeOK, DocsOK, RequestOK
  <2> QED
    BY <2>1 DEF RequestOK, TypeOK, DocsOK
<1>8. CASE (FindWorkspace(r) \/ SetAppCard(r)) /\ ~Ended(r)
  <2>1. pc[r] \in Past /\ pc'[r] \in Past \ {"appCard"} /\ UNCHANGED <<ref, paid, trx>>
    BY <1>8 DEF FindWorkspace, SetAppCard, Goto, LocalsOK, payVars, docVars
  <2> QED
    BY <2>1 DEF RequestOK, Grows
<1>9. CASE SaveCards(r)
  <2>1. pc[r] = "saveCards" /\ pc'[r] = "appCard" /\ UNCHANGED <<ref, paid, trx>>
    BY <1>9 DEF SaveCards, Goto, LocalsOK, payVars
  <2>2. card'[r] \in CardInfo
    <3>1. CASE \E c \in WithSignature(r) : card' = [card EXCEPT ![r] = c]
      BY <3>1 DEF WithSignature, LocalsOK
    <3>2. CASE /\ nextCard <= MaxCards
               /\ card' = [card EXCEPT ![r] = [id |-> nextCard, sig |-> Charge(r).sig]]
      <4>1. Charge(r).sig \in Signatures
        BY <2>1, ChargeTypes DEF Payments
      <4>2. nextCard \in 1..MaxCards
        BY <3>2, ConstantsAssumption DEF TypeOK, DocsOK
      <4> QED
        BY <3>2, <4>1, <4>2 DEF CardInfo, LocalsOK
    <3> QED
      BY <1>9, <3>1, <3>2 DEF SaveCards
  <2> QED
    BY <2>1, <2>2 DEF RequestOK, Grows
<1>10. CASE Refund(r) \/ EnqueueRenewal(r) \/ RequestDies(r)
  BY <1>2, <1>10 DEF Refund, EnqueueRenewal, RequestDies, Answered
<1> QED
  BY <1>1, <1>2, <1>3, <1>4, <1>5, <1>6, <1>7, <1>8, <1>9, <1>10 DEF Webhook

\* The locals of a delivery change only in its own steps.
LEMMA OnlyWebhooks ==
  ASSUME [Next]_vars, ~\E r \in Requests : Webhook(r)
  PROVE  UNCHANGED <<reqVars, trx, refunds, acked, subs, cards, nextCard, overlapped>>
BY DEF Next, vars, Customer, GeneratePaymentLink, GenerateLinkToAddCard, Pay, ChooseCard, Renewal,
   StartRenewal, FindCard, FindSub, ChargeCard, FinishRenewal, WorkerDies, taskOnly, docVars, payVars, ghostVars

LEMMA TaskKept ==
  ASSUME TypeOK, NEW t \in Tasks, TaskOK(t), Renewal(t)
  PROVE  TaskOK(t)' /\ \A u \in Tasks \ {t} : UNCHANGED <<task[u], tLocal[u], charges[u]>>
<1> USE DEF TypeOK, TasksOK, TaskOK, Step, Retry, SkipRetry
<1>1. CASE StartRenewal(t)
  BY <1>1 DEF StartRenewal, DocsOK
<1>2. CASE FindCard(t)
  BY <1>2 DEF FindCard
<1>3. CASE FindSub(t)
  <2>1. subs # <<>> => subs[1].plan \in Plans /\ subs[1].interval \in Frequencies
    BY FirstSub DEF Subs
  <2>2. tLocal[t].sig \in Signatures
    BY <1>3 DEF FindSub, CardInfo
  <2>3. subs # <<>> => [plan |-> subs[1].plan, interval |-> subs[1].interval,
                        autoRenew |-> TRUE, app |-> TRUE, sig |-> tLocal[t].sig] \in Payments
    BY <2>1, <2>2 DEF Payments
  <2> QED
    BY <1>3, <2>3 DEF FindSub
<1>4. CASE ChargeCard(t)
  BY <1>4 DEF ChargeCard
<1>5. CASE FinishRenewal(t) \/ WorkerDies(t)
  BY <1>5 DEF FinishRenewal, WorkerDies
<1> QED
  BY <1>1, <1>2, <1>3, <1>4, <1>5 DEF Renewal

\* Other steps only queue tasks.
Queues == /\ UNCHANGED <<tLocal, charges>>
          /\ \/ UNCHANGED task
             \/ \E t \in Tasks : task[t] = "none" /\ task' = [task EXCEPT ![t] = "queued"]

LEMMA OnlyQueued ==
  ASSUME [Next]_vars, ~\E t \in Tasks : Renewal(t)
  PROVE  Queues
<1> USE DEF taskVars
<1>1. CASE \E r \in Requests : EnqueueRenewal(r)
  BY <1>1 DEF EnqueueRenewal, Enqueue, Queues
<1>2. CASE UNCHANGED taskVars
  BY <1>2 DEF Queues
<1> QED
  BY <1>1, <1>2 DEF Next, vars, Customer, GeneratePaymentLink, GenerateLinkToAddCard, Pay,
     ChooseCard, Webhook, Deliver, CountTransactions, FindPlan, FindActiveSub, CreateSubscription,
     UpdateSubscription, CreateTransaction, FindWorkspace, SaveCards, SetAppCard, Refund,
     RequestDies

LEMMA OwnedStep ==
  ASSUME TypeOK, TypeOK', Owned, [Next]_vars
  PROVE  Owned'
<1>1. Grows
  BY GrowStep
<1>2. ASSUME NEW s \in Requests PROVE RequestOK(s)'
  <2>1. RequestOK(s)
    BY DEF Owned
  <2>2. CASE Webhook(s)
    BY <1>1, <2>2, OwnKept
  <2>3. CASE ~Webhook(s)
    <3>1. Same(s)
      BY <2>3, OthersSame, OnlyWebhooks DEF Same, reqVars, TypeOK
    <3> QED
      BY <1>1, <2>1, <3>1, OtherKept
  <2> QED
    BY <2>2, <2>3
<1>3. ASSUME NEW t \in Tasks PROVE TaskOK(t)'
  <2>0. TaskOK(t)
    BY DEF Owned
  <2>1. CASE Renewal(t)
    BY <2>0, <2>1, TaskKept
  <2>2. CASE ~Renewal(t) /\ \E u \in Tasks : Renewal(u)
    <3>1. PICK u \in Tasks : Renewal(u) /\ u # t
      BY <2>2
    <3>2. UNCHANGED <<task[t], tLocal[t]>>
      BY <3>1, TaskKept DEF Owned
    <3> QED
      BY <2>0, <3>2 DEF TaskOK
  <2>3. CASE ~\E u \in Tasks : Renewal(u)
    <3>1. Queues
      BY <2>3, OnlyQueued
    <3> QED
      BY <2>0, <3>1 DEF Queues, TaskOK, TypeOK, TasksOK
  <2> QED
    BY <2>1, <2>2, <2>3
<1> QED
  BY <1>2, <1>3 DEF Owned

(***************************************************************************)
(* The path of one delivery.                                               *)
(***************************************************************************)
Path(r) ==
  /\ pc[r] = "idle" => /\ pc'[r] = "count"
                       /\ overlapped' = (overlapped \/ \E q \in Requests \ {r} : pc[q] # "idle")
  /\ pc[r] # "idle" => (Ended(r) \/ ref'[r] = ref[r]) /\ overlapped' = overlapped
  /\ pc'[r] \in Before =>
       /\ ref'[r] = ref[r]
       /\ \/ pc[r] \in Before
          \/ pc[r] = "count" /\ (trx[ref[r]] = 0 \/ "count" \in faults')
  /\ pc'[r] \in Past => ref'[r] = ref[r] /\ (pc[r] \in Past \/ CreateTransaction(r))
  /\ trx' = trx \/ (CreateTransaction(r) /\ trx' = [trx EXCEPT ![ref[r]] = @ + 1])

LEMMA PathTaken ==
  ASSUME TypeOK, NEW r \in Requests, Webhook(r)
  PROVE  Path(r)
<1> USE DEF Path, Before, Past, LocalsOK, Goto, docVars
<1>0. LocalsOK
  BY DEF TypeOK
<1>10. Ended(r) => pc'[r] = "idle"
  BY <1>0 DEF Ended
<1>1. CASE \E f \in Refs : Deliver(r, f)
  <2>1. pc[r] = "idle" /\ pc'[r] = "count" /\ trx' = trx
    BY <1>0, <1>1 DEF Deliver
  <2>2. overlapped' = (overlapped \/ \E q \in Requests \ {r} : pc[q] # "idle")
    BY <1>1 DEF Deliver
  <2> QED
    BY <2>1, <2>2
<1>2. CASE CountTransactions(r)
  BY <1>0, <1>10, <1>2 DEF CountTransactions, Answered, Fault
<1>3. CASE FindPlan(r) \/ FindActiveSub(r)
  BY <1>0, <1>3 DEF FindPlan, FindActiveSub
<1>4. CASE CreateSubscription(r) \/ UpdateSubscription(r)
  BY <1>0, <1>10, <1>4 DEF CreateSubscription, UpdateSubscription
<1>5. CASE CreateTransaction(r)
  BY <1>0, <1>5 DEF CreateTransaction
<1>6. CASE FindWorkspace(r)
  BY <1>0, <1>10, <1>6 DEF FindWorkspace
<1>7. CASE SaveCards(r) \/ SetAppCard(r)
  BY <1>0, <1>7 DEF SaveCards, SetAppCard
<1>8. CASE Refund(r) \/ EnqueueRenewal(r) \/ RequestDies(r)
  BY <1>0, <1>10, <1>8 DEF Refund, EnqueueRenewal, RequestDies, Answered
<1> QED
  BY <1>1, <1>2, <1>3, <1>4, <1>5, <1>6, <1>7, <1>8 DEF Webhook

\* A handler that ends leaves a recorded charge, or a failure that tells.
LEMMA EndsExplained ==
  ASSUME TypeOK, Owned, NEW r \in Requests, Webhook(r), Ended(r)
  PROVE  trx[ref[r]] > 0 \/ faults' \cap {"plan", "insert", "died"} # {}
<1>0. RequestOK(r) /\ pc'[r] = "idle"
  BY DEF Owned, Ended, Goto, TypeOK, LocalsOK
<1> USE <1>0 DEF RequestOK, Fault, Fine
<1>1. CASE \E f \in Refs : Deliver(r, f)
  BY <1>1 DEF Deliver, Goto, TypeOK, LocalsOK
<1>2. CASE CountTransactions(r)
  <2>1. trx[ref[r]] # 0
    BY <1>2 DEF CountTransactions, Goto, TypeOK, LocalsOK
  <2> QED
    BY <1>2, <2>1 DEF CountTransactions, TypeOK, DocsOK
<1>3. CASE FindPlan(r) \/ FindActiveSub(r) \/ CreateTransaction(r) \/ SaveCards(r) \/ SetAppCard(r)
  BY <1>3 DEF FindPlan, FindActiveSub, CreateTransaction, SaveCards, SetAppCard, Goto, TypeOK, LocalsOK
<1>4. CASE CreateSubscription(r) \/ UpdateSubscription(r)
  BY <1>4 DEF CreateSubscription, UpdateSubscription, Goto, TypeOK, LocalsOK
<1>5. CASE FindWorkspace(r) \/ RequestDies(r)
  BY <1>5 DEF FindWorkspace, RequestDies, Goto, TypeOK, LocalsOK
<1>6. CASE Refund(r) \/ EnqueueRenewal(r)
  <2>1. pc[r] \in Past /\ faults \subseteq faults'
    BY <1>6 DEF Refund, EnqueueRenewal, ReverseTransaction, Enqueue, Past
  <2> QED
    BY <2>1
<1> QED
  BY <1>1, <1>2, <1>3, <1>4, <1>5, <1>6 DEF Webhook

\* One delivery at a time: the others rest.
LEMMA OthersRest ==
  ASSUME TypeOK, Alone, NEW r \in Requests, Webhook(r), ~overlapped'
  PROVE  ~overlapped /\ \A s \in Requests \ {r} : pc[s] = "idle" /\ Same(s)
<1>1. Path(r) /\ \A s \in Requests \ {r} : Same(s)
  BY PathTaken, OthersSame DEF TypeOK
<1>2. ~overlapped
  BY <1>1 DEF Path
<1>3. \A s \in Requests \ {r} : pc[s] = "idle"
  BY <1>1, <1>2 DEF Path, Alone
<1> QED
  BY <1>1, <1>2, <1>3

LEMMA AloneStep ==
  ASSUME TypeOK, Alone, [Next]_vars
  PROVE  Alone'
<1>1. SUFFICES ASSUME ~overlapped', NEW r \in Requests, NEW q \in Requests,
                      pc'[r] # "idle", pc'[q] # "idle"
               PROVE  r = q
  BY DEF Alone
<1>2. CASE \E s \in Requests : Webhook(s)
  BY <1>1, <1>2, OthersRest DEF Same
<1>3. CASE ~\E s \in Requests : Webhook(s)
  BY <1>1, <1>3, OnlyWebhooks DEF Alone, reqVars
<1> QED
  BY <1>2, <1>3

(***************************************************************************)
(* Subscriptions were paid for.                                            *)
(***************************************************************************)
Explains(i, f) ==
  /\ paid[f] # None
  /\ subs[i] = [plan |-> paid[f].plan, interval |-> paid[f].interval,
                autoRenew |-> paid[f].autoRenew]
  /\ trx[f] > 0 \/ Handled(f) \/ faults \cap {"plan", "insert", "died"} # {}

LEMMA StillExplains ==
  ASSUME TypeOK, TypeOK', Owned, [Next]_vars, NEW i \in DOMAIN subs, NEW f \in Refs,
         Explains(i, f), subs'[i] = subs[i]
  PROVE  Explains(i, f)'
<1>1. Grows
  BY GrowStep
<1>2. trx[f] > 0 => trx'[f] > 0
  BY <1>1 DEF Grows, TypeOK, DocsOK
<1>3. paid'[f] = paid[f]
  BY <1>1 DEF Grows, Explains
<1>4. faults \cap {"plan", "insert", "died"} # {} => faults' \cap {"plan", "insert", "died"} # {}
  BY <1>1 DEF Grows
<1>5. CASE Handled(f)
  <2>1. PICK r \in Requests : ref[r] = f
    BY <1>5 DEF Handled
  <2>2. pc[r] # "idle"
    BY <2>1, NoneIsNone DEF Owned, RequestOK
  <2>3. CASE Webhook(r)
    <3>1. Ended(r) \/ ref'[r] = ref[r]
      BY <2>2, <2>3, PathTaken DEF Path
    <3>2. Ended(r) => trx[f] > 0 \/ faults' \cap {"plan", "insert", "died"} # {}
      BY <2>1, <2>3, EndsExplained
    <3> QED
      BY <1>2, <1>3, <2>1, <3>1, <3>2 DEF Explains, Handled
  <2>4. CASE ~Webhook(r)
    <3>1. ref'[r] = ref[r]
      BY <2>4, OthersSame, OnlyWebhooks DEF Same, reqVars, TypeOK
    <3> QED
      BY <1>3, <2>1, <3>1 DEF Explains, Handled
  <2> QED
    BY <2>3, <2>4
<1> QED
  BY <1>2, <1>3, <1>4, <1>5 DEF Explains

\* A subscription is written only by its charge.
LEMMA WrittenByCharge ==
  ASSUME TypeOK, TypeOK', Owned, [Next]_vars, NEW i \in DOMAIN subs',
         ~(i \in DOMAIN subs /\ subs'[i] = subs[i])
  PROVE  \E f \in Refs : Explains(i, f)'
<1>1. PICK r \in Requests : CreateSubscription(r) \/ UpdateSubscription(r)
  BY DEF Next, vars, Customer, GeneratePaymentLink, GenerateLinkToAddCard, Pay, ChooseCard, Webhook,
     Deliver, CountTransactions, FindPlan, FindActiveSub, CreateTransaction, FindWorkspace,
     SaveCards, SetAppCard, Refund, EnqueueRenewal, RequestDies, Renewal, StartRenewal, FindCard,
     FindSub, ChargeCard, FinishRenewal, WorkerDies, taskOnly, docVars, payVars, taskVars
<1>2. /\ RequestOK(r) /\ pc[r] = "writeSub" /\ ref[r] \in Refs /\ paid[ref[r]] # None
      /\ paid' = paid
  BY <1>1 DEF CreateSubscription, UpdateSubscription, Owned, RequestOK, payVars
<1>3. subs'[i] = PaidSub(r)
  <2>1. pc[r] # "idle" /\ ~Reverse(r)
    BY <1>2 DEF RequestOK
  <2>2. PaidSub(r) \in Subs
    BY <2>1, ChargeTypes
  <2> QED
    BY <1>1, <2>2, SubsWritten DEF TypeOK, DocsOK
<1>4. Ended(r) \/ ref'[r] = ref[r]
  BY <1>1 DEF CreateSubscription, UpdateSubscription
<1>5. Ended(r) => trx[ref[r]] > 0 \/ faults' \cap {"plan", "insert", "died"} # {}
  BY <1>1, EndsExplained DEF Webhook
<1>6. trx' = trx
  BY <1>1 DEF CreateSubscription, UpdateSubscription
<1> QED
  BY <1>2, <1>3, <1>4, <1>5, <1>6 DEF Explains, Handled, PaidSub, Charge

LEMMA PaidStep ==
  ASSUME TypeOK, TypeOK', Owned, SubscriptionWasPaid, [Next]_vars
  PROVE  SubscriptionWasPaid'
<1>1. \A i \in DOMAIN subs : \E f \in Refs : Explains(i, f)
  BY DEF SubscriptionWasPaid, Explains
<1>2. ASSUME NEW i \in DOMAIN subs' PROVE \E f \in Refs : Explains(i, f)'
  BY <1>1, <1>2, StillExplains, WrittenByCharge
<1> QED
  BY <1>2 DEF SubscriptionWasPaid, Explains

(***************************************************************************)
(* Charges that were recorded or answered.                                 *)
(***************************************************************************)
SettledAt(f) ==
  /\ f \in acked => trx[f] > 0 \/ "insert" \in faults
  /\ trx[f] > 0 \/ f \in acked =>
       /\ paid[f] # None
       /\ \/ paid[f].plan # None \/ refunds[f] > 0 \/ Settling(f)
          \/ faults \cap {"refund", "died"} # {}

\* How a delivery gets to the two.
LEMMA AckedBy ==
  ASSUME TypeOK, Owned, NEW r \in Requests, Webhook(r), NEW f \in acked', f \notin acked
  PROVE  /\ f = ref[r] /\ f \in Refs /\ paid[f] # None
         /\ trx[f] > 0 \/ pc[r] \in Past
<1>1. CountTransactions(r) \/ Refund(r) \/ EnqueueRenewal(r)
  BY DEF Webhook, Deliver, FindPlan, FindActiveSub, CreateSubscription, UpdateSubscription,
     CreateTransaction, FindWorkspace, SaveCards, SetAppCard, RequestDies, payVars
<1>2. f = ref[r]
  BY <1>1 DEF CountTransactions, Refund, EnqueueRenewal, Answered
<1>3. pc[r] # "idle"
  BY <1>1 DEF CountTransactions, Refund, EnqueueRenewal
<1>4. f \in Refs /\ paid[f] # None
  BY <1>2, <1>3 DEF Owned, RequestOK
<1>5. CASE CountTransactions(r)
  BY <1>2, <1>4, <1>5 DEF CountTransactions, TypeOK, DocsOK
<1>6. CASE Refund(r) \/ EnqueueRenewal(r)
  BY <1>2, <1>4, <1>6 DEF Refund, EnqueueRenewal, Past
<1> QED
  BY <1>1, <1>2, <1>4, <1>5, <1>6

LEMMA LeavesSettled ==
  ASSUME TypeOK, TypeOK', Owned, NEW r \in Requests, Webhook(r), pc[r] \in Past, pc'[r] \notin Past
  PROVE  \/ paid[ref[r]].plan # None \/ refunds'[ref[r]] > 0
         \/ faults' \cap {"refund", "died"} # {}
<1>1. FindWorkspace(r) \/ SaveCards(r) \/ SetAppCard(r) \/ Refund(r) \/ EnqueueRenewal(r) \/ RequestDies(r)
  BY DEF Past, Webhook, Deliver, CountTransactions, FindPlan, FindActiveSub, CreateSubscription,
     UpdateSubscription, CreateTransaction
<1>2. CASE FindWorkspace(r) \/ SaveCards(r) \/ SetAppCard(r) \/ RequestDies(r)
  BY <1>2 DEF FindWorkspace, SaveCards, SetAppCard, RequestDies, Fault, Past, Goto, TypeOK, LocalsOK
<1>3. CASE EnqueueRenewal(r)
  BY <1>3 DEF EnqueueRenewal, Reverse, Charge
<1>4. CASE Refund(r)
  <2>1. ref[r] \in Refs
    BY DEF Owned, RequestOK, Past
  <2> QED
    BY <1>4, <2>1 DEF Refund, ReverseTransaction, Fault, TypeOK, PaymentsOK
<1> QED
  BY <1>1, <1>2, <1>3, <1>4

LEMMA SettledStep ==
  ASSUME TypeOK, TypeOK', Owned, Owned', Settled, [Next]_vars
  PROVE  Settled'
<1>1. Grows
  BY GrowStep
<1>2. SUFFICES ASSUME NEW f \in Refs PROVE SettledAt(f)'
  BY DEF Settled, SettledAt
<1>3. SettledAt(f)
  BY DEF Settled, SettledAt
<1>4. /\ trx[f] > 0 => trx'[f] > 0
      /\ refunds[f] > 0 => refunds'[f] > 0
      /\ paid[f] # None => paid'[f] = paid[f]
      /\ faults \subseteq faults'
  BY <1>1 DEF Grows, TypeOK, DocsOK, PaymentsOK
<1>5. CASE ~\E r \in Requests : Webhook(r)
  BY <1>3, <1>4, <1>5, OnlyWebhooks DEF SettledAt, Settling, reqVars
<1>6. CASE \E r \in Requests : Webhook(r)
  <2>1. PICK r \in Requests : Webhook(r)
    BY <1>6
  <2>2. Path(r) /\ \A s \in Requests \ {r} : Same(s)
    BY <2>1, PathTaken, OthersSame DEF TypeOK
  <2>3. f \in acked' => trx'[f] > 0 \/ "insert" \in faults'
    <3>1. CASE f \in acked
      BY <1>3, <1>4, <3>1 DEF SettledAt
    <3>2. CASE f \in acked' /\ f \notin acked
      <4>1. f = ref[r] /\ (trx[f] > 0 \/ pc[r] \in Past)
        BY <2>1, <3>2, AckedBy
      <4> QED
        BY <1>4, <4>1 DEF Owned, RequestOK
    <3> QED
      BY <3>1, <3>2
  <2>4. Settling(f) => \/ Settling(f)' \/ paid[f].plan # None \/ refunds'[f] > 0
                       \/ faults' \cap {"refund", "died"} # {}
    <3>1. ASSUME NEW s \in Requests, pc[s] \in Past, ref[s] = f
          PROVE  \/ Settling(f)' \/ paid[f].plan # None \/ refunds'[f] > 0
                 \/ faults' \cap {"refund", "died"} # {}
      <4>1. CASE s # r
        BY <2>2, <3>1, <4>1 DEF Same, Settling
      <4>2. CASE s = r /\ pc'[r] \in Past
        BY <2>2, <3>1, <4>2 DEF Path, Settling
      <4>3. CASE s = r /\ pc'[r] \notin Past
        BY <2>1, <3>1, <4>3, LeavesSettled
      <4> QED
        BY <4>1, <4>2, <4>3
    <3> QED
      BY <3>1 DEF Settling
  <2>5. ASSUME trx'[f] > 0 \/ f \in acked', ~(trx[f] > 0 \/ f \in acked)
        PROVE  /\ paid[f] # None
               /\ \/ paid[f].plan # None \/ refunds'[f] > 0 \/ Settling(f)'
                  \/ faults' \cap {"refund", "died"} # {}
    <3>1. CASE trx'[f] > 0
      <4>1. CreateTransaction(r) /\ f = ref[r] /\ pc'[r] \in Past
        BY <2>2, <2>5, <3>1 DEF Path, TypeOK, DocsOK, CreateTransaction, Goto, LocalsOK, Past
      <4>2. paid[f] # None
        BY <4>1 DEF CreateTransaction, Owned, RequestOK
      <4>3. Settling(f)'
        BY <2>2, <4>1 DEF Path, Settling
      <4> QED
        BY <4>2, <4>3
    <3>2. CASE f \in acked'
      <4>1. f = ref[r] /\ paid[f] # None /\ pc[r] \in Past
        BY <2>1, <2>5, <3>2, AckedBy
      <4>2. Settling(f)
        BY <4>1 DEF Settling
      <4> QED
        BY <2>4, <4>1, <4>2
    <3> QED
      BY <2>5, <3>1, <3>2
  <2>6. SettledAt(f) => (trx[f] > 0 \/ f \in acked =>
          /\ paid[f] # None
          /\ \/ paid[f].plan # None \/ refunds'[f] > 0 \/ Settling(f)'
             \/ faults' \cap {"refund", "died"} # {})
    BY <1>4, <2>4 DEF SettledAt
  <2>7. trx'[f] > 0 \/ f \in acked' =>
          /\ paid'[f] # None
          /\ \/ paid'[f].plan # None \/ refunds'[f] > 0 \/ Settling(f)'
             \/ faults' \cap {"refund", "died"} # {}
    BY <1>3, <1>4, <2>5, <2>6
  <2> QED
    BY <2>3, <2>7 DEF SettledAt
<1> QED
  BY <1>5, <1>6

(***************************************************************************)
(* Documents of a charge, and handlers that will write one.                *)
(***************************************************************************)
LEMMA RecordingFinite ==
  ASSUME NEW f
  PROVE  /\ IsFiniteSet(Recording(f)) /\ Cardinality(Recording(f)) \in Nat
         /\ Cardinality(Recording(f)) <= N
<1>1. Recording(f) \subseteq Requests
  BY DEF Recording
<1> QED
  BY <1>1, ConstantsAssumption, FS_Subset, FS_CardinalityType DEF N

LEMMA RecordedStep ==
  ASSUME TypeOK, TypeOK', Recorded, [Next]_vars
  PROVE  Recorded'
<1>1. Grows
  BY GrowStep
<1>2. SUFFICES ASSUME "count" \notin faults', NEW f \in Refs
               PROVE  trx'[f] + Cardinality(Recording(f)') <= N
  BY DEF Recorded
<1> DEFINE R == Recording(f)
           RP == Recording(f)'
<1>3. trx[f] + Cardinality(R) <= N
  BY <1>1, <1>2 DEF Grows, Recorded
<1>4. RP \subseteq Requests /\ R \subseteq Requests
  BY DEF Recording
<1>5. /\ IsFiniteSet(RP) /\ Cardinality(RP) \in Nat /\ Cardinality(RP) <= N
      /\ IsFiniteSet(R) /\ Cardinality(R) \in Nat
  BY <1>4, RecordingFinite, ConstantsAssumption, FS_Subset, FS_CardinalityType DEF N
<1>6. trx[f] \in Nat /\ trx'[f] \in Nat /\ N \in Nat
  BY NType DEF TypeOK, DocsOK
<1>7. CASE trx'[f] = trx[f] /\ RP \subseteq R
  <2>1. Cardinality(RP) <= Cardinality(R)
    BY <1>5, <1>7, FS_Subset
  <2> HIDE DEF R, RP
  <2>2. trx'[f] + Cardinality(RP) <= N
    BY <1>3, <1>5, <1>6, <1>7, <2>1
  <2> QED
    BY <2>2 DEF RP
<1>8. CASE ~\E r \in Requests : Webhook(r)
  <2>1. trx'[f] = trx[f] /\ RP = R
    BY <1>8, OnlyWebhooks DEF Recording, reqVars
  <2> QED
    BY <1>7, <2>1
<1>9. CASE \E r \in Requests : Webhook(r)
  <2>1. PICK r \in Requests : Webhook(r)
    BY <1>9
  <2>2. Path(r) /\ \A s \in Requests \ {r} : Same(s)
    BY <2>1, PathTaken, OthersSame DEF TypeOK
  <2>3. CASE CreateTransaction(r) /\ ref[r] = f
    <3>1. pc[r] = "record" /\ pc'[r] = "workspace"
      BY <2>3 DEF CreateTransaction, Goto, TypeOK, LocalsOK
    <3>2. RP \subseteq R \ {r} /\ r \in R
      BY <2>2, <2>3, <3>1 DEF Recording, Before, Same
    <3>3. trx'[f] <= trx[f] + 1
      BY <2>2, <2>3, <1>6 DEF Path, TypeOK, DocsOK
    <3> HIDE DEF R, RP
    <3>4. IsFiniteSet(R \ {r}) /\ Cardinality(R \ {r}) = Cardinality(R) - 1
      BY <1>5, <3>2, FS_RemoveElement
    <3>5. Cardinality(RP) <= Cardinality(R) - 1
      BY <3>2, <3>4, FS_Subset
    <3>6. trx'[f] + Cardinality(RP) <= N
      BY <1>3, <1>5, <1>6, <3>3, <3>5
    <3> QED
      BY <3>6 DEF RP
  <2>4. CASE ~(CreateTransaction(r) /\ ref[r] = f)
    <3>1. trx'[f] = trx[f]
      BY <2>2, <2>4 DEF Path, TypeOK, DocsOK
    <3>2. CASE RP \subseteq R
      BY <1>7, <3>1, <3>2
    <3>3. CASE ~(RP \subseteq R)
      <4>1. PICK s \in RP : s \notin R
        BY <3>3
      <4>2. s = r
        BY <2>2, <4>1 DEF Recording, Same
      <4>3. ref[r] = f /\ trx[ref[r]] = 0
        BY <1>2, <2>2, <4>1, <4>2 DEF Recording, Path
      <4>4. trx'[f] = 0
        BY <3>1, <4>3
      <4> HIDE DEF RP
      <4>5. trx'[f] + Cardinality(RP) <= N
        BY <4>4, <1>5, <1>6
      <4> QED
        BY <4>5 DEF RP
    <3> QED
      BY <3>2, <3>3
  <2> QED
    BY <2>3, <2>4
<1> QED
  BY <1>8, <1>9

(***************************************************************************)
(* One delivery at a time.                                                 *)
(***************************************************************************)
LEMMA StillNewStep ==
  ASSUME TypeOK, TypeOK', Alone, StillNew, [Next]_vars
  PROVE  StillNew'
<1>1. SUFFICES ASSUME ~overlapped', "count" \notin faults', NEW s \in Requests, pc'[s] \in Before
               PROVE  trx'[ref'[s]] = 0
  BY DEF StillNew
<1>2. ~overlapped /\ "count" \notin faults
  BY <1>1, GrowStep DEF Grows
<1>3. CASE ~\E r \in Requests : Webhook(r)
  BY <1>1, <1>2, <1>3, OnlyWebhooks DEF StillNew, reqVars
<1>4. CASE \E r \in Requests : Webhook(r)
  <2>1. PICK r \in Requests : Webhook(r)
    BY <1>4
  <2>2. Path(r) /\ \A q \in Requests \ {r} : pc[q] = "idle" /\ Same(q)
    BY <1>1, <2>1, PathTaken, OthersRest DEF TypeOK
  <2>3. s = r
    BY <1>1, <2>2 DEF Same, Before
  <2>4. trx[ref[r]] = 0 /\ ref'[r] = ref[r]
    BY <1>1, <1>2, <2>2, <2>3 DEF Path, StillNew
  <2>5. ~CreateTransaction(r)
    BY <1>1, <2>3 DEF CreateTransaction, Goto, TypeOK, LocalsOK, Before
  <2>6. trx' = trx
    BY <2>2, <2>5 DEF Path
  <2> QED
    BY <2>3, <2>4, <2>6
<1> QED
  BY <1>3, <1>4

CalmFacts ==
  /\ \A f \in Refs : trx[f] <= 1 /\ refunds[f] <= trx[f]
  /\ Len(subs) <= 1
  /\ \A r \in Requests :
       /\ pc[r] \in Past => refunds[ref[r]] = 0
       /\ pc[r] = "writeSub" /\ old[r] = 0 => subs = <<>>

LEMMA CalmStep ==
  ASSUME TypeOK, TypeOK', Owned, Alone, StillNew, CalmOnce, [Next]_vars
  PROVE  CalmOnce'
<1>1. SUFFICES ASSUME ~overlapped', faults' = {} PROVE CalmFacts'
  BY DEF CalmOnce, CalmFacts, Calm
<1>2. CalmFacts /\ ~overlapped /\ faults = {}
  BY <1>1, GrowStep DEF Grows, CalmOnce, CalmFacts, Calm
<1> USE <1>2
<1>3. CASE ~\E r \in Requests : Webhook(r)
  BY <1>3, OnlyWebhooks DEF CalmFacts, reqVars
<1>4. CASE \E r \in Requests : Webhook(r)
  <2>1. PICK r \in Requests : Webhook(r)
    BY <1>4
  <2>2. /\ Path(r) /\ RequestOK(r) /\ LocalsOK /\ trx \in [Refs -> Nat] /\ refunds \in [Refs -> Nat]
        /\ subs \in Seq(Subs)
    BY <2>1, PathTaken DEF Owned, TypeOK, DocsOK, PaymentsOK
  <2>3. \A q \in Requests \ {r} : pc'[q] = "idle"
    BY <1>1, <2>1, OthersRest DEF Same
  <2>4. ~\E kind \in Kinds : Fault(kind)
    BY <1>1 DEF Fault
  <2>5. SUFFICES /\ \A f \in Refs : trx'[f] <= 1 /\ refunds'[f] <= trx'[f]
                 /\ Len(subs') <= 1
                 /\ pc'[r] \in Past => refunds'[ref'[r]] = 0
                 /\ pc'[r] = "writeSub" /\ old'[r] = 0 => subs' = <<>>
    BY <2>3 DEF CalmFacts, Past
  <2>6. CASE (\E f \in Refs : Deliver(r, f)) \/ CountTransactions(r) \/ FindPlan(r)
    BY <2>2, <2>6 DEF Deliver, CountTransactions, Answered, Ended, FindPlan, Goto, LocalsOK, CalmFacts,
       docVars, payVars, Past
  <2>7. CASE FindActiveSub(r)
    BY <2>2, <2>4, <2>7 DEF FindActiveSub, Goto, LocalsOK, CalmFacts, docVars, payVars, Past, Kinds,
       RequestOK
  <2>8. CASE CreateSubscription(r)
    <3>1. subs' \in {subs, Append(subs, PaidSub(r))} /\ subs = <<>>
      BY <2>8 DEF CreateSubscription, CalmFacts
    <3>2. PaidSub(r) \in Subs
      BY <2>2, <2>8, ChargeTypes DEF CreateSubscription, RequestOK
    <3>3. Len(subs) = 0
      BY <3>1
    <3>4. Len(Append(subs, PaidSub(r))) = Len(subs) + 1
      <4>1. subs \in Seq(Subs)
        BY <2>2
      <4> QED
        BY <3>2, <4>1, AppendProperties
    <3>5. Len(subs') <= 1
      <4> DEFINE longer == Append(subs, PaidSub(r))
      <4>1. subs' = subs \/ subs' = longer
        BY <3>1
      <4>2. Len(subs) = 0 /\ Len(longer) = 1
        BY <3>3, <3>4
      <4> HIDE DEF longer
      <4>3. Len(subs') = 0 \/ Len(subs') = 1
        BY <4>1, <4>2, Zenon
      <4>4. subs' \in Seq(Subs)
        BY DEF TypeOK, DocsOK
      <4>5. Len(subs') \in Nat
        BY <4>4, LenProperties
      <4> DEFINE n == Len(subs')
      <4>6. n \in Nat /\ (n = 0 \/ n = 1)
        BY <4>3, <4>5
      <4> HIDE DEF n
      <4>7. n <= 1
        BY <4>6
      <4> QED
        BY <4>7 DEF n
    <3>6. pc'[r] \in {"record", "idle"}
      BY <2>2, <2>8 DEF CreateSubscription, Ended, Goto, LocalsOK
    <3> QED
      BY <2>2, <2>8, <3>5, <3>6 DEF CreateSubscription, CalmFacts, payVars, Past
  <2>9. CASE UpdateSubscription(r)
    <3>1. Len(subs') = Len(subs)
      BY <2>2, <2>9 DEF UpdateSubscription
    <3>2. pc'[r] \in {"record", "idle"}
      BY <2>2, <2>9 DEF UpdateSubscription, Ended, Goto, LocalsOK
    <3> QED
      BY <2>2, <2>9, <3>1, <3>2 DEF UpdateSubscription, CalmFacts, payVars, Past
  <2>10. CASE CreateTransaction(r)
    <3>1. pc[r] = "record" /\ pc'[r] = "workspace" /\ ref'[r] = ref[r] /\ ref[r] \in Refs
      BY <2>2, <2>10 DEF CreateTransaction, Goto, LocalsOK, RequestOK
    <3>2. trx[ref[r]] = 0
      BY <3>1 DEF StillNew, Before
    <3>3. refunds[ref[r]] = 0
      BY <2>2, <3>1, <3>2 DEF CalmFacts
    <3>4. \A f \in Refs : trx'[f] <= 1 /\ refunds[f] <= trx'[f]
      BY <2>2, <2>10, <3>1, <3>2 DEF CreateTransaction, CalmFacts
    <3> QED
      BY <2>10, <3>1, <3>3, <3>4 DEF CreateTransaction, CalmFacts, payVars
  <2>11. CASE FindWorkspace(r) \/ SaveCards(r) \/ SetAppCard(r)
    <3>1. UNCHANGED <<trx, refunds, subs>> /\ pc[r] \in Past /\ pc'[r] # "writeSub"
      BY <2>2, <2>11 DEF FindWorkspace, SaveCards, SetAppCard, Goto, Ended, LocalsOK, payVars, docVars,
         Past
    <3>2. pc'[r] \in Past => ref'[r] = ref[r]
      BY <2>2 DEF Path
    <3> QED
      BY <3>1, <3>2 DEF CalmFacts
  <2>12. CASE Refund(r)
    <3>1. pc[r] \in Past /\ ref[r] \in Refs /\ pc'[r] = "idle"
      BY <2>2, <2>12 DEF Refund, Answered, Ended, Goto, LocalsOK, RequestOK, Past
    <3>2. trx[ref[r]] = 1 /\ refunds[ref[r]] = 0
      BY <2>2, <3>1 DEF CalmFacts, RequestOK
    <3>3. UNCHANGED <<trx, subs>> /\ refunds' = [refunds EXCEPT ![ref[r]] = @ + 1]
      BY <2>4, <2>12 DEF Refund, ReverseTransaction, docVars, Kinds
    <3> QED
      BY <2>2, <3>1, <3>2, <3>3 DEF CalmFacts, Past
  <2>13. CASE EnqueueRenewal(r) \/ RequestDies(r)
    <3>1. UNCHANGED <<trx, refunds, subs>> /\ pc'[r] = "idle"
      BY <2>2, <2>13 DEF EnqueueRenewal, RequestDies, Answered, Ended, Goto, LocalsOK, payVars, docVars
    <3> QED
      BY <3>1 DEF CalmFacts, Past
  <2> QED
    BY <2>1, <2>6, <2>7, <2>8, <2>9, <2>10, <2>11, <2>12, <2>13 DEF Webhook
<1> QED
  BY <1>3, <1>4

(***************************************************************************)
(* Cards.                                                                  *)
(***************************************************************************)
CardOf(r) == /\ pc[r] = "saveCards" => list[r] = cards
             /\ pc[r] = "appCard" /\ "card" \notin faults => card[r] \in cards

LEMMA CardsStep ==
  ASSUME TypeOK, TypeOK', Alone, CardsKept, [Next]_vars
  PROVE  CardsKept'
<1>1. SUFFICES ASSUME ~overlapped'
               PROVE  /\ \A s \in Requests : CardOf(s)'
                      /\ "card" \notin faults' => appCard' \in cards' \cup {NoCard}
  BY DEF CardsKept, CardOf
<1>2. /\ ~overlapped /\ faults \subseteq faults' /\ \A s \in Requests : CardOf(s)
      /\ "card" \notin faults => appCard \in cards \cup {NoCard}
  BY <1>1, GrowStep DEF Grows, CardsKept, CardOf
<1>3. CASE ~\E r \in Requests : Webhook(r)
  <2>1. UNCHANGED <<reqVars, cards>>
    BY <1>3, OnlyWebhooks
  <2>2. appCard' = appCard \/ appCard' \in cards
    BY <1>3 DEF Next, vars, Customer, GeneratePaymentLink, GenerateLinkToAddCard, Pay, ChooseCard,
       Renewal, StartRenewal, FindCard, FindSub, ChargeCard, FinishRenewal, WorkerDies, taskOnly, docVars
  <2> QED
    BY <1>2, <2>1, <2>2 DEF CardOf, reqVars
<1>4. CASE \E r \in Requests : Webhook(r)
  <2>1. PICK r \in Requests : Webhook(r)
    BY <1>4
  <2>2. \A q \in Requests \ {r} : pc'[q] = "idle"
    BY <1>1, <2>1, OthersRest DEF Same
  <2>3. LocalsOK /\ CardOf(r)
    BY <1>2 DEF TypeOK
  <2>4. SUFFICES CardOf(r)' /\ ("card" \notin faults' => appCard' \in cards' \cup {NoCard})
    BY <2>2 DEF CardOf
  <2>5. CASE FindWorkspace(r)
    BY <1>2, <2>3, <2>5 DEF FindWorkspace, Ended, Goto, LocalsOK, CardOf, docVars
  <2>6. CASE SaveCards(r)
    <3>1. list[r] = cards /\ pc'[r] = "appCard" /\ appCard' = appCard
      BY <2>3, <2>6 DEF SaveCards, Goto, LocalsOK, CardOf
    <3>2. CASE \E c \in WithSignature(r) : card' = [card EXCEPT ![r] = c] /\ UNCHANGED cards
      BY <1>2, <2>3, <3>1, <3>2 DEF WithSignature, LocalsOK, CardOf
    <3>3. CASE \E new : card' = [card EXCEPT ![r] = new] /\ cards' = list[r] \cup {new}
      BY <1>2, <2>3, <3>1, <3>3 DEF LocalsOK, CardOf
    <3>4. CASE UNCHANGED cards /\ "card" \in faults'
      BY <3>1, <3>4 DEF CardOf
    <3> QED
      BY <2>6, <3>2, <3>3, <3>4 DEF SaveCards, Fault
  <2>7. CASE SetAppCard(r)
    <3>1. pc[r] = "appCard" /\ pc'[r] = "finish" /\ cards' = cards
      BY <2>3, <2>7 DEF SetAppCard, Goto, LocalsOK
    <3>2. appCard' \in {appCard, card[r]}
      BY <2>7 DEF SetAppCard
    <3> QED
      BY <1>2, <2>3, <3>1, <3>2 DEF CardOf
  <2>8. CASE ~(FindWorkspace(r) \/ SaveCards(r) \/ SetAppCard(r))
    <3>1. UNCHANGED <<cards, appCard>> /\ pc'[r] \notin {"saveCards", "appCard"}
      BY <2>1, <2>3, <2>8 DEF Webhook, Deliver, CountTransactions, FindPlan, FindActiveSub,
         CreateSubscription, UpdateSubscription, CreateTransaction, Refund, EnqueueRenewal,
         RequestDies, Answered, Ended, Goto, LocalsOK, docVars
    <3> QED
      BY <1>2, <3>1 DEF CardOf
  <2> QED
    BY <2>5, <2>6, <2>7, <2>8
<1> QED
  BY <1>3, <1>4

(***************************************************************************)
(* Renewals.                                                               *)
(***************************************************************************)
ChargedAt(t) == /\ charges[t] <= 1
                /\ task[t] \notin {"charged", "done"} => charges[t] = 0

LEMMA ChargedStep ==
  ASSUME TypeOK, TypeOK', Owned, ChargedOnce, [Next]_vars
  PROVE  ChargedOnce'
<1>1. SUFFICES ASSUME "worker" \notin faults', NEW t \in Tasks
               PROVE  ChargedAt(t)'
  BY DEF ChargedOnce, ChargedAt
<1>2. "worker" \notin faults /\ ChargedAt(t) /\ TasksOK
  BY <1>1, GrowStep DEF Grows, ChargedOnce, ChargedAt, TypeOK
<1>3. CASE Renewal(t)
  <2> USE DEF TasksOK, ChargedAt, Step, Retry, SkipRetry
  <2>1. CASE StartRenewal(t) \/ FindCard(t)
    BY <1>2, <2>1 DEF StartRenewal, FindCard
  <2>2. CASE FindSub(t)
    <3>1. /\ task[t] = "sub" /\ charges' = charges
      BY <2>2 DEF FindSub
    <3> QED
      BY <1>2, <3>1
  <2>3. CASE ChargeCard(t)
    BY <1>2, <2>3 DEF ChargeCard
  <2>4. CASE FinishRenewal(t)
    BY <1>2, <2>4 DEF FinishRenewal
  <2>5. ~WorkerDies(t)
    BY <1>1 DEF WorkerDies, Fault
  <2> QED
    BY <1>3, <2>1, <2>2, <2>3, <2>4, <2>5 DEF Renewal
<1>4. CASE ~Renewal(t) /\ \E u \in Tasks : Renewal(u)
  <2>1. PICK u \in Tasks : Renewal(u) /\ u # t
    BY <1>4
  <2>2. UNCHANGED <<task[t], charges[t]>>
    BY <2>1, TaskKept DEF Owned
  <2> QED
    BY <1>2, <2>2 DEF ChargedAt
<1>5. CASE ~\E u \in Tasks : Renewal(u)
  BY <1>2, <1>5, OnlyQueued DEF Queues, ChargedAt, TasksOK
<1> QED
  BY <1>3, <1>4, <1>5

LEMMA MadeStep ==
  ASSUME TypeOK, TypeOK', [Next]_vars, ~\E r \in Requests : EnqueueRenewal(r)
  PROVE  Made' = Made
<1>1. CASE \E t \in Tasks : Renewal(t)
  <2>1. PICK t \in Tasks : Renewal(t)
    BY <1>1
  <2>2. \E where \in TaskStates \ {"none"} : task' = [task EXCEPT ![t] = where]
    BY <2>1 DEF Renewal, StartRenewal, FindCard, FindSub, ChargeCard, FinishRenewal, WorkerDies, Step,
       Retry, SkipRetry, TaskStates
  <2>3. task[t] # "none"
    BY <2>1 DEF Renewal, StartRenewal, FindCard, FindSub, ChargeCard, FinishRenewal, WorkerDies
  <2>4. \A u \in Tasks : task'[u] # "none" <=> task[u] # "none"
    BY <2>2, <2>3 DEF TypeOK, TasksOK
  <2> QED
    BY <2>4 DEF Made
<1>2. CASE ~\E t \in Tasks : Renewal(t)
  <2>1. task' = task
    BY <1>2 DEF Next, vars, Customer, GeneratePaymentLink, GenerateLinkToAddCard, Pay, ChooseCard,
       Webhook, Deliver, CountTransactions, FindPlan, FindActiveSub, CreateSubscription,
       UpdateSubscription, CreateTransaction, FindWorkspace, SaveCards, SetAppCard, Refund,
       RequestDies, taskVars
  <2> QED
    BY <2>1 DEF Made
<1> QED
  BY <1>1, <1>2

\* While deliveries come one at a time, a due charge stays due.
LEMMA StaysDue ==
  ASSUME TypeOK, TypeOK', Alone, StillNew, [Next]_vars, ~overlapped', "count" \notin faults'
  PROVE  Due \subseteq Due'
<1>1. SUFFICES ASSUME NEW f \in Due PROVE f \in Due'
  OBVIOUS
<1>2. /\ f \in Refs /\ trx'[f] > 0 /\ paid'[f] = paid[f]
      /\ trx[f] > 0 /\ paid[f] # None /\ paid[f].plan # None /\ ~Settling(f)
  BY <1>1, GrowStep DEF Grows, Due, TypeOK, DocsOK
<1>3. CASE ~\E r \in Requests : Webhook(r)
  BY <1>2, <1>3, OnlyWebhooks DEF Due, Settling, reqVars
<1>4. CASE \E r \in Requests : Webhook(r)
  <2>1. PICK r \in Requests : Webhook(r)
    BY <1>4
  <2>2. Path(r) /\ \A s \in Requests \ {r} : Same(s)
    BY <2>1, PathTaken, OthersSame DEF TypeOK
  <2>3. ~CreateTransaction(r) \/ ref[r] # f
    <3>1. SUFFICES ASSUME CreateTransaction(r), ref[r] = f PROVE FALSE
      OBVIOUS
    <3>2. ~overlapped /\ "count" \notin faults
      BY GrowStep DEF Grows
    <3> QED
      BY <1>2, <3>1, <3>2 DEF CreateTransaction, StillNew, Before
  <2>4. ~Settling(f)'
    BY <1>2, <2>2, <2>3 DEF Settling, Same, Path
  <2> QED
    BY <1>2, <2>4 DEF Due
<1> QED
  BY <1>3, <1>4

LEMMA DueStep ==
  ASSUME TypeOK, TypeOK', Owned, Alone, StillNew, RenewalsDue, [Next]_vars
  PROVE  RenewalsDue'
<1>1. SUFFICES ASSUME ~overlapped', faults' \cap {"insert", "count"} = {}
               PROVE  Cardinality(Made') <= Cardinality(Due')
  BY DEF RenewalsDue
<1> DEFINE M == Made
           MP == Made'
           D == Due
           DP == Due'
<1>2. /\ ~overlapped /\ faults \cap {"insert", "count"} = {} /\ "insert" \notin faults
      /\ Cardinality(M) <= Cardinality(D)
  BY <1>1, GrowStep DEF Grows, RenewalsDue
<1>3. D \subseteq DP
  BY <1>1, StaysDue
<1>4. M \subseteq Tasks /\ D \subseteq Refs /\ DP \subseteq Refs
  BY DEF Made, Due
<1>5. IsFiniteSet(M) /\ IsFiniteSet(D) /\ IsFiniteSet(DP)
  BY <1>4, ConstantsAssumption, FS_Subset
<1>6. Cardinality(M) \in Nat /\ Cardinality(D) \in Nat /\ Cardinality(DP) \in Nat
  BY <1>5, FS_CardinalityType
<1>7. CASE MP = M
  <2>1. Cardinality(D) <= Cardinality(DP)
    BY <1>3, <1>5, FS_Subset
  <2> HIDE DEF M, MP, D, DP
  <2>2. Cardinality(MP) <= Cardinality(DP)
    BY <1>2, <1>6, <1>7, <2>1
  <2> QED
    BY <2>2 DEF MP, DP
<1>8. CASE \E r \in Requests : EnqueueRenewal(r)
  <2>1. PICK r \in Requests : EnqueueRenewal(r)
    BY <1>8
  <2>2. Webhook(r) /\ RequestOK(r) /\ pc[r] = "finish" /\ pc'[r] = "idle" /\ trx' = trx /\ paid' = paid
    BY <2>1 DEF EnqueueRenewal, Answered, Ended, Goto, TypeOK, LocalsOK, Owned, Webhook, docVars
  <2>3. \A s \in Requests \ {r} : pc'[s] = "idle"
    BY <1>1, <2>2, OthersRest DEF Same
  <2>4. ref[r] \in D' /\ ref[r] \notin D
    <3>1. ref[r] \in Refs /\ trx[ref[r]] > 0 /\ paid[ref[r]] # None /\ paid[ref[r]].plan # None
      BY <1>2, <2>1, <2>2 DEF RequestOK, Past, EnqueueRenewal, Reverse, Charge
    <3>2. Settling(ref[r]) /\ \A s \in Requests : pc'[s] \notin Past
      BY <2>2, <2>3 DEF Settling, Past
    <3> QED
      BY <2>2, <3>1, <3>2 DEF Due, Settling
  <2>5. MP = M \/ \E t \in Tasks : t \notin M /\ MP = M \cup {t}
    BY <2>1 DEF EnqueueRenewal, Enqueue, Made, TypeOK, TasksOK
  <2>6. CASE MP = M
    BY <1>7, <2>6
  <2>7. CASE \E t \in Tasks : t \notin M /\ MP = M \cup {t}
    <3> HIDE DEF M, MP, D, DP
    <3>1. Cardinality(MP) = Cardinality(M) + 1
      BY <1>5, <2>7, FS_AddElement
    <3>2. Cardinality(D \cup {ref[r]}) = Cardinality(D) + 1
      BY <1>5, <2>4, FS_AddElement
    <3>3. D \cup {ref[r]} \subseteq DP
      BY <1>3, <2>4 DEF DP, D
    <3>4. Cardinality(D \cup {ref[r]}) <= Cardinality(DP)
      BY <1>5, <3>3, FS_Subset
    <3>5. Cardinality(MP) <= Cardinality(DP)
      BY <1>2, <1>6, <3>1, <3>2, <3>4
    <3> QED
      BY <3>5 DEF MP, DP
  <2> QED
    BY <2>5, <2>6, <2>7
<1>9. CASE ~\E r \in Requests : EnqueueRenewal(r)
  BY <1>7, <1>9, MadeStep
<1> QED
  BY <1>8, <1>9

(***************************************************************************)
(* The invariant, and what follows from it.                                *)
(***************************************************************************)
LEMMA InitIInv == Init => IInv
<1> SUFFICES ASSUME Init PROVE IInv
  OBVIOUS
<1>1. TypeOK
  <2>1. PaymentsOK
    BY DEF Init, PaymentsOK
  <2>2. DocsOK
    BY ConstantsAssumption, EmptySeq DEF Init, DocsOK
  <2>3. TasksOK
    BY DEF Init, TasksOK, TaskStates
  <2>4. LocalsOK
    BY DEF Init, LocalsOK, PCs
  <2>5. GhostsOK
    BY ConstantsAssumption DEF Init, GhostsOK
  <2> QED
    BY <2>1, <2>2, <2>3, <2>4, <2>5 DEF TypeOK
<1>2. Owned
  BY DEF Init, Owned, RequestOK, TaskOK, Past
<1>3. Alone /\ SubscriptionWasPaid /\ Settled /\ StillNew /\ CardsKept /\ ChargedOnce
  BY DEF Init, Alone, SubscriptionWasPaid, Settled, StillNew, Before, CardsKept, ChargedOnce
<1>4. Recorded
  <2>1. \A f \in Refs : Recording(f) = {} /\ trx[f] = 0
    BY DEF Init, Recording, Before
  <2>2. Cardinality({}) = 0
    BY FS_EmptySet
  <2>3. \A f \in Refs : trx[f] + Cardinality(Recording(f)) <= N
    BY <2>1, <2>2, NType
  <2> QED
    BY <2>3 DEF Recorded
<1>5. CalmOnce
  BY DEF Init, CalmOnce, Past
<1>6. RenewalsDue
  <2>1. Made = {} /\ Due = {}
    BY DEF Init, Made, Due
  <2>2. Cardinality(Made) <= Cardinality(Due)
    BY <2>1, FS_EmptySet
  <2> QED
    BY <2>2 DEF RenewalsDue
<1> QED
  BY <1>1, <1>2, <1>3, <1>4, <1>5, <1>6 DEF IInv

LEMMA NextIInv ==
  ASSUME IInv, [Next]_vars
  PROVE  IInv'
<1>1. TypeOK'
  BY TypeStep DEF IInv
<1>2. Owned'
  BY <1>1, OwnedStep DEF IInv
<1>3. Alone' /\ SubscriptionWasPaid' /\ Settled'
  BY <1>1, <1>2, AloneStep, PaidStep, SettledStep DEF IInv
<1>4. Recorded' /\ StillNew' /\ CalmOnce'
  BY <1>1, RecordedStep, StillNewStep, CalmStep DEF IInv
<1>5. CardsKept' /\ ChargedOnce' /\ RenewalsDue'
  BY <1>1, CardsStep, ChargedStep, DueStep DEF IInv
<1> QED
  BY <1>1, <1>2, <1>3, <1>4, <1>5 DEF IInv

\* The invariant is inductive.
THEOREM Invariance == Spec => []IInv
<1>1. IInv /\ [Next]_vars => IInv'
  BY NextIInv
<1> QED
  BY InitIInv, <1>1, PTL DEF Spec

\* However deliveries of charges overlap, are cut short or fail: the plan, interval and renewal
\* of a subscription come from one charge, and that charge is recorded, being handled, or was
\* lost to a failure (the webhook's create-or-update of the subscription).
THEOREM PaidFor == Spec => []SubscriptionWasPaid
<1>1. IInv => SubscriptionWasPaid
  BY DEF IInv
<1> QED
  BY Invariance, <1>1, PTL

\* The count before the insertion bounds the documents of a charge by the deliveries handled at
\* once, and one delivery at a time charges, refunds and subscribes once.
THEOREM CountedOnce == Spec => []ChargesCounted
<1>1. IInv => ChargesCounted
  <2> SUFFICES ASSUME IInv PROVE ChargesCounted
    OBVIOUS
  <2>1. TypeOK /\ trx \in [Refs -> Nat] /\ refunds \in [Refs -> Nat]
    BY DEF IInv, TypeOK, DocsOK, PaymentsOK
  <2>2. RecordsBound
    <3>1. SUFFICES ASSUME "count" \notin faults, NEW f \in Refs PROVE trx[f] <= N
      BY DEF RecordsBound, N
    <3>2. trx[f] + Cardinality(Recording(f)) <= N
      BY <3>1 DEF IInv, Recorded
    <3>3. Cardinality(Recording(f)) \in Nat /\ trx[f] \in Nat
      BY <2>1, RecordingFinite
    <3> QED
      BY <3>2, <3>3, NType
  <2>3. OnceWhenCalm
    <3>1. SUFFICES ASSUME Calm PROVE (\A f \in Refs : trx[f] <= 1 /\ refunds[f] <= 1) /\ Len(subs) <= 1
      BY DEF OnceWhenCalm
    <3>2. (\A f \in Refs : trx[f] <= 1 /\ refunds[f] <= trx[f]) /\ Len(subs) <= 1
      BY <3>1 DEF IInv, CalmOnce
    <3> QED
      BY <2>1, <3>2
  <2> QED
    BY <2>1, <2>2, <2>3 DEF ChargesCounted
<1> QED
  BY Invariance, <1>1, PTL

\* A delivery answered with 200 has left its transaction, and the refund of a verification that
\* has begun to settle is made, under way, or lost to a failure.
THEOREM AnsweredIsSettled == Spec => []AckedIsSettled
<1>1. IInv => AckedIsSettled
  <2> SUFFICES ASSUME IInv, NEW f \in acked
               PROVE  /\ trx[f] > 0 \/ "insert" \in faults
                      /\ \/ paid[f].plan # None \/ refunds[f] > 0 \/ Handled(f)
                         \/ faults \cap {"refund", "died"} # {}
    BY DEF AckedIsSettled
  <2>1. f \in Refs
    BY DEF IInv, TypeOK, PaymentsOK
  <2>2. Settling(f) => Handled(f)
    BY DEF Settling, Handled
  <2> QED
    BY <2>1, <2>2 DEF IInv, Settled
<1> QED
  BY Invariance, <1>1, PTL

\* The card of the application, the one a renewal charges, is among the saved cards, unless
\* deliveries overlapped or a write of a card failed.
THEOREM CardListed == Spec => []AppCardListed
<1>1. IInv => AppCardListed
  BY DEF IInv, CardsKept, AppCardListed
<1> QED
  BY Invariance, <1>1, PTL

\* A renewal charges the card once, and there are no more renewals than recorded charges for
\* a plan, unless deliveries overlapped or a call failed: chains of renewals do not multiply.
THEOREM RenewalsCounted == Spec => []RenewalsBound
<1>1. IInv => RenewalsBound
  <2> SUFFICES ASSUME IInv PROVE RenewalsBound
    OBVIOUS
  <2>2. "worker" \notin faults => \A t \in Tasks : charges[t] <= 1
    BY DEF IInv, ChargedOnce
  <2>3. (~overlapped /\ faults \cap {"insert", "count"} = {}) =>
          Cardinality({t \in Tasks : task[t] # "none"})
            <= Cardinality({f \in Refs : trx[f] > 0 /\ paid[f].plan # None})
    <3> DEFINE Counted == {f \in Refs : trx[f] > 0 /\ paid[f].plan # None}
    <3>1. SUFFICES ASSUME ~overlapped, faults \cap {"insert", "count"} = {}
                   PROVE  Cardinality(Made) <= Cardinality(Counted)
      BY DEF Made
    <3>2. Cardinality(Made) <= Cardinality(Due)
      BY <3>1 DEF IInv, RenewalsDue
    <3>3. Due \subseteq Counted /\ Counted \subseteq Refs /\ Made \subseteq Tasks
      BY DEF Due, Made
    <3> HIDE DEF Counted
    <3>4. IsFiniteSet(Counted) /\ IsFiniteSet(Due) /\ IsFiniteSet(Made)
      BY <3>3, ConstantsAssumption, FS_Subset
    <3>5. Cardinality(Due) <= Cardinality(Counted)
      BY <3>3, <3>4, FS_Subset
    <3> QED
      BY <3>2, <3>4, <3>5, FS_CardinalityType
  <2> QED
    BY <2>2, <2>3 DEF RenewalsBound
<1> QED
  BY Invariance, <1>1, PTL

(***************************************************************************)
(* The amount of a link.                                                   *)
(***************************************************************************)
\* Arithmetic modulo W.
LEMMA Wraps ==
  ASSUME NEW W \in Nat \ {0}, NEW x \in 0..(W - 1), NEW k \in Int
  PROVE  (x + W * k) % W = x
OBVIOUS

LEMMA WrapType == Wrap \in Nat \ {0} /\ Wrap > 365
BY ConstantsAssumption

LEMMA PriceType ==
  ASSUME NEW p \in Plans, NEW f \in Frequencies
  PROVE  Price[p][f] \in Nat /\ Price[p][f] < Wrap
BY ConstantsAssumption

\* The share of the days that have passed is at most the price.
LEMMA ShareBelowPrice ==
  ASSUME NEW p \in Nat, NEW f \in Frequencies, NEW e \in 0..Days(f)
  PROVE  p \div Days(f) \in Nat /\ (p \div Days(f)) * e \in 0..p
<1>1. CASE f = "monthly"
  <2>1. p \div 30 \in Nat /\ (p \div 30) * 30 <= p
    OBVIOUS
  <2>2. e \in Nat /\ e <= 30
    BY <1>1 DEF Days
  <2> DEFINE share == p \div 30
  <2> HIDE DEF share
  <2>3. share \in Nat /\ share * 30 <= p
    BY <2>1 DEF share
  <2>4. share * e \in Nat /\ share * e <= share * 30
    BY <2>2, <2>3
  <2>5. share * e \in 0..p
    BY <2>3, <2>4
  <2> QED
    BY <1>1, <2>3, <2>5 DEF Days, share
<1>2. CASE f = "annually"
  <2>1. p \div 365 \in Nat /\ (p \div 365) * 365 <= p
    OBVIOUS
  <2>2. e \in Nat /\ e <= 365
    BY <1>2 DEF Days
  <2> DEFINE share == p \div 365
  <2> HIDE DEF share
  <2>3. share \in Nat /\ share * 365 <= p
    BY <2>1 DEF share
  <2>4. share * e \in Nat /\ share * e <= share * 365
    BY <2>2, <2>3
  <2>5. share * e \in 0..p
    BY <2>3, <2>4
  <2> QED
    BY <1>2, <2>3, <2>5 DEF Days, share
<1> QED
  BY <1>1, <1>2 DEF Frequencies

\* The days are converted to 0, or wrap.
LEMMA DaysConverted ==
  ASSUME NEW f \in Frequencies, NEW e \in 0..Days(f), NEW d \in AsUint32(e)
  PROVE  d = 0 \/ d = Wrap - e
<1>1. e \in 0..365 /\ Wrap \in Nat /\ Wrap > 365
  BY ConstantsAssumption DEF Days
<1>2. CASE e = 0
  <2>1. (Wrap - 0) % Wrap = 0
    BY <1>1
  <2> QED
    BY <1>2, <2>1 DEF AsUint32
<1>3. CASE e # 0
  <2>1. Wrap - e \in 0..(Wrap - 1)
    BY <1>1, <1>3
  <2>2. (Wrap - e) % Wrap = Wrap - e
    BY <1>1, <2>1
  <2> QED
    BY <2>2 DEF AsUint32
<1> QED
  BY <1>2, <1>3

\* The credit is the price of the current subscription and what a wrapped conversion adds.
LEMMA CreditBounded ==
  ASSUME NEW s \in Subs, NEW e \in 0..Days(s.interval), NEW c \in Credit(s, e), s # None,
         2 * Price[s.plan][s.interval] < Wrap
  PROVE  c \in 0..(2 * Price[s.plan][s.interval])
<1> DEFINE p == Price[s.plan][s.interval]
           share == p \div Days(s.interval)
<1>1. p \in Nat /\ s.interval \in Frequencies /\ Wrap \in Nat \ {0}
  BY PriceType, WrapType DEF Subs
<1>2. PICK d \in AsUint32(e) : c = (p - share * d) % Wrap
  BY DEF Credit
<1>3. d = 0 \/ d = Wrap - e
  BY <1>1, DaysConverted
<1>4. share \in Nat /\ share * e \in 0..p
  BY <1>1, ShareBelowPrice
<1>5. p < Wrap /\ 2 * p < Wrap /\ e \in Nat
  BY <1>1 DEF Days, Frequencies
<1> HIDE DEF p, share
<1>6. CASE d = 0
  <2>1. p - share * d = p
    BY <1>1, <1>4, <1>6
  <2>2. p % Wrap = p
    BY <1>1, <1>5
  <2>3. c \in 0..(2 * p)
    BY <1>1, <1>2, <2>1, <2>2
  <2> QED
    BY <2>3 DEF p
<1>7. CASE d = Wrap - e
  <2> DEFINE x == p + share * e
  <2>1. x \in 0..(2 * p) /\ x \in 0..(Wrap - 1)
    BY <1>1, <1>4, <1>5
  <2>2. share * d = share * Wrap - share * e
    BY <1>1, <1>4, <1>5, <1>7
  <2>3. p - share * d = x + Wrap * (-share)
    BY <1>1, <1>4, <1>5, <2>2
  <2> HIDE DEF x
  <2>4. (x + Wrap * (-share)) % Wrap = x
    BY <1>1, <1>4, <2>1, Wraps
  <2>5. c \in 0..(2 * p)
    BY <1>2, <2>1, <2>3, <2>4
  <2> QED
    BY <2>5 DEF p
<1> QED
  BY <1>3, <1>6, <1>7

LinkAtMost(p, f, e) ==
  \/ ~MayPayFor(ActiveSub, p, f)
  \/ ActiveSub # None /\ e > Days(ActiveSub.interval)
  \/ /\ ActiveSub # None /\ ActiveSub.plan = "Premium" /\ ActiveSub.interval = "annually"
     /\ p = "Essential"
  \/ \A a \in Amounts(ActiveSub, p, f, e) : a <= Price[p][f]

\* A link to another plan or interval, within the period of the current subscription, asks for
\* no more than its price, whatever the conversion of the days to uint32 yields: for any prices
\* as far apart as PricesAssumption says (GeneratePaymentLink).
THEOREM LinkAtMostPrice == Spec => []LinkNotAbovePrice
<1>1. IInv => LinkNotAbovePrice
  <2>0. SUFFICES ASSUME IInv, NEW p \in Plans, NEW f \in Frequencies, NEW e \in Elapsed
                 PROVE  LinkAtMost(p, f, e)
    BY DEF LinkNotAbovePrice, LinkAtMost
  <2>1. SUFFICES ASSUME MayPayFor(ActiveSub, p, f),
                        ActiveSub # None => ~(e > Days(ActiveSub.interval)),
                        ~(/\ ActiveSub # None /\ ActiveSub.plan = "Premium"
                          /\ ActiveSub.interval = "annually" /\ p = "Essential"),
                        NEW a \in Amounts(ActiveSub, p, f, e)
                 PROVE  a <= Price[p][f]
    BY Zenon DEF LinkAtMost
  <2> DEFINE s == ActiveSub
             price == Price[p][f]
  <2>2. PICK c \in Credit(s, e) : a = (price - c) % Wrap
    BY DEF Amounts
  <2>3. price \in 0..(Wrap - 1) /\ Wrap \in Nat \ {0}
    BY PriceType, WrapType
  <2>4. c \in 0..price
    <3>1. CASE s = None
      BY <2>2, <2>3, <3>1 DEF Credit
    <3>2. CASE s # None
      <4>1. s \in Subs
        BY <2>0, <3>2, FirstSub DEF ActiveSub, IInv, TypeOK
      <4>2. s.plan \in Plans /\ s.interval \in Frequencies
        BY <4>1 DEF Subs
      <4>3. e \in 0..Days(s.interval)
        BY <2>1, <3>2, ConstantsAssumption DEF Days
      <4>4. p \in {"Essential", "Premium"} /\ s.plan \in {"Essential", "Premium"}
        BY <4>2, ConstantsAssumption
      <4>5. \/ s.interval = "monthly" /\ f = "annually"
            \/ s.interval = f /\ s.plan = "Essential" /\ p = "Premium"
        BY <2>1, <3>2, <4>2, <4>4 DEF MayPayFor, Frequencies
      <4>6. 2 * Price[s.plan][s.interval] <= price
        BY <4>2, <4>5, PricesAssumption
      <4>7. Price[s.plan][s.interval] \in Nat
        BY <4>2, PriceType, WrapType
      <4>8. 2 * Price[s.plan][s.interval] < Wrap
        BY <2>3, <4>6, <4>7
      <4>9. c \in 0..(2 * Price[s.plan][s.interval])
        BY <2>2, <3>2, <4>1, <4>3, <4>8, CreditBounded
      <4> QED
        BY <2>3, <4>6, <4>7, <4>9
    <3> QED
      BY <3>1, <3>2
  <2> HIDE DEF price
  <2>5. (price - c) % Wrap = price - c
    BY <2>3, <2>4
  <2>6. a <= price
    BY <2>2, <2>3, <2>4, <2>5
  <2> QED
    BY <2>6 DEF price
<1> QED
  BY Invariance, <1>1, PTL

(***************************************************************************)
(* Billing implements Settlement.                                          *)
(***************************************************************************)
\* The budgets of the others, and of all, stay.
OthersBudget(r) == \A q \in Requests : q # r => Budget(q)' = Budget(q)
SameBudget      == \A q \in Requests : Budget(q)' = Budget(q)

\* A budget depends on where a delivery is, its reference and what was paid for it.
LEMMA BudgetKept ==
  ASSUME NEW q \in Requests, pc'[q] = pc[q], ref'[q] = ref[q],
         ref[q] # None => paid'[ref[q]] = paid[ref[q]]
  PROVE  Budget(q)' = Budget(q)
BY DEF Budget, Reverse, Charge

LEMMA OthersBudgetKept ==
  ASSUME LocalsOK, NEW r \in Requests, Webhook(r), UNCHANGED paid
  PROVE  OthersBudget(r)
<1> SUFFICES ASSUME NEW q \in Requests, q # r PROVE Budget(q)' = Budget(q)
  BY DEF OthersBudget
<1>1. Same(q)
  BY OthersSame
<1> QED
  BY <1>1, BudgetKept DEF Same

\* How a step of a delivery uses up effects, and how it ends.
LEMMA SpendsAsPromised ==
  ASSUME NEW r \in Requests, OthersBudget(r), NEW effects, Budget(r)' = Budget(r) \ effects
  PROVE  Books!Spend(r, effects)
BY DEF Books!Spend, OthersBudget

LEMMA LeavesAsPromised ==
  ASSUME LocalsOK, NEW r \in Requests, OthersBudget(r), Ended(r)
  PROVE  Books!Leave(r)
<1>1. ref' = [ref EXCEPT ![r] = None] /\ ref'[r] = None
  BY DEF Ended, LocalsOK
<1>2. Budget(r)' = {}
  BY <1>1 DEF Budget
<1> QED
  BY <1>1, <1>2 DEF Books!Leave, OthersBudget

LEMMA StuttersAsPromised ==
  ASSUME SameBudget, UNCHANGED <<paid, subs, trx, refunds, acked, ref>>
  PROVE  UNCHANGED Books!vars
BY DEF SameBudget, Books!vars

\* A delivery that is given up changes nothing in the books.
LEMMA DropsAsPromised ==
  ASSUME LocalsOK, NEW r \in Requests, OthersBudget(r), Ended(r), ref[r] # None,
         UNCHANGED <<paid, subs, trx, refunds, acked>>
  PROVE  Books!Next
<1>1. Books!Drop(r)
  BY LeavesAsPromised DEF Books!Drop
<1> QED
  BY <1>1 DEF Books!Next

\* What a delivery may still do, from each place.
LEMMA BudgetHere ==
  ASSUME Owned, NEW r \in Requests, pc[r] # "idle"
  PROVE  /\ ref[r] # None
         /\ pc[r] \in {"plan", "sub", "writeSub"} => Budget(r) = {"subscribe", "record"}
         /\ pc[r] = "record" =>
              Budget(r) = IF Reverse(r) THEN {"record", "refund"} ELSE {"record"}
         /\ pc[r] \in Past => Budget(r) = IF Reverse(r) THEN {"refund"} ELSE {}
<1>1. ref[r] # None
  BY NoneIsNone DEF Owned, RequestOK
<1>2. pc[r] \in {"plan", "sub", "writeSub"} => ~Reverse(r)
  BY DEF Owned, RequestOK
<1> QED
  BY <1>1, <1>2 DEF Budget, Ahead, Past

\* Taking a charge, and the lookups before the first effect.
LEMMA TakesAsPromised ==
  ASSUME IInv, NEW r \in Requests,
         \/ \E f \in Refs : Deliver(r, f)
         \/ CountTransactions(r) \/ FindPlan(r) \/ FindActiveSub(r)
  PROVE  [Books!Next]_(Books!vars)
<1> USE DEF IInv, TypeOK
<1>1. OthersBudget(r)
  BY OthersBudgetKept DEF Webhook, Deliver, CountTransactions, FindPlan, FindActiveSub, payVars
<1>2. ASSUME NEW f \in Refs, Deliver(r, f) PROVE [Books!Next]_(Books!vars)
  <2>1. /\ ref[r] = None /\ paid[f] # None /\ ref' = [ref EXCEPT ![r] = f]
        /\ pc'[r] = "count" /\ ref'[r] = f
        /\ UNCHANGED <<paid, subs, trx, refunds, acked>>
    BY <1>2 DEF Deliver, VerifyTransaction, Goto, LocalsOK, Owned, RequestOK, payVars, docVars
  <2>2. Budget(r)' = Books!Due(paid[f])
    BY <2>1, NoneIsNone DEF Budget, Ahead, Reverse, Charge, Books!Due
  <2>3. Books!Take(r, f)
    BY <1>1, <2>1, <2>2 DEF Books!Take, OthersBudget
  <2> QED
    BY <2>3 DEF Books!Next
<1>3. CASE CountTransactions(r)
  <2>1. pc[r] = "count" /\ ref[r] # None /\ ref[r] \in Refs
        /\ UNCHANGED <<paid, subs, trx, refunds>>
    BY <1>3, BudgetHere DEF CountTransactions, docVars, Owned, RequestOK
  <2>2. CASE trx[ref[r]] # 0 /\ Answered(r)
    <3>1. trx[ref[r]] > 0
      BY <2>1, <2>2 DEF DocsOK
    <3>2. Books!Answer(r)
      BY <1>1, <2>2, LeavesAsPromised DEF Answered, Books!Answer
    <3>3. Books!Finish(r)
      BY <2>1, <3>1, <3>2 DEF Books!Finish
    <3> QED
      BY <3>3 DEF Books!Next
  <2>3. CASE /\ Goto(r, IF Reverse(r) THEN "record" ELSE "plan")
             /\ UNCHANGED <<acked, ref>>
    <3>1. pc'[r] = IF Reverse(r) THEN "record" ELSE "plan"
      BY <2>3 DEF Goto, LocalsOK
    <3>2. Budget(r)' = Budget(r)
      BY <2>1, <2>3, <3>1 DEF Budget, Ahead, Reverse, Charge
    <3> QED
      BY <1>1, <2>1, <2>3, <3>2, StuttersAsPromised DEF OthersBudget, SameBudget
  <2> QED
    BY <1>3, <2>2, <2>3 DEF CountTransactions
<1>4. CASE FindPlan(r) \/ FindActiveSub(r)
  <2>1. /\ UNCHANGED <<paid, subs, trx, refunds, acked, ref>>
        /\ pc[r] \in {"plan", "sub"} /\ pc'[r] \in {"sub", "writeSub"}
    BY <1>4 DEF FindPlan, FindActiveSub, Goto, LocalsOK, payVars, docVars
  <2>2. Budget(r)' = Budget(r)
    BY <2>1 DEF Budget, Ahead, Reverse, Charge
  <2> QED
    BY <1>1, <2>1, <2>2, StuttersAsPromised DEF OthersBudget, SameBudget
<1> QED
  BY <1>2, <1>3, <1>4

\* Writing the subscription, or leaving it out.
LEMMA SubscribesAsPromised ==
  ASSUME IInv, NEW r \in Requests, CreateSubscription(r) \/ UpdateSubscription(r)
  PROVE  Books!Next
<1> USE DEF IInv, TypeOK
<1> DEFINE new == PaidSub(r)  k == old[r]
<1>1. /\ UNCHANGED <<paid, trx, refunds, acked>>
      /\ pc[r] = "writeSub" /\ ref[r] # None /\ Budget(r) = {"subscribe", "record"}
  BY BudgetHere DEF CreateSubscription, UpdateSubscription, payVars
<1>2. OthersBudget(r)
  BY <1>1, OthersBudgetKept DEF Webhook
<1>3. \/ UNCHANGED subs
      \/ subs' = Append(subs, new)
      \/ k \in DOMAIN subs /\ subs' = [subs EXCEPT ![k] = new]
  BY <1>1 DEF CreateSubscription, UpdateSubscription, Owned, RequestOK
<1>4. Ended(r) \/ (UNCHANGED ref /\ Goto(r, "record"))
  BY DEF CreateSubscription, UpdateSubscription
<1>5. ASSUME UNCHANGED ref, Goto(r, "record")
      PROVE  Books!Spend(r, {"subscribe"})
  <2>1. pc'[r] = "record" /\ ~Reverse(r)
    BY <1>1, <1>5 DEF Goto, LocalsOK, Owned, RequestOK
  <2>2. Budget(r)' = {"record"}
    BY <1>1, <1>5, <2>1 DEF Budget, Ahead, Reverse, Charge
  <2>3. Budget(r)' = Budget(r) \ {"subscribe"}
    BY <1>1, <2>2
  <2> QED
    BY <1>2, <2>3, SpendsAsPromised
<1>6. CASE UNCHANGED subs
  <2>1. CASE Ended(r)
    BY <1>1, <1>2, <1>6, <2>1, DropsAsPromised
  <2>2. CASE UNCHANGED ref /\ Goto(r, "record")
    <3>1. Books!LeaveOut(r, "subscribe")
      BY <1>1, <1>5, <1>6, <2>2 DEF Books!LeaveOut
    <3> QED
      BY <3>1 DEF Books!Next, Books!Effects
  <2> QED
    BY <1>4, <2>1, <2>2
<1>7. CASE subs' = Append(subs, new) \/ (k \in DOMAIN subs /\ subs' = [subs EXCEPT ![k] = new])
  <2>1. \/ Books!Spend(r, {"subscribe"}) /\ UNCHANGED ref
        \/ Books!Leave(r)
    BY <1>2, <1>4, <1>5, LeavesAsPromised
  <2>2. \/ subs' = Append(subs, new)
        \/ \E i \in DOMAIN subs : subs' = [subs EXCEPT ![i] = new]
    BY <1>7
  <2>3. Books!Subscribe(r)
    BY <1>1, <2>1, <2>2 DEF Books!Subscribe, PaidSub, Charge
  <2> QED
    BY <2>3 DEF Books!Next
<1> QED
  BY <1>3, <1>6, <1>7

\* Recording the charge, saving the card, and the end of a delivery.
LEMMA RecordsAsPromised ==
  ASSUME IInv, NEW r \in Requests,
         \/ CreateTransaction(r) \/ FindWorkspace(r) \/ SaveCards(r) \/ SetAppCard(r)
         \/ Refund(r) \/ EnqueueRenewal(r) \/ RequestDies(r)
  PROVE  [Books!Next]_(Books!vars)
<1> USE DEF IInv, TypeOK
<1>1. /\ OthersBudget(r) /\ UNCHANGED <<paid, subs>>
  BY OthersBudgetKept DEF Webhook, CreateTransaction, FindWorkspace, SaveCards, SetAppCard,
     Refund, EnqueueRenewal, RequestDies, payVars, docVars
<1>2. pc[r] # "idle" /\ ref[r] # None
  BY BudgetHere DEF CreateTransaction, FindWorkspace, SaveCards, SetAppCard,
     Refund, EnqueueRenewal, RequestDies
<1>3. CASE CreateTransaction(r)
  <2>1. /\ pc[r] = "record" /\ pc'[r] = "workspace"
        /\ UNCHANGED <<refunds, acked, ref>>
        /\ trx' = [trx EXCEPT ![ref[r]] = @ + 1] \/ UNCHANGED trx
    BY <1>3 DEF CreateTransaction, Goto, LocalsOK, payVars
  <2>2. "record" \in Budget(r) /\ "subscribe" \notin Budget(r)
    BY <2>1, BudgetHere
  <2>3. Budget(r)' = Budget(r) \ {"record"}
    BY <1>1, <1>2, <2>1 DEF Budget, Ahead, Reverse, Charge
  <2>4. Books!Spend(r, {"record"})
    BY <1>1, <2>3, SpendsAsPromised
  <2>5. CASE trx' = [trx EXCEPT ![ref[r]] = @ + 1]
    <3>1. Books!Record(r)
      BY <1>1, <2>1, <2>2, <2>4, <2>5 DEF Books!Record
    <3> QED
      BY <3>1 DEF Books!Next
  <2>6. CASE UNCHANGED trx
    <3>1. Books!LeaveOut(r, "record")
      BY <1>1, <2>1, <2>2, <2>4, <2>6 DEF Books!LeaveOut
    <3> QED
      BY <3>1 DEF Books!Next, Books!Effects
  <2> QED
    BY <2>1, <2>5, <2>6
<1>4. ASSUME FindWorkspace(r) \/ SaveCards(r) \/ SetAppCard(r) \/ RequestDies(r)
      PROVE  [Books!Next]_(Books!vars)
  <2>1. UNCHANGED <<trx, refunds, acked>>
    BY <1>4 DEF FindWorkspace, SaveCards, SetAppCard, RequestDies, payVars, docVars
  <2>2. CASE Ended(r)
    BY <1>1, <1>2, <2>1, <2>2, DropsAsPromised
  <2>3. CASE UNCHANGED ref /\ pc[r] \in Past /\ pc'[r] \in Past
    <3>1. Budget(r)' = Budget(r)
      BY <1>1, <2>3 DEF Budget, Ahead, Past, Reverse, Charge
    <3> QED
      BY <1>1, <2>1, <2>3, <3>1, StuttersAsPromised DEF OthersBudget, SameBudget
  <2> QED
    BY <1>4, <2>2, <2>3 DEF FindWorkspace, SaveCards, SetAppCard, RequestDies, Goto, LocalsOK, Past
<1>5. CASE Refund(r) \/ EnqueueRenewal(r)
  <2>1. /\ pc[r] = "finish" /\ Answered(r) /\ UNCHANGED trx
        /\ UNCHANGED refunds \/ (Reverse(r) /\ refunds' = [refunds EXCEPT ![ref[r]] = @ + 1])
    BY <1>5 DEF Refund, EnqueueRenewal, ReverseTransaction, docVars
  <2>2. "record" \notin Budget(r) /\ (Reverse(r) => "refund" \in Budget(r))
    BY <2>1, BudgetHere DEF Past
  <2>3. Books!Answer(r)
    BY <1>1, <2>1, LeavesAsPromised DEF Answered, Books!Answer
  <2>4. CASE UNCHANGED refunds
    <3>1. Books!Finish(r)
      BY <1>1, <1>2, <2>1, <2>2, <2>3, <2>4 DEF Books!Finish
    <3> QED
      BY <3>1 DEF Books!Next
  <2>5. CASE Reverse(r) /\ refunds' = [refunds EXCEPT ![ref[r]] = @ + 1]
    <3>1. Books!Refund(r)
      BY <1>1, <2>1, <2>2, <2>3, <2>5 DEF Books!Refund
    <3> QED
      BY <3>1 DEF Books!Next
  <2> QED
    BY <2>1, <2>4, <2>5
<1> QED
  BY <1>3, <1>4, <1>5

\* A new charge is nobody's: no delivery reports it yet.
LEMMA ChargesAsPromised ==
  ASSUME IInv, UNCHANGED <<subs, trx, refunds, acked, pc, ref>>,
         \/ UNCHANGED paid
         \/ \E f \in Refs, p \in Payments : paid[f] = None /\ paid' = [paid EXCEPT ![f] = p]
  PROVE  [Books!Next]_(Books!vars)
<1>1. CASE UNCHANGED paid
  <2>1. SameBudget
    BY <1>1, BudgetKept DEF SameBudget
  <2> QED
    BY <1>1, <2>1, StuttersAsPromised
<1>2. ASSUME NEW f \in Refs, NEW p \in Payments, paid[f] = None, paid' = [paid EXCEPT ![f] = p]
      PROVE  Books!Next
  <2>1. ASSUME NEW q \in Requests, ref[q] # None PROVE paid'[ref[q]] = paid[ref[q]]
    <3>1. ref[q] \in Refs /\ paid[ref[q]] # None
      BY <2>1 DEF IInv, Owned, RequestOK
    <3> QED
      BY <1>2, <3>1
  <2>2. SameBudget
    BY <2>1, BudgetKept DEF SameBudget
  <2>3. Books!Charge(f)
    BY <1>2, <2>2 DEF Books!Charge, SameBudget
  <2> QED
    BY <2>3 DEF Books!Next
<1> QED
  BY <1>1, <1>2

LEMMA OthersAsPromised ==
  ASSUME IInv, Customer \/ \E t \in Tasks : Renewal(t)
  PROVE  [Books!Next]_(Books!vars)
<1> USE DEF payVars, docVars, taskVars, reqVars, taskOnly
<1>1. CASE Customer
  <2>1. UNCHANGED <<subs, trx, refunds, acked, pc, ref>>
    BY <1>1 DEF Customer, GeneratePaymentLink, GenerateLinkToAddCard, Pay, ChooseCard
  <2>2. ASSUME NEW f \in Refs, NEW s \in Signatures, Pay(f, s)
        PROVE  \E p \in Payments : paid[f] = None /\ paid' = [paid EXCEPT ![f] = p]
    <3> DEFINE p == [plan |-> link.plan, interval |-> link.interval,
                     autoRenew |-> link.autoRenew, app |-> link.app, sig |-> s]
    <3>1. link \in Links
      BY <2>2 DEF Pay, IInv, TypeOK, PaymentsOK
    <3>2. p \in Payments
      BY <3>1 DEF Links, Payments
    <3>3. paid[f] = None /\ paid' = [paid EXCEPT ![f] = p]
      BY <2>2 DEF Pay
    <3> QED
      BY <3>2, <3>3
  <2>3. UNCHANGED paid \/ \E f \in Refs, s \in Signatures : Pay(f, s)
    BY <1>1 DEF Customer, GeneratePaymentLink, GenerateLinkToAddCard, ChooseCard
  <2> QED
    BY <2>1, <2>2, <2>3, ChargesAsPromised
<1>2. ASSUME NEW t \in Tasks, Renewal(t) PROVE [Books!Next]_(Books!vars)
  <2>1. UNCHANGED <<subs, trx, refunds, acked, pc, ref>>
    BY <1>2 DEF Renewal, StartRenewal, FindCard, FindSub, ChargeCard, FinishRenewal, WorkerDies
  <2>2. UNCHANGED paid \/ ChargeCard(t)
    BY <1>2 DEF Renewal, StartRenewal, FindCard, FindSub, FinishRenewal, WorkerDies
  <2>3. CASE ChargeCard(t)
    <3>1. tLocal[t] \in Payments
      BY <2>3 DEF ChargeCard, IInv, Owned, TaskOK
    <3> QED
      BY <2>1, <2>3, <3>1, ChargesAsPromised DEF ChargeCard, ChargeAuthorization
  <2> QED
    BY <2>1, <2>2, <2>3, ChargesAsPromised
<1> QED
  BY <1>1, <1>2

\* The handling of charges keeps the promise of Settlement, whatever overlaps or fails:
\* each delivery subscribes, records and gives back at most once, in this order and for
\* its own charge, and answers only what was recorded, tried or already there.
THEOREM BooksKept == Spec => SettlesAsPromised
<1>1. Init => Books!Init
  <2> SUFFICES ASSUME Init PROVE Books!Init
    OBVIOUS
  <2>1. \A r \in Requests : Budget(r) = {}
    BY DEF Init, Budget
  <2> QED
    BY <2>1 DEF Init, Books!Init
<1>2. IInv /\ [Next]_vars => [Books!Next]_(Books!vars)
  <2> SUFFICES ASSUME IInv, [Next]_vars PROVE [Books!Next]_(Books!vars)
    OBVIOUS
  <2>1. CASE Customer \/ \E t \in Tasks : Renewal(t)
    BY <2>1, OthersAsPromised
  <2>2. ASSUME NEW r \in Requests, Webhook(r) PROVE [Books!Next]_(Books!vars)
    BY <2>2, TakesAsPromised, SubscribesAsPromised, RecordsAsPromised DEF Webhook
  <2>3. CASE UNCHANGED vars
    BY <2>3, ChargesAsPromised DEF vars, payVars, docVars, reqVars
  <2> QED
    BY <2>1, <2>2, <2>3 DEF Next
<1> QED
  BY <1>1, <1>2, Invariance, PTL DEF Spec, SettlesAsPromised, Books!Spec
===============================================================================
