-------------------------------- MODULE Billing --------------------------------
(***************************************************************************)
(* Payments of one application: the payment link and its proration, the     *)
(* webhook by which Paystack reports a charge, the saved cards of the        *)
(* workspace and the task that charges a card again.  One database, queue    *)
(* or Paystack call per step; deliveries of one charge, of several charges   *)
(* and renewal tasks run between two of them.                                *)
(***************************************************************************)
EXTENDS Integers, FiniteSets, Sequences

CONSTANTS
  Refs,        \* transaction references: bounds the charges of a behaviour
  Requests,    \* webhook deliveries that can be handled at once
  Signatures,  \* cards of the customer
  Tasks,       \* auto_renewal tasks: bounds those of a behaviour
  Plans,       \* the paid plans
  Price,       \* Price[plan][frequency], in the unit of Wrap
  Wrap,        \* 2^32 in that unit: amounts are uint32
  Elapsed,     \* days since the current period began
  MaxCards,    \* bound on the card ids of a behaviour
  Offers,      \* the subscriptions the customer asks links for
  MayFail,     \* the sets of failures a behaviour may have
  None

Frequencies == {"monthly", "annually"}

\* What a link asks to be paid, and what a charge carries back in its metadata: no plan
\* means reverse, the verification of a card; app tells whether an application is named.
Links    == [plan : Plans \cup {None}, interval : Frequencies,
             autoRenew : BOOLEAN, app : BOOLEAN]
Payments == [plan : Plans \cup {None}, interval : Frequencies,
             autoRenew : BOOLEAN, app : BOOLEAN, sig : Signatures]

ASSUME ConstantsAssumption ==
  /\ IsFiniteSet(Requests) /\ IsFiniteSet(Tasks) /\ IsFiniteSet(Refs)
  /\ Plans \subseteq {"Essential", "Premium"}
  /\ Price \in [Plans -> [Frequencies -> Nat]]
  /\ Wrap \in Nat /\ Wrap > 365 /\ Elapsed \subseteq Nat
  /\ \A p \in Plans, f \in Frequencies : Price[p][f] < Wrap
  /\ MaxCards \in Nat /\ {} \in MayFail
  /\ Offers \subseteq [plan : Plans, interval : Frequencies, autoRenew : BOOLEAN]
  /\ None \notin Plans \cup Signatures \cup Refs \cup Links \cup Payments

\* The prices of subscription/index.go: a year costs at least two months, of any plan,
\* and Premium at least twice Essential.
ASSUME PricesAssumption ==
  \A p, q \in Plans :
    /\ 2 * Price[p]["monthly"] <= Price[q]["annually"]
    /\ p = "Essential" /\ q = "Premium" => \A f \in Frequencies : 2 * Price[p][f] <= Price[q][f]

VARIABLES
  link,       \* the payment link given out last
  paid,       \* Paystack's charges by reference, None while unused
  refunds,    \* reversals asked of Paystack, per reference
  acked,      \* references whose delivery was answered with 200
  trx,        \* transaction documents, per refID
  subs,       \* active subscriptions of the application, oldest first
  cards,      \* paymentDetails of the workspace
  appCard,    \* paymentCard of the application
  nextCard,   \* the next card id
  task,       \* state of each auto_renewal task
  tLocal,     \* what the task read: its card, or the charge it will make
  charges,    \* ghost: charges each task asked for
  pc, ref,    \* of a delivery: where it is, the reference it reports
  plan,       \* did it find the plan?
  old,        \* the active subscription it found: position, 0 for none
  renew,      \* AutoRenew of that one
  list,       \* the cards it read
  card,       \* the card it settles on
  overlapped, \* ghost: two deliveries were ever handled at once
  faults      \* ghost: the kinds of calls that failed, and who died

docVars   == <<trx, subs, cards, appCard, nextCard>>
payVars   == <<link, paid, refunds, acked>>
taskVars  == <<task, tLocal, charges>>
reqVars   == <<pc, ref, plan, old, renew, list, card>>
ghostVars == <<overlapped, faults>>
vars == <<payVars, docVars, taskVars, reqVars, ghostVars>>

PCs == {"idle", "count", "plan", "sub", "writeSub", "record", "workspace",
        "saveCards", "appCard", "finish"}
TaskStates == {"none", "queued", "card", "sub", "charge", "charged", "done"}

Subs     == [plan : Plans, interval : Frequencies, autoRenew : BOOLEAN]
CardInfo == [id : 1..MaxCards, sig : Signatures]
Kinds    == {"count", "plan", "sub", "insert", "card", "refund", "enqueue", "died",
             "worker"}
NoCard == [id |-> 0, sig |-> None]

PaymentsOK ==
  /\ link \in Links \cup {None}
  /\ paid \in [Refs -> Payments \cup {None}]
  /\ refunds \in [Refs -> Nat] /\ acked \subseteq Refs
DocsOK ==
  /\ trx \in [Refs -> Nat] /\ subs \in Seq(Subs)
  /\ cards \subseteq CardInfo /\ appCard \in CardInfo \cup {NoCard}
  /\ nextCard \in 1..(MaxCards + 1)
TasksOK ==
  /\ task \in [Tasks -> TaskStates]
  /\ tLocal \in [Tasks -> CardInfo \cup Payments \cup {NoCard}]
  /\ charges \in [Tasks -> Nat]
LocalsOK ==
  /\ pc \in [Requests -> PCs] /\ ref \in [Requests -> Refs \cup {None}]
  /\ plan \in [Requests -> BOOLEAN] /\ old \in [Requests -> Nat]
  /\ renew \in [Requests -> BOOLEAN]
  /\ list \in [Requests -> SUBSET CardInfo]
  /\ card \in [Requests -> CardInfo \cup {NoCard}]
GhostsOK == overlapped \in BOOLEAN /\ faults \in MayFail

TypeOK == PaymentsOK /\ DocsOK /\ TasksOK /\ LocalsOK /\ GhostsOK

Init ==
  /\ link = None /\ paid = [f \in Refs |-> None]
  /\ refunds = [f \in Refs |-> 0] /\ acked = {}
  /\ trx = [f \in Refs |-> 0] /\ subs = <<>>
  /\ cards = {} /\ appCard = NoCard /\ nextCard = 1
  /\ task = [t \in Tasks |-> "none"] /\ tLocal = [t \in Tasks |-> NoCard]
  /\ charges = [t \in Tasks |-> 0]
  /\ pc = [r \in Requests |-> "idle"] /\ ref = [r \in Requests |-> None]
  /\ plan = [r \in Requests |-> FALSE] /\ old = [r \in Requests |-> 0]
  /\ renew = [r \in Requests |-> FALSE] /\ list = [r \in Requests |-> {}]
  /\ card = [r \in Requests |-> NoCard]
  /\ overlapped = FALSE /\ faults = {}

(***************************************************************************)
(* Payment links.                                                            *)
(***************************************************************************)
Days(f) == IF f = "monthly" THEN 30 ELSE 365

\* daysElapsed is the ceiling of minus the elapsed days, so never positive;
\* uint32 of a negative float64 is left to the implementation: it wraps on
\* amd64 and saturates to 0 on arm64.
AsUint32(minusDays) == {(Wrap - minusDays) % Wrap, 0}

\* activeSubAmount, for each outcome of the conversion.
Credit(s, elapsed) ==
  IF s = None THEN {0}
  ELSE LET p == Price[s.plan][s.interval] IN
       {(p - (p \div Days(s.interval)) * d) % Wrap : d \in AsUint32(elapsed)}

ActiveSub == IF subs = <<>> THEN None ELSE subs[1]

\* Mutant of MayPayFor: an annual subscriber may pay for a month.
MayPayForAnyInterval(s, p, f) ==
  s # None =>
    /\ ~(s.plan = "Premium" /\ p = "Essential" /\ f = "monthly")
    /\ ~(s.interval = f /\ s.plan = p)

\* The refusals of GeneratePaymentLink that look at the current subscription.
MayPayFor(s, p, f) ==
  s # None =>
    /\ ~(s.plan = "Premium" /\ p = "Essential" /\ f = "monthly")
    /\ ~(s.interval = "annually" /\ f = "monthly")
    /\ ~(s.interval = f /\ s.plan = p)

\* The amount of the link, uint32 again.
Amounts(s, p, f, elapsed) == {(Price[p][f] - c) % Wrap : c \in Credit(s, elapsed)}

\* POST /transaction/initialize: a failure leaves the customer without a link.
InitializeTransaction(metadata) == link' \in {metadata, link}

GeneratePaymentLink(o) ==
  /\ Price[o.plan]["monthly"] # 0 /\ Price[o.plan]["annually"] # 0
  /\ MayPayFor(ActiveSub, o.plan, o.interval)
  /\ InitializeTransaction([plan |-> o.plan, interval |-> o.interval,
                            autoRenew |-> o.autoRenew, app |-> TRUE])
  /\ UNCHANGED <<paid, refunds, acked, docVars, taskVars, reqVars, ghostVars>>

\* The application is optional; the amount, 500_00, is given back.
GenerateLinkToAddCard(app) ==
  /\ InitializeTransaction([plan |-> None, interval |-> "monthly",
                            autoRenew |-> FALSE, app |-> app])
  /\ UNCHANGED <<paid, refunds, acked, docVars, taskVars, reqVars, ghostVars>>

\* The customer pays the link (Paystack).
Pay(f, s) ==
  /\ link # None /\ paid[f] = None
  /\ paid' = [paid EXCEPT ![f] = [plan |-> link.plan, interval |-> link.interval,
                                  autoRenew |-> link.autoRenew, app |-> link.app, sig |-> s]]
  /\ link' = None
  /\ UNCHANGED <<refunds, acked, docVars, taskVars, reqVars, ghostVars>>

(***************************************************************************)
(* ProcessPaystackWebhook.  A delivery that is refused before it counts the  *)
(* transactions - bad signature, failed verification - changes nothing.      *)
(***************************************************************************)
Goto(r, where) == pc' = [pc EXCEPT ![r] = where]

\* Each kind fails at most once in a behaviour.
Fault(kind) ==
  kind \notin faults /\ faults' = faults \cup {kind} /\ faults' \in MayFail
Fine == UNCHANGED faults

\* The request ends; what it read is forgotten.
Ended(r) ==
  /\ Goto(r, "idle")
  /\ ref' = [ref EXCEPT ![r] = None] /\ plan' = [plan EXCEPT ![r] = FALSE]
  /\ old' = [old EXCEPT ![r] = 0] /\ renew' = [renew EXCEPT ![r] = FALSE]
  /\ list' = [list EXCEPT ![r] = {}] /\ card' = [card EXCEPT ![r] = NoCard]

\* ... with an answer of 200, so Paystack need not deliver again.
Answered(r) == Ended(r) /\ acked' = acked \cup {ref[r]}

Charge(r) == paid[ref[r]]
Reverse(r) == Charge(r).plan = None

\* VerifyTransaction: what Paystack says of a reference, when it can be asked.
VerifyTransaction(f) == paid[f]

Deliver(r, f) ==
  /\ pc[r] = "idle" /\ VerifyTransaction(f) # None
  /\ Goto(r, "count") /\ ref' = [ref EXCEPT ![r] = f]
  /\ overlapped' = (overlapped \/ \E q \in Requests \ {r} : pc[q] # "idle")
  /\ UNCHANGED <<payVars, docVars, taskVars, plan, old, renew, list, card, faults>>

\* Mutants of CountTransactions: duplicates are not looked for; or a verification
\* is reversed and not recorded.
CountTransactionsNever(r) ==
  /\ pc[r] = "count" /\ Goto(r, IF Reverse(r) THEN "record" ELSE "plan") /\ Fine
  /\ UNCHANGED <<payVars, docVars, taskVars, ref, plan, old, renew, list, card, overlapped>>
CountTransactionsReversesFirst(r) ==
  /\ pc[r] = "count" /\ Fine
  /\ \/ trx[ref[r]] # 0 /\ Answered(r)
     \/ trx[ref[r]] = 0 /\ Goto(r, IF Reverse(r) THEN "finish" ELSE "plan")
        /\ UNCHANGED <<acked, ref, plan, old, renew, list, card>>
  /\ UNCHANGED <<link, paid, refunds, docVars, taskVars, overlapped>>

\* CountDocs answers 0 when it fails.
CountTransactions(r) ==
  /\ pc[r] = "count"
  /\ \/ /\ trx[ref[r]] # 0 /\ Answered(r) /\ Fine
     \/ /\ \/ trx[ref[r]] = 0 /\ Fine
           \/ trx[ref[r]] # 0 /\ Fault("count")
        /\ Goto(r, IF Reverse(r) THEN "record" ELSE "plan")
        /\ UNCHANGED <<acked, ref, plan, old, renew, list, card>>
  /\ UNCHANGED <<link, paid, refunds, docVars, taskVars, overlapped>>

\* The error of this FindByID is dropped: the plan is nil then.
FindPlan(r) ==
  /\ pc[r] = "plan"
  /\ \/ plan' = [plan EXCEPT ![r] = TRUE] /\ Fine
     \/ plan' = plan /\ Fault("plan")
  /\ Goto(r, "sub")
  /\ UNCHANGED <<payVars, docVars, taskVars, ref, old, renew, list, card, overlapped>>

\* So is the error of this lookup: the application then seems to have none.
FindActiveSub(r) ==
  /\ pc[r] = "sub"
  /\ \/ /\ subs # <<>> /\ old' = [old EXCEPT ![r] = 1]
        /\ renew' = [renew EXCEPT ![r] = subs[1].autoRenew] /\ Fine
     \/ subs = <<>> /\ UNCHANGED <<old, renew>> /\ Fine
     \/ subs # <<>> /\ UNCHANGED <<old, renew>> /\ Fault("sub")
  /\ Goto(r, "writeSub")
  /\ UNCHANGED <<payVars, docVars, taskVars, ref, plan, list, card, overlapped>>

PaidSub(r) == [plan |-> Charge(r).plan, interval |-> Charge(r).interval,
               autoRenew |-> Charge(r).autoRenew]

\* Without an active subscription the plan is looked up again and one is
\* created; the description of the transaction then takes the name of the
\* first lookup's plan and panics when that was nil.
CreateSubscription(r) ==
  /\ pc[r] = "writeSub" /\ old[r] = 0
  /\ \/ Fault("plan") /\ Ended(r) /\ UNCHANGED subs           \* the second lookup fails
     \/ /\ \/ subs' = Append(subs, PaidSub(r)) /\ Fine
           \/ UNCHANGED subs /\ Fault("sub")                  \* CreateOne's error is dropped
        /\ IF plan[r] THEN /\ Goto(r, "record")
                           /\ UNCHANGED <<ref, plan, old, renew, list, card>>
                      ELSE Ended(r)
  /\ UNCHANGED <<payVars, trx, cards, appCard, nextCard, taskVars, overlapped>>

\* Mutant of UpdateSubscription: the interval is left out of the update.
UpdateSubscriptionKeepsInterval(r) ==
  /\ pc[r] = "writeSub" /\ old[r] # 0 /\ plan[r] /\ Fine
  /\ subs' = [subs EXCEPT ![old[r]] = [PaidSub(r) EXCEPT !.interval = subs[old[r]].interval]]
  /\ Goto(r, "record")
  /\ UNCHANGED <<payVars, trx, cards, appCard, nextCard, taskVars,
                 ref, plan, old, renew, list, card, overlapped>>

UpdateSubscription(r) ==
  /\ pc[r] = "writeSub" /\ old[r] # 0
  /\ IF plan[r]
     THEN /\ \/ subs' = [subs EXCEPT ![old[r]] = PaidSub(r)] /\ Fine
             \/ UNCHANGED subs /\ Fault("sub")
          /\ Goto(r, "record")
          /\ UNCHANGED <<ref, plan, old, renew, list, card>>
     ELSE Ended(r) /\ Fine /\ UNCHANGED subs
  /\ UNCHANGED <<payVars, trx, cards, appCard, nextCard, taskVars, overlapped>>

\* SaveCardAndCreateTransaction, from here to SetAppCard.
CreateTransaction(r) ==
  /\ pc[r] = "record"
  /\ \/ trx' = [trx EXCEPT ![ref[r]] = @ + 1] /\ Fine
     \/ UNCHANGED trx /\ Fault("insert")
  /\ Goto(r, "workspace")
  /\ UNCHANGED <<payVars, subs, cards, appCard, nextCard, taskVars,
                 ref, plan, old, renew, list, card, overlapped>>

\* A nil workspace is dereferenced.
FindWorkspace(r) ==
  /\ pc[r] = "workspace"
  /\ \/ /\ Goto(r, "saveCards") /\ list' = [list EXCEPT ![r] = cards] /\ Fine
        /\ UNCHANGED <<ref, plan, old, renew, card>>
     \/ Fault("died") /\ Ended(r)
  /\ UNCHANGED <<payVars, docVars, taskVars, overlapped>>

WithSignature(r) == {c \in list[r] : c.sig = Charge(r).sig}

\* Mutant of SaveCards: the new card takes the place of the list.
SaveCardsReplacesList(r) ==
  /\ pc[r] = "saveCards" /\ Goto(r, "appCard") /\ Fine
  /\ \/ /\ \E c \in WithSignature(r) : card' = [card EXCEPT ![r] = c]
        /\ UNCHANGED <<cards, nextCard>>
     \/ /\ WithSignature(r) = {} /\ nextCard <= MaxCards
        /\ cards' = {[id |-> nextCard, sig |-> Charge(r).sig]}
        /\ card' = [card EXCEPT ![r] = [id |-> nextCard, sig |-> Charge(r).sig]]
        /\ nextCard' = nextCard + 1
  /\ UNCHANGED <<payVars, trx, subs, appCard, taskVars,
                 ref, plan, old, renew, list, overlapped>>

\* A known card is kept; a new one is appended to the list that was read, and
\* the whole list is written.
SaveCards(r) ==
  /\ pc[r] = "saveCards" /\ Goto(r, "appCard")
  /\ \/ /\ \E c \in WithSignature(r) : card' = [card EXCEPT ![r] = c]
        /\ UNCHANGED <<cards, nextCard>> /\ Fine
     \/ /\ WithSignature(r) = {} /\ nextCard <= MaxCards
        /\ LET new == [id |-> nextCard, sig |-> Charge(r).sig] IN
             /\ card' = [card EXCEPT ![r] = new]
             /\ \/ cards' = list[r] \cup {new} /\ Fine
                \/ UNCHANGED cards /\ Fault("card")
        /\ nextCard' = nextCard + 1
  /\ UNCHANGED <<payVars, trx, subs, appCard, taskVars,
                 ref, plan, old, renew, list, overlapped>>

SetAppCard(r) ==
  /\ pc[r] = "appCard" /\ Goto(r, "finish")
  /\ \/ appCard' = (IF Charge(r).app THEN card[r] ELSE appCard) /\ Fine
     \/ Charge(r).app /\ UNCHANGED appCard /\ Fault("card")
  /\ UNCHANGED <<payVars, trx, subs, cards, nextCard, taskVars,
                 ref, plan, old, renew, list, card, overlapped>>

ReverseTransaction(f) ==
  \/ refunds' = [refunds EXCEPT ![f] = @ + 1] /\ Fine
  \/ UNCHANGED refunds /\ Fault("refund")

\* Mutant of Refund: a refund that was asked for is asked for again.
RefundAsksAgain(r) ==
  /\ pc[r] = "finish" /\ Reverse(r) /\ ReverseTransaction(ref[r])
  /\ \/ Answered(r)
     \/ refunds' # refunds /\ UNCHANGED <<reqVars, acked>>
  /\ UNCHANGED <<link, paid, docVars, taskVars, overlapped>>

\* The answer of ReverseTransaction is not looked at.
Refund(r) ==
  /\ pc[r] = "finish" /\ Reverse(r) /\ Answered(r)
  /\ ReverseTransaction(ref[r])
  /\ UNCHANGED <<link, paid, docVars, taskVars, overlapped>>

\* Enqueue drops its error.
Enqueue ==
  \/ /\ \E t \in Tasks : task[t] = "none" /\ task' = [task EXCEPT ![t] = "queued"]
     /\ Fine
  \/ UNCHANGED task /\ Fault("enqueue")

\* The next renewal is queued for a first subscription, or when the OLD one
\* renewed itself.
EnqueueRenewal(r) ==
  /\ pc[r] = "finish" /\ ~Reverse(r) /\ Answered(r)
  /\ IF old[r] = 0 \/ renew[r]
     THEN Enqueue
     ELSE UNCHANGED task /\ Fine
  /\ UNCHANGED <<link, paid, refunds, docVars, tLocal, charges, overlapped>>

\* The process stops in the middle of a delivery.
RequestDies(r) ==
  /\ pc[r] # "idle" /\ Fault("died") /\ Ended(r)
  /\ UNCHANGED <<payVars, docVars, taskVars, overlapped>>

(***************************************************************************)
(* HandleSubscriptionAutoRenewal, and the card set by UpdateApplication.     *)
(***************************************************************************)
Step(t, where) == task' = [task EXCEPT ![t] = where]

\* An error puts the task back for RetryInterval, a day; SkipRetry ends it.
Retry(t) == Step(t, "queued") /\ tLocal' = [tLocal EXCEPT ![t] = NoCard]
SkipRetry(t) == Step(t, "done") /\ tLocal' = [tLocal EXCEPT ![t] = NoCard]

taskOnly == <<link, refunds, acked, docVars, reqVars, overlapped>>

\* The application is read: the deletion of applications is not in this module.
StartRenewal(t) ==
  /\ task[t] = "queued" /\ appCard # NoCard
  /\ Step(t, "card") /\ tLocal' = [tLocal EXCEPT ![t] = appCard]
  /\ UNCHANGED <<taskOnly, paid, charges, faults>>

\* Then the workspace, and the card by its id among the saved ones.
FindCard(t) ==
  /\ task[t] = "card"
  /\ IF \E c \in cards : c.id = tLocal[t].id
     THEN Step(t, "sub") /\ UNCHANGED tLocal
     ELSE Retry(t)
  /\ UNCHANGED <<taskOnly, paid, charges, faults>>

\* Then the subscription and its plan.
FindSub(t) ==
  /\ task[t] = "sub"
  /\ \/ /\ subs # <<>> /\ subs[1].autoRenew /\ Step(t, "charge")
        /\ tLocal' = [tLocal EXCEPT ![t] =
                        [plan |-> subs[1].plan, interval |-> subs[1].interval,
                         autoRenew |-> TRUE, app |-> TRUE, sig |-> tLocal[t].sig]]
     \/ subs # <<>> /\ ~subs[1].autoRenew /\ SkipRetry(t)
     \/ subs = <<>> /\ Retry(t)
  /\ UNCHANGED <<taskOnly, paid, charges, faults>>

\* POST /transaction/charge_authorization: the card may be declined.
ChargeAuthorization(payment) ==
  \/ \E f \in Refs : paid[f] = None /\ paid' = [paid EXCEPT ![f] = payment]
  \/ UNCHANGED paid

\* The answer of ChargeCard is not looked at.
ChargeCard(t) ==
  /\ task[t] = "charge" /\ Step(t, "charged")
  /\ charges' = [charges EXCEPT ![t] = @ + 1] /\ ChargeAuthorization(tLocal[t])
  /\ UNCHANGED <<taskOnly, tLocal, faults>>

\* Mutant of FinishRenewal: the task queues its successor, as the delivery of its charge does.
FinishRenewalQueuesNext(t) ==
  /\ task[t] = "charged"
  /\ \E u \in Tasks : /\ task[u] = "none"
                     /\ task' = [task EXCEPT ![t] = "done", ![u] = "queued"]
  /\ tLocal' = [tLocal EXCEPT ![t] = NoCard]
  /\ UNCHANGED <<taskOnly, paid, charges, faults>>

FinishRenewal(t) ==
  /\ task[t] = "charged" /\ SkipRetry(t)
  /\ UNCHANGED <<taskOnly, paid, charges, faults>>

\* The worker stops, or the task runs longer than its timeout: asynq runs it again.
WorkerDies(t) ==
  /\ task[t] \in {"card", "sub", "charge", "charged"} /\ Fault("worker") /\ Retry(t)
  /\ UNCHANGED <<taskOnly, paid, charges>>

\* UpdateApplication takes a card of the list only; a deposit of another card
\* in between leaves that card in the list.
ChooseCard(c) ==
  /\ c \in cards /\ appCard' = c
  /\ UNCHANGED <<payVars, trx, subs, cards, nextCard, taskVars, reqVars, ghostVars>>

Webhook(r) ==
  \/ \E f \in Refs : Deliver(r, f)
  \/ CountTransactions(r) \/ FindPlan(r) \/ FindActiveSub(r)
  \/ CreateSubscription(r) \/ UpdateSubscription(r) \/ CreateTransaction(r)
  \/ FindWorkspace(r) \/ SaveCards(r) \/ SetAppCard(r)
  \/ Refund(r) \/ EnqueueRenewal(r) \/ RequestDies(r)

Renewal(t) ==
  \/ StartRenewal(t) \/ FindCard(t) \/ FindSub(t) \/ ChargeCard(t)
  \/ FinishRenewal(t) \/ WorkerDies(t)

Customer ==
  \/ \E o \in Offers : GeneratePaymentLink(o)
  \/ \E app \in BOOLEAN : GenerateLinkToAddCard(app)
  \/ \E f \in Refs, s \in Signatures : Pay(f, s)
  \/ \E c \in cards : ChooseCard(c)

Next == \/ Customer
        \/ \E r \in Requests : Webhook(r)
        \/ \E t \in Tasks : Renewal(t)

Spec == Init /\ [][Next]_vars

(***************************************************************************)
(* Properties.                                                               *)
(***************************************************************************)
Calm == ~overlapped /\ faults = {}

Handled(f) == \E r \in Requests : ref[r] = f

\* What a subscription says was paid for: its plan, interval and renewal all
\* come from one charge, and that charge has its transaction document, unless
\* a delivery of it is still being handled, was cut short or could not write it.
SubscriptionWasPaid ==
  \A i \in DOMAIN subs : \E f \in Refs :
    /\ paid[f] # None
    /\ subs[i] = [plan |-> paid[f].plan, interval |-> paid[f].interval,
                  autoRenew |-> paid[f].autoRenew]
    /\ trx[f] > 0 \/ Handled(f) \/ faults \cap {"plan", "insert", "died"} # {}

\* However many deliveries overlap, and whatever else fails, a charge gets no
\* more transaction documents than there are handlers past the duplicate check
\* at once, as long as the check's own query does not fail.
RecordsBound ==
  "count" \notin faults => \A f \in Refs : trx[f] <= Cardinality(Requests)

\* Deliveries one at a time and without failures count every charge once: one
\* transaction, at most one refund, one subscription for the application.
OnceWhenCalm ==
  Calm => /\ \A f \in Refs : trx[f] <= 1 /\ refunds[f] <= 1
          /\ Len(subs) <= 1

\* A charge answered with 200 has its transaction, unless the insertion failed;
\* one that only verified a card is given back, or is about to be - unless the
\* refund failed, or its handler died after the transaction was written: the
\* next delivery is then taken for a duplicate.
AckedIsSettled ==
  \A f \in acked :
    /\ trx[f] > 0 \/ "insert" \in faults
    /\ \/ paid[f].plan # None \/ refunds[f] > 0 \/ Handled(f)
       \/ faults \cap {"refund", "died"} # {}

\* The card of the application is one of the saved cards, unless deliveries
\* overlapped - the list is written back whole - or a write of a card failed:
\* a renewal finds the card it is to charge.
AppCardListed ==
  (~overlapped /\ "card" \notin faults) => appCard \in cards \cup {NoCard}

\* Renewals do not multiply: a task charges a card once, unless its worker died; and
\* there are no more tasks than recorded charges for a plan, those made by the tasks
\* included, unless deliveries overlapped, the insertion or the duplicate check failed.
RenewalsBound ==
  /\ "worker" \notin faults => \A t \in Tasks : charges[t] <= 1
  /\ (~overlapped /\ faults \cap {"insert", "count"} = {}) =>
       Cardinality({t \in Tasks : task[t] # "none"})
         <= Cardinality({f \in Refs : trx[f] > 0 /\ paid[f].plan # None})

\* Within the period of the current subscription no link asks for more than the
\* new plan costs, whatever the conversion of the negative days yields: the
\* credit does not wrap, except from annual Premium to annual Essential, where
\* it exceeds the price.
LinkNotAbovePrice ==
  \A p \in Plans, f \in Frequencies, e \in Elapsed :
    LET s == ActiveSub IN
    \/ ~MayPayFor(s, p, f)
    \/ s # None /\ e > Days(s.interval)
    \/ s # None /\ s.plan = "Premium" /\ s.interval = "annually" /\ p = "Essential"
    \/ \A a \in Amounts(s, p, f, e) : a <= Price[p][f]

\* However deliveries overlap, a charge is recorded no more often than handlers
\* are past the check at once, and one at a time it is recorded, given back and
\* subscribed for once.
ChargesCounted == TypeOK /\ RecordsBound /\ OnceWhenCalm

\* The effects the delivery of a request may still have, from where it is.
Ahead(here) ==
  CASE here \in {"count", "plan", "sub", "writeSub"} -> {"subscribe", "record", "refund"}
    [] here = "record"                               -> {"record", "refund"}
    [] here = "idle"                                 -> {}
    [] OTHER                                         -> {"refund"}
Budget(r) == IF ref[r] = None THEN {}
             ELSE Ahead(pc[r]) \cap (IF Reverse(r) THEN {"record", "refund"}
                                     ELSE {"subscribe", "record"})

Books == INSTANCE Settlement WITH budget <- [r \in Requests |-> Budget(r)]

\* Whatever lookups, cards, renewals and failures come between, a delivery has each of
\* its effects at most once, in their order and for its own charge only, and is
\* answered when it recorded the charge, tried to, or found the record of another.
SettlesAsPromised == Books!Spec

================================================================================
