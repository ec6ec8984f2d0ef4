----------------------------- MODULE Settlement -----------------------------
(***************************************************************************)
(* What the handling of Paystack's charges promises to the books of an     *)
(* application, with no cards, tasks, lookups, failures or program         *)
(* counters.  A handler takes a charge that was made; with it goes a       *)
(* budget of effects, each to be used once and only for that charge: to    *)
(* write its subscription, to record it, to give it back.  The subscription *)
(* comes before the record and the record before the refund; an effect may *)
(* be left out, but a charge is answered only when it is recorded or its   *)
(* handler tried to.  Billing implements it.                               *)
(***************************************************************************)
EXTENDS Naturals, Sequences

CONSTANTS Refs, Requests, Payments, None

VARIABLES
  paid,      \* the charges made, per reference
  subs,      \* the subscriptions
  trx,       \* records of each charge
  refunds,   \* refunds of each charge
  acked,     \* the charges answered
  ref,       \* the charge a handler took, or None
  budget     \* the effects a handler may still have

vars == <<paid, subs, trx, refunds, acked, ref, budget>>

Effects == {"subscribe", "record", "refund"}

Init ==
  /\ paid = [f \in Refs |-> None] /\ subs = <<>>
  /\ trx = [f \in Refs |-> 0] /\ refunds = [f \in Refs |-> 0] /\ acked = {}
  /\ ref = [r \in Requests |-> None] /\ budget = [r \in Requests |-> {}]

Spend(r, effects) == budget' = [budget EXCEPT ![r] = @ \ effects]
Leave(r) == ref' = [ref EXCEPT ![r] = None] /\ budget' = [budget EXCEPT ![r] = {}]

Charge(f) ==
  /\ paid[f] = None /\ \E p \in Payments : paid' = [paid EXCEPT ![f] = p]
  /\ UNCHANGED <<subs, trx, refunds, acked, ref, budget>>

\* What a charge with a plan is for, and one that only verifies a card.
Due(p) == IF p.plan = None THEN {"record", "refund"} ELSE {"subscribe", "record"}

Take(r, f) ==
  /\ ref[r] = None /\ paid[f] # None
  /\ ref' = [ref EXCEPT ![r] = f] /\ budget' = [budget EXCEPT ![r] = Due(paid[f])]
  /\ UNCHANGED <<paid, subs, trx, refunds, acked>>

\* A first subscription, or a new one in the place of another.
Subscribe(r) ==
  LET p == paid[ref[r]]
      s == [plan |-> p.plan, interval |-> p.interval, autoRenew |-> p.autoRenew] IN
  /\ "subscribe" \in budget[r]
  /\ \/ subs' = Append(subs, s)
     \/ \E i \in DOMAIN subs : subs' = [subs EXCEPT ![i] = s]
  /\ \/ Spend(r, {"subscribe"}) /\ UNCHANGED ref
     \/ Leave(r)
  /\ UNCHANGED <<paid, trx, refunds, acked>>

Record(r) ==
  /\ "record" \in budget[r] /\ "subscribe" \notin budget[r]
  /\ trx' = [trx EXCEPT ![ref[r]] = @ + 1]
  /\ Spend(r, {"record"})
  /\ UNCHANGED <<paid, subs, refunds, acked, ref>>

LeaveOut(r, effect) ==
  /\ effect \in budget[r] /\ Spend(r, {effect})
  /\ UNCHANGED <<paid, subs, trx, refunds, acked, ref>>

Answer(r) == acked' = acked \cup {ref[r]} /\ Leave(r)

Refund(r) ==
  /\ "refund" \in budget[r] /\ "record" \notin budget[r]
  /\ refunds' = [refunds EXCEPT ![ref[r]] = @ + 1]
  /\ Answer(r) /\ UNCHANGED <<paid, subs, trx>>

Finish(r) ==
  /\ ref[r] # None
  /\ "record" \notin budget[r] \/ trx[ref[r]] > 0
  /\ Answer(r) /\ UNCHANGED <<paid, subs, trx, refunds>>

\* The delivery is given up: Paystack delivers the charge again.
Drop(r) ==
  /\ ref[r] # None /\ Leave(r) /\ UNCHANGED <<paid, subs, trx, refunds, acked>>

Next ==
  \/ \E r \in Requests :
       \/ Subscribe(r) \/ Record(r) \/ Refund(r) \/ Finish(r) \/ Drop(r)
       \/ \E e \in Effects : LeaveOut(r, e)
       \/ \E f \in Refs : Take(r, f)
  \/ \E f \in Refs : Charge(f)

Spec == Init /\ [][Next]_vars
=============================================================================
