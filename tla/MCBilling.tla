------------------------------- MODULE MCBilling -------------------------------
(* TLC instances of Billing.  The unit of amounts is 10000 kobo: prices of     *)
(* subscription/index.go, and 2^32 kobo.  In mode "payments" the customer pays *)
(* twice and no renewal is worked off; in mode "renewals" the customer pays    *)
(* for one subscription, with one card, and renewals pay for it again.         *)
EXTENDS Billing, TLC

CONSTANTS f1, f2, f3, r1, r2, t1, t2, t3, s1, s2
VARIABLE mode

MCPrice == [Essential |-> [monthly |-> 870, annually |-> 9600],
            Premium   |-> [monthly |-> 3000, annually |-> 30000]]
MCPrices == [p \in Plans |-> MCPrice[p]]

MCOffers == {[plan |-> "Essential", interval |-> "monthly", autoRenew |-> TRUE],
             [plan |-> "Premium", interval |-> "annually", autoRenew |-> FALSE]}

OneFault == {{}} \cup {{k} : k \in Kinds}

Paid(p) == {f \in Refs : p[f] # None}

\* A link is asked for while a reference is left to pay it; with overlapping
\* deliveries the only failure is a death; and with two cards there is none.
Twice ==
  /\ Cardinality(Paid(paid')) <= 2
  /\ link' = None \/ Cardinality(Paid(paid')) < 2
  /\ overlapped' => faults' \subseteq {"died"}
  /\ faults' # {} => Cardinality({paid'[f].sig : f \in Paid(paid')}) <= 1
  /\ \A t \in Tasks : task'[t] \in {"none", "queued"}

Renewals ==
  /\ link' # None => Paid(paid') = {} /\ link'.app /\ link'.plan = "Essential"
  /\ overlapped' => faults' = {}

Upgrades ==
  /\ link' # None => link'.app /\ link'.plan # None
  /\ Cardinality({paid'[f].sig : f \in Paid(paid')}) <= 1
  /\ ~overlapped' /\ faults' \subseteq {"worker", "enqueue"}

MCInit == Init /\ mode \in {"payments", "renewals", "upgrades"}
MCNext ==
  /\ Next /\ UNCHANGED mode
  /\ mode = "payments" => Twice
  /\ mode = "renewals" => Renewals
  /\ mode = "upgrades" => Upgrades

MCSpec == MCInit /\ [][MCNext]_<<vars, mode>>

Perms == Permutations(Refs) \cup Permutations(Requests) \cup Permutations(Tasks)
           \cup Permutations(Signatures)
================================================================================
