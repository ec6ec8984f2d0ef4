----------------------------- MODULE MCAccount ------------------------------
(* TLC instance of Account.  Ids of accounts, devices and requests are       *)
(* interchangeable.  In mode "one" requests come one at a time, for all      *)
(* owners and devices and two accounts, until three pairs have confirmed a   *)
(* code, set a picture or passed a face check; in mode "two" they overlap,   *)
(* all for ann's address in lower case, on one account and from one device;  *)
(* in mode "logins" log-ins and sign-ups of both owners overlap.             *)
EXTENDS Account, TLC

CONSTANTS ann, bob, a1, a2, a3, d1, d2, r1, r2
VARIABLE mode

Stored(f) == {i \in DOMAIN f : f[i] # None}

OneAtATime ==
  /\ Cardinality({r \in Requests : pc'[r] # "idle"}) <= 1
  /\ Cardinality(Stored(doc')) <= 2
  /\ Cardinality(confirmed') + Cardinality(pictured') + Cardinality(faced') <= 3

OneAccount ==
  /\ Cardinality(Stored(doc')) <= 1
  /\ Cardinality(Stored(access') \cup Stored(refresh') \cup {p[2] : p \in faced' \cup pictured' \cup confirmed'}
                   \cup {dev'[r] : r \in Stored(dev')}) <= 1
  /\ \A r \in Stored(key') : key'[r] = [who |-> ann, plain |-> TRUE]
  /\ \A x \in Stored(doc') : Len(doc'[x].devices) <= 1

LogIns == \A r \in Requests : pc'[r] \in {"idle", "findLogin", "create", "saveLogin"}

MCInit == Init /\ mode \in {"one", "two", "logins"}
MCNext == /\ Next
          /\ mode = "one" => OneAtATime
          /\ mode = "two" => OneAccount
          /\ mode = "logins" => LogIns
          /\ UNCHANGED mode
MCSpec == MCInit /\ [][MCNext]_<<vars, mode>>

Perms == Permutations(Docs) \cup Permutations(Devices) \cup Permutations(Requests)
============================================================================
