---------------------------- MODULE MCAppLifecycle ----------------------------
(* TLC instances of AppLifecycle.  A behaviour is about one group of          *)
(* operations, beside the creation of applications; two requests overlap in    *)
(* every group but those of the users.                                        *)
EXTENDS AppLifecycle

CONSTANTS r1, r2, t1, t2, w

VARIABLE focus

OneFault == {{}, {"died"}, {"enqueue"}, {"worker"}, {"disable"}}

\* After k creations, each request answered.
Created(k) ==
  /\ apps = [a \in 1..k |-> NewApp(a, a)]
  /\ shown = UNION {ShownAtCreation(a, a) : a \in 1..k}
  /\ nextKey = k + 1
  /\ users = <<>> /\ plan = [a \in AppIds |-> None]
  /\ task = [t \in Tasks |-> [st |-> "none", app |-> NoDoc]]
  /\ pc = [r \in Requests |-> "idle"] /\ app = [r \in Requests |-> NoDoc]
  /\ offer = [r \in Requests |-> {}]
  /\ moved = {} /\ pager = NoPager /\ faults = {}

MCInit ==
  \/ focus = "creation" /\ Init
  \/ focus \in {"keys", "users"} /\ Created(1)
  \/ focus \in {"features", "deletion"} /\ Created(2)

MCNext ==
  /\ \/ focus = "creation" /\ Creation
     \/ focus = "keys" /\ (Keys \/ \E r \in Requests : Answer(r) \/ RequestDies(r))
     \/ focus = "features" /\ Features
     \/ focus = "deletion" /\ Deletion
     \/ focus = "deletion" /\ SignUps /\ Cardinality(DOMAIN users') <= 2
     \/ focus = "users" /\ (Users \/ SignUps)
  /\ UNCHANGED focus

MCSpec == MCInit /\ [][MCNext]_<<vars, focus>>
================================================================================
