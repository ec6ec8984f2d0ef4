------------------------------ MODULE MCWorkspace ------------------------------
(* TLC instances of Workspace.  A behaviour is about the accounts, the details or *)
(* the invites of workspaces; the last two start from a workspace in use.        *)
EXTENDS Workspace, TLC

CONSTANTS e1, e2, d1, d2, r1, r2, t1, t2, A, B, p1, p2, MaxStarts

VARIABLES focus, left

OneFault == {{}} \cup {{kind} : kind \in {"died", "insert", "createUser", "worker", "lookup",
                                          "setMember", "mark", "member", "mail", "lost"}}

\* A verified workspace, the session of its super member on one device; a second
\* member came by an invite.
InUse == \E e \in Emails, d \in Devices, n \in Names, p \in Passwords :
  /\ ws = (1 :> [email |-> e, verified |-> TRUE, superMember |-> 1, name |-> n,
                 workspacename |-> None])
  /\ mem = (1 :> [email |-> e, ws |-> 1, name |-> n, verified |-> TRUE,
                  password |-> p, devices |-> <<d>>, invite |-> NoDoc])
         @@ (2 :> [email |-> None, ws |-> 1, name |-> 1, verified |-> FALSE,
                   password |-> None, devices |-> <<>>, invite |-> 3])
  /\ inv = (3 :> [email |-> e, ws |-> 1, accepted |-> TRUE, resent |-> FALSE])
  /\ codes = {} /\ seen = {<<e, d>>}
  /\ session = [x \in Devices |-> IF x = d THEN [mem |-> 1, ws |-> 1] ELSE None]
  /\ task = [t \in Tasks |-> NoTask]
  /\ pc = [r \in Requests |-> "idle"] /\ req = [r \in Requests |-> Idle]
  /\ early = {} /\ mailed = {<<e, 1>>} /\ faults = {}

MCInit ==
  /\ left = MaxStarts
  /\ \/ focus = "accounts" /\ Init
     \/ focus \in {"details", "invites"} /\ InUse

Starts(r) == pc[r] = "idle" /\ pc'[r] # "idle"

MCNext ==
  /\ \/ focus = "accounts" /\ Accounts
     \/ focus = "details" /\ Details
     \/ focus = "invites" /\ Invites
  /\ left' = left - Cardinality({r \in Requests : Starts(r)})
                  - (IF focus = "invites" /\ \E t \in Tasks : task[t] = NoTask /\ task'[t] # NoTask
                     THEN 1 ELSE 0)
  /\ left' >= 0 /\ UNCHANGED focus

MCSpec == MCInit /\ [][MCNext]_<<vars, focus, left>>

Perms == UNION {Permutations(S) : S \in {{r1, r2}, {t1, t2}, {e1, e2}, {d1, d2}, {A, B}, {p1, p2}}}
================================================================================
