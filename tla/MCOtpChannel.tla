--------------------------- MODULE MCOtpChannel ---------------------------
(* TLC instances of OtpChannel and the symmetry of the request identifiers.  *)
(* e1 is an address in lower case and E1 another spelling of it.  In MCSpec  *)
(* every request of a behaviour is about one mailbox or phone: focus e1 is   *)
(* about the one spelling, focus E1 about both, with sign-ups only and in   *)
(* time.  FaultSpec mixes all channels.                                      *)
EXTENDS OtpChannel, TLC

CONSTANTS r1, r2, e1, E1, p1
VARIABLE focus

Perms   == Permutations(Requests)
MCLower == [e \in Emails |-> e1]

MCInit == Init /\ focus \in Channels
MCNext ==
  /\ Next
  /\ \A r \in Requests : chan'[r] # None =>
       chan'[r] = focus \/ (focus = E1 /\ chan'[r] = e1)
  /\ focus = E1 => /\ \A r \in Requests : flow'[r] # None => flow'[r].intent = "verify_account"
                   /\ UNCHANGED <<pc, queue>> => UNCHANGED cacheVars
  /\ UNCHANGED focus
MCSpec == MCInit /\ [][MCNext]_<<vars, focus>>

\* All channels at once, the workers and the handlers treated fairly.  Every read
\* may come back empty, so no key needs to expire; tokens neither expire nor are
\* used here.  MCSpec has both.
FaultInit == Init /\ focus = e1
FaultNext == /\ Next
             /\ UNCHANGED <<pc, queue>> => UNCHANGED cacheVars
             /\ tokens \subseteq tokens' /\ UNCHANGED <<granted, focus>>
FaultSpec == FaultInit /\ [][FaultNext]_<<vars, focus>> /\ Fairness
===========================================================================
