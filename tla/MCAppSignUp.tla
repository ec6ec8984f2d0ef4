---------------------------- MODULE MCAppSignUp ----------------------------
(* TLC instances of AppSignUp: users, AppUser ids and requests are           *)
(* interchangeable.                                                          *)
EXTENDS AppSignUp, TLC

CONSTANTS u1, u2, i1, i2, i3, r1, r2
Perms == Permutations(Users) \cup Permutations(Ids) \cup Permutations(Requests)

\* No guard and no bound of a limit reads the tokens or the bills.
FaultView == <<owner, plan, month, mau, charge, reqVars, freeNew, paidFree, spoilt>>
============================================================================
