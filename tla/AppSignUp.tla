------------------------------ MODULE AppSignUp ------------------------------
(***************************************************************************)
(* Signing up or in to an application that uses Gateman.  ApplicationSignUp *)
(* finds or creates the AppUser of the user, CheckMonthlyLimit counts it    *)
(* among the application's monthly active users - a Redis set per month -   *)
(* within the limit of its plan, and the application's tokens are issued.   *)
(*                                                                         *)
(* One application.  Every document read or write and every Redis call is   *)
(* an action: requests of several users, or of one user on several devices, *)
(* run between two of them, and so do a payment that changes the plan and   *)
(* the end of the month.                                                    *)
(***************************************************************************)
EXTENDS Naturals, FiniteSets

CONSTANTS
  Users,          \* users that have a Gateman account
  Ids,            \* AppUser ids: bounds the documents of a behaviour
  Requests,       \* sign-up requests that can be in flight at once
  FreeLimit,      \* FREE_TIER_MAU_LIMIT
  PaidAllowance,  \* PAID_TIER_FREE_MAU_LIMIT
  Plans,          \* the paid plans the application may buy
  MaxMonth,       \* bound on the months of a behaviour
  MaxCharges,     \* bound on the charges of a month
  Fails,          \* may a lookup or a Redis call fail?  the handler goes on
  None            \* no document, no subscription

ASSUME ConstantsAssumption ==
  /\ IsFiniteSet(Requests) /\ IsFiniteSet(Ids)
  /\ FreeLimit \in Nat \ {0} /\ PaidAllowance \in Nat \ {0}
  /\ Plans \subseteq {"Essential", "Premium"}
  /\ MaxMonth \in Nat \ {0} /\ MaxCharges \in Nat
  /\ Fails \in BOOLEAN
  /\ None \notin Users \cup Ids \cup Plans

Months == 1..MaxMonth

VARIABLES
  owner,      \* AppUser documents: whose each is
  plan,       \* activeSubName; None when there is no subscription or the Free one
  month,      \* the current month
  mau,        \* "application:<id>:<month>:mau": AppUser ids
  charge,     \* "...:essential-charge" and "...:premium-charge", in users charged
  issued,     \* tokens given out: the AppUser and the month it was counted in
  pc,         \* where each request is
  user,       \* the user of a request
  id,         \* its AppUser
  seen,       \* the plan it read
  mon,        \* the month it read
  count,      \* the number of active users it read
  freeNew,    \* ghost: AppUsers the free branch let in that were not counted, per month
  paidFree,   \* ghost: AppUsers a paid branch let in, or counted, without a charge
  spoilt,     \* ghost: those of them that lost a Redis call, or died before the charge
  bill        \* ghost: charges per month and AppUser

reqVars   == <<pc, user, id, seen, mon, count>>
ghostVars == <<freeNew, paidFree, spoilt, bill>>
vars == <<owner, plan, month, mau, charge, issued, reqVars, ghostVars>>

PCs == {"idle", "find", "create", "readSub", "clock", "count", "memberFree",
        "addFree", "memberPaid", "addPaid", "incr", "memberUnread", "addUnread", "issue"}

DataOK ==
  /\ owner  \in [Ids -> Users \cup {None}]
  /\ plan   \in Plans \cup {None}
  /\ month  \in Months
  /\ mau    \in [Months -> SUBSET Ids]
  /\ charge \in [Months -> [Plans -> 0..MaxCharges]]
  /\ issued \subseteq Ids \X Months
LocalsOK ==
  /\ pc    \in [Requests -> PCs]
  /\ user  \in [Requests -> Users \cup {None}]
  /\ id    \in [Requests -> Ids \cup {None}]
  /\ seen  \in [Requests -> Plans \cup {None}]
  /\ mon   \in [Requests -> Months]
  /\ count \in [Requests -> Nat]
GhostsOK ==
  /\ freeNew  \in [Months -> SUBSET Ids]
  /\ paidFree \in [Months -> SUBSET Ids]
  /\ spoilt   \in [Months -> SUBSET Ids]
  /\ bill     \in [Months -> [Ids -> Nat]]

TypeOK == DataOK /\ LocalsOK /\ GhostsOK

Init ==
  /\ owner  = [i \in Ids |-> None]
  /\ plan   = None
  /\ month  = 1
  /\ mau    = [m \in Months |-> {}]
  /\ charge = [m \in Months |-> [p \in Plans |-> 0]]
  /\ issued = {}
  /\ pc     = [r \in Requests |-> "idle"]
  /\ user   = [r \in Requests |-> None]
  /\ id     = [r \in Requests |-> None]
  /\ seen   = [r \in Requests |-> None]
  /\ mon    = [r \in Requests |-> 1]
  /\ count  = [r \in Requests |-> 0]
  /\ freeNew  = [m \in Months |-> {}]
  /\ paidFree = [m \in Months |-> {}]
  /\ spoilt   = [m \in Months |-> {}]
  /\ bill     = [m \in Months |-> [i \in Ids |-> 0]]

-----------------------------------------------------------------------------
At(r, here)    == pc[r] = here
Goto(r, there) == pc' = [pc EXCEPT ![r] = there]

\* The handler answers, or panics; its locals are gone.
Finish(r) ==
  /\ pc'    = [pc    EXCEPT ![r] = "idle"]
  /\ user'  = [user  EXCEPT ![r] = None]
  /\ id'    = [id    EXCEPT ![r] = None]
  /\ seen'  = [seen  EXCEPT ![r] = None]
  /\ mon'   = [mon   EXCEPT ![r] = 1]
  /\ count' = [count EXCEPT ![r] = 0]

\* SISMEMBER answers false on an error; the result of SADD is not looked at.
MayFind(x, S) == {(x \in S)} \cup IF Fails THEN {FALSE} ELSE {}
Added(m, i)   == {[mau EXCEPT ![m] = @ \cup {i}]} \cup IF Fails THEN {mau} ELSE {}

\* An AppUser joins one of the ghosts of a month.
With(f, m, i) == [f EXCEPT ![m] = @ \cup {i}]
\* The addition of an AppUser is spoilt when the month does not have it after all.
Spoilt(m, i)  == IF i \in mau'[m] THEN spoilt ELSE With(spoilt, m, i)

AppUsersOf(u) == {i \in Ids : owner[i] = u}

(***************************************************************************)
(* ApplicationSignUp.                                                      *)
(***************************************************************************)
StartSignUp(r, u) ==
  /\ At(r, "idle")
  /\ Goto(r, "find")
  /\ user' = [user EXCEPT ![r] = u]
  /\ UNCHANGED <<owner, plan, month, mau, charge, issued, id, seen, mon, count,
                 ghostVars>>

\* Mutant of FindAppUser: the filter names the application user by the wrong key
\* and finds nothing.
FindAppUserNever(r) ==
  /\ At(r, "find")
  /\ Goto(r, "create")
  /\ UNCHANGED <<owner, plan, month, mau, charge, issued, user, id, seen, mon, count,
                 ghostVars>>

\* FindOneByFilter returns one of the user's documents, in no stated order; its
\* error is dropped and reads as "no document".
FindAppUser(r) ==
  /\ At(r, "find")
  /\ \/ \E i \in AppUsersOf(user[r]) :
          /\ id' = [id EXCEPT ![r] = i]
          /\ Goto(r, "readSub")
     \/ /\ AppUsersOf(user[r]) = {} \/ Fails
        /\ Goto(r, "create")
        /\ UNCHANGED id
  /\ UNCHANGED <<owner, plan, month, mau, charge, issued, user, seen, mon, count,
                 ghostVars>>

CreateAppUser(r) ==
  /\ At(r, "create")
  /\ \E i \in AppUsersOf(None) :
       /\ owner' = [owner EXCEPT ![i] = user[r]]
       /\ id' = [id EXCEPT ![r] = i]
  /\ Goto(r, "readSub")
  /\ UNCHANGED <<plan, month, mau, charge, issued, user, seen, mon, count, ghostVars>>

(***************************************************************************)
(* CheckMonthlyLimit.                                                      *)
(***************************************************************************)
ReadSub(r) ==
  /\ At(r, "readSub")
  /\ seen' = [seen EXCEPT ![r] = plan]
  /\ Goto(r, "clock")
  /\ UNCHANGED <<owner, plan, month, mau, charge, issued, user, id, mon, count,
                 ghostVars>>

\* The month is read once: all the keys of the request are of that month.
ReadClock(r) ==
  /\ At(r, "clock")
  /\ mon' = [mon EXCEPT ![r] = month]
  /\ Goto(r, "count")
  /\ UNCHANGED <<owner, plan, month, mau, charge, issued, user, id, seen, count,
                 ghostVars>>

\* Mutant of CountMembers: off by one at the free limit.
CountMembersOffByOne(r) ==
  LET n == Cardinality(mau[mon[r]])
  IN  /\ At(r, "count")
      /\ count' = [count EXCEPT ![r] = n]
      /\ Goto(r, IF seen[r] # None THEN "memberPaid"
                 ELSE IF n > FreeLimit THEN "memberFree" ELSE "addFree")
      /\ UNCHANGED <<owner, plan, month, mau, charge, issued, user, id, seen, mon,
                     ghostVars>>

\* SCARD.
CountMembers(r) ==
  LET n == Cardinality(mau[mon[r]])
  IN  /\ At(r, "count")
      /\ count' = [count EXCEPT ![r] = n]
      /\ Goto(r, IF seen[r] # None THEN "memberPaid"
                 ELSE IF n >= FreeLimit THEN "memberFree" ELSE "addFree")
      /\ UNCHANGED <<owner, plan, month, mau, charge, issued, user, id, seen, mon,
                     ghostVars>>

\* SCARD failed: the free branch dereferences nil at once and panics, a paid branch
\* only after it has added an AppUser that is not a member.
CountUnread(r) ==
  /\ At(r, "count")
  /\ Fails
  /\ IF seen[r] = None THEN Finish(r)
       ELSE Goto(r, "memberUnread") /\ UNCHANGED <<user, id, seen, mon, count>>
  /\ UNCHANGED <<owner, plan, month, mau, charge, issued, ghostVars>>

MemberUnread(r) ==
  /\ At(r, "memberUnread")
  /\ \E tracked \in MayFind(id[r], mau[mon[r]]) :
       Goto(r, IF tracked THEN "issue" ELSE "addUnread")
  /\ UNCHANGED <<owner, plan, month, mau, charge, issued, user, id, seen, mon, count,
                 ghostVars>>

AddUnread(r) ==
  LET m == mon[r] IN
  /\ At(r, "addUnread")
  /\ mau' \in Added(m, id[r])
  /\ paidFree' = [paidFree EXCEPT ![m] = @ \cup (mau'[m] \ mau[m])]
  /\ spoilt'   = With(spoilt, m, id[r])
  /\ Finish(r)
  /\ UNCHANGED <<owner, plan, month, charge, issued, freeNew, bill>>

\* Over the limit, only an AppUser that is already counted goes on.
MemberFree(r) ==
  /\ At(r, "memberFree")
  /\ \E tracked \in MayFind(id[r], mau[mon[r]]) :
       IF tracked THEN Goto(r, "addFree") /\ UNCHANGED <<user, id, seen, mon, count>>
                  ELSE Finish(r)
  /\ UNCHANGED <<owner, plan, month, mau, charge, issued, ghostVars>>

\* Mutant of AddFree: the key names the current month, not the one that was read.
AddFreeToday(r) ==
  /\ At(r, "addFree")
  /\ mau' \in Added(month, id[r])
  /\ freeNew' = [freeNew EXCEPT ![month] = @ \cup ({id[r]} \ mau[month])]
  /\ spoilt'  = Spoilt(month, id[r])
  /\ Goto(r, "issue")
  /\ UNCHANGED <<owner, plan, month, charge, issued, user, id, seen, mon, count,
                 paidFree, bill>>
AddFree(r) ==
  LET m == mon[r] IN
  /\ At(r, "addFree")
  /\ mau' \in Added(m, id[r])
  /\ freeNew' = [freeNew EXCEPT ![m] = @ \cup ({id[r]} \ mau[m])]
  /\ spoilt'  = Spoilt(m, id[r])
  /\ Goto(r, "issue")
  /\ UNCHANGED <<owner, plan, month, charge, issued, user, id, seen, mon, count,
                 paidFree, bill>>

\* Mutant of MemberPaid: the membership test is forgotten.
MemberPaidUntested(r) ==
  /\ At(r, "memberPaid")
  /\ Goto(r, "addPaid")
  /\ UNCHANGED <<owner, plan, month, mau, charge, issued, user, id, seen, mon, count,
                 ghostVars>>

MemberPaid(r) ==
  /\ At(r, "memberPaid")
  /\ \E tracked \in MayFind(id[r], mau[mon[r]]) :
       Goto(r, IF tracked THEN "issue" ELSE "addPaid")
  /\ UNCHANGED <<owner, plan, month, mau, charge, issued, user, id, seen, mon, count,
                 ghostVars>>

\* SADD; the charge is decided by the count read before the membership test.
AddPaidOver(r, over) ==
  LET m == mon[r] IN
  /\ At(r, "addPaid")
  /\ mau' \in Added(m, id[r])
  /\ paidFree' = IF over THEN paidFree
                 ELSE [paidFree EXCEPT ![m] = @ \cup ({id[r]} \ mau[m])]
  /\ spoilt' = Spoilt(m, id[r])
  /\ Goto(r, IF over THEN "incr" ELSE "issue")
  /\ UNCHANGED <<owner, plan, month, charge, issued, user, id, seen, mon, count,
                 freeNew, bill>>
\* Mutants of AddPaid: off by one at the allowance, in either direction.
AddPaidEarly(r) == AddPaidOver(r, count[r] + 1 >= PaidAllowance)
AddPaidLate(r)  == AddPaidOver(r, count[r] > PaidAllowance)

AddPaid(r) == AddPaidOver(r, count[r] >= PaidAllowance)

\* What was to be charged is not.
Uncharged(r) == /\ paidFree' = With(paidFree, mon[r], id[r])
                /\ spoilt'   = With(spoilt, mon[r], id[r])

\* INCRBY on the counter of the plan that was read.
Charge(r) ==
  LET m == mon[r] IN
  /\ At(r, "incr")
  /\ charge[m][seen[r]] < MaxCharges
  /\ \/ /\ charge' = [charge EXCEPT ![m][seen[r]] = @ + 1]
        /\ bill'   = [bill   EXCEPT ![m][id[r]] = @ + 1]
        /\ UNCHANGED <<paidFree, spoilt>>
     \/ Fails /\ Uncharged(r) /\ UNCHANGED <<charge, bill>>
  /\ Goto(r, "issue")
  /\ UNCHANGED <<owner, plan, month, mau, issued, user, id, seen, mon, count, freeNew>>

\* GenerateAuthTokens and the answer.
Issue(r) ==
  /\ At(r, "issue")
  /\ issued' = issued \cup {<<id[r], mon[r]>>}
  /\ Finish(r)
  /\ UNCHANGED <<owner, plan, month, mau, charge, ghostVars>>

\* A refusal (blocked, wrong pin, missing data), an error answer, a panic, or
\* the end of the replica: what is written stays written.
Abort(r) ==
  /\ pc[r] # "idle"
  /\ Finish(r)
  /\ IF At(r, "incr") THEN Uncharged(r) ELSE UNCHANGED <<paidFree, spoilt>>
  /\ UNCHANGED <<owner, plan, month, mau, charge, issued, freeNew, bill>>

\* A payment creates or replaces the subscription; nothing ever removes it.
BuyPlan(p) ==
  /\ plan' = p
  /\ UNCHANGED <<owner, month, mau, charge, issued, reqVars, ghostVars>>

MonthEnds ==
  /\ month < MaxMonth
  /\ month' = month + 1
  /\ UNCHANGED <<owner, plan, mau, charge, issued, reqVars, ghostVars>>

-----------------------------------------------------------------------------
SignUp(r) ==
  \/ FindAppUser(r) \/ CreateAppUser(r) \/ ReadSub(r) \/ ReadClock(r)
  \/ CountMembers(r) \/ CountUnread(r) \/ MemberUnread(r) \/ AddUnread(r)
  \/ MemberFree(r) \/ AddFree(r) \/ MemberPaid(r) \/ AddPaid(r)
  \/ Charge(r) \/ Issue(r)

Next ==
  \/ \E r \in Requests : \/ \E u \in Users : StartSignUp(r, u)
                         \/ SignUp(r)
                         \/ Abort(r)
  \/ \E p \in Plans : BuyPlan(p)
  \/ MonthEnds

Spec == Init /\ [][Next]_vars

-----------------------------------------------------------------------------
(***************************************************************************)
(* Properties.                                                             *)
(***************************************************************************)
N == Cardinality(Requests)

\* Beyond its limit the free tier lets in at most one AppUser per request in flight,
\* and those whose addition Redis lost, however plans change in between: requests
\* that read the same SCARD overshoot together, and a member that a failed SADD left
\* out of the set is not counted against the next ones.
FreeOvershootBound ==
  \A m \in Months : Cardinality(freeNew[m]) <= FreeLimit - 1 + N + Cardinality(spoilt[m])

\* Likewise a paid tier lets in without a charge at most that many AppUsers beyond its
\* allowance, and those one of whose requests could not read the size of the set, lost
\* its SADD or INCRBY, or died between the two.
UnchargedBound ==
  \A m \in Months : Cardinality(paidFree[m]) <= PaidAllowance - 1 + N + Cardinality(spoilt[m])

\* A month is charged for only when more AppUsers than the allowance were
\* active in it, although the count is read before the membership test.
ChargeJustified ==
  ~Fails => \A m \in Months : (\E p \in Plans : charge[m][p] > 0)
                                 => Cardinality(mau[m]) > PaidAllowance

\* One AppUser is charged for at most once per request in flight: only sign-ins
\* that overlap the first one can charge it again.
ChargesPerAppUser == ~Fails => \A m \in Months, i \in Ids : bill[m][i] <= N

\* Whoever got tokens is counted in the month the limit was checked for, also
\* when the month ends in the middle of the request.
IssuedAreCounted == ~Fails => \A t \in issued : t[1] \in mau[t[2]]

\* A user has at most one AppUser per request in flight (find, then create).
AppUsersBound == ~Fails => \A u \in Users : Cardinality(AppUsersOf(u)) <= N

-----------------------------------------------------------------------------
(***************************************************************************)
(* What makes the safety properties inductive.                             *)
(***************************************************************************)
Located(r) ==
  /\ ~At(r, "idle") => user[r] \in Users
  /\ pc[r] \notin {"idle", "find", "create"} => id[r] \in Ids
  /\ pc[r] \in {"memberPaid", "addPaid", "incr"} => seen[r] \in Plans

\* What the count a request has read still says of its month.
Counted(r) ==
  LET active == mau[mon[r]] IN
  /\ At(r, "memberFree") => count[r] >= FreeLimit
  /\ At(r, "addFree") /\ count[r] >= FreeLimit => id[r] \in active
  /\ pc[r] \in {"memberPaid", "addPaid"} => count[r] <= Cardinality(active)
  /\ ~Fails =>
       /\ At(r, "addPaid") /\ count[r] >= PaidAllowance
            => Cardinality(active \cup {id[r]}) > PaidAllowance
       /\ At(r, "incr") => Cardinality(active) > PaidAllowance
       /\ pc[r] \in {"incr", "issue"} => id[r] \in active

\* The requests that may still take a free place, or one of the allowance.
TakingFree(m) == {r \in Requests : /\ At(r, "addFree") /\ mon[r] = m
                                   /\ count[r] < FreeLimit}
TakingPaid(m) == {r \in Requests : /\ pc[r] \in {"memberPaid", "addPaid"} /\ mon[r] = m
                                   /\ count[r] < PaidAllowance}

\* Those let in by requests that lost no call.
FreePlaces(m) == freeNew[m] \ spoilt[m]
PaidPlaces(m) == paidFree[m] \ spoilt[m]

\* Places taken and places about to be taken, together, stay within the bound.
Places ==
  \A m \in Months :
    /\ FreePlaces(m) \cup PaidPlaces(m) \subseteq mau[m]
    /\ Cardinality(FreePlaces(m)) + Cardinality(TakingFree(m)) <= FreeLimit - 1 + N
    /\ Cardinality(PaidPlaces(m)) + Cardinality(TakingPaid(m)) <= PaidAllowance - 1 + N

IInv == /\ TypeOK /\ (\A r \in Requests : Located(r) /\ Counted(r))
        /\ Places /\ ChargeJustified /\ IssuedAreCounted

\* The requests that will add an AppUser of u; those that may charge for one.
Creating(u)    == {r \in Requests : At(r, "create") /\ user[r] = u}
Charging(m, i) == {r \in Requests : pc[r] \in {"addPaid", "incr"} /\ mon[r] = m /\ id[r] = i}

\* While Redis and MongoDB answer, what is there and what is on its way are, together,
\* at most what was in flight when there was nothing.
Overlaps ==
  ~Fails =>
    /\ \A u \in Users : Cardinality(AppUsersOf(u)) + Cardinality(Creating(u)) <= N
    /\ \A m \in Months, i \in Ids :
         /\ bill[m][i] > 0 => i \in mau[m]
         /\ bill[m][i] + Cardinality(Charging(m, i)) <= N
=============================================================================
