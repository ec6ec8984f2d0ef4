--------------------------- MODULE AppSignUp_proofs ---------------------------
(***************************************************************************)
(* Proofs about AppSignUp, for any users, requests, limits and plans, with *)
(* or without failures.  IInv is inductive: what a request has counted,    *)
(* together with the places that requests in flight may still take, bounds *)
(* the members of a month; the bounds follow from it.                      *)
(***************************************************************************)
EXTENDS AppSignUp, FiniteSetTheorems, TLAPS

LEMMA NType == N \in Nat
BY FS_CardinalityType, ConstantsAssumption DEF N

LEMMA WithTypes ==
  ASSUME NEW f \in [Months -> SUBSET Ids], NEW m \in Months, NEW i \in Ids
  PROVE  With(f, m, i) \in [Months -> SUBSET Ids]
BY DEF With

LEMMA FinishTypes ==
  ASSUME NEW r \in Requests, LocalsOK, Finish(r)
  PROVE  LocalsOK'
<1>1. 1 \in Months
  BY ConstantsAssumption DEF Months
<1> QED
  BY <1>1 DEF LocalsOK, Finish, PCs

\* Every set the model counts is finite, so that the counts are naturals.
LEMMA Counts ==
  ASSUME NEW S, S \subseteq Ids \/ S \subseteq Requests
  PROVE  IsFiniteSet(S) /\ Cardinality(S) \in Nat
BY FS_Subset, FS_CardinalityType, ConstantsAssumption

(***************************************************************************)
(* Typing.                                                                 *)
(***************************************************************************)
LEMMA TypeStep == IInv /\ [Next]_vars => TypeOK'
<1> SUFFICES ASSUME TypeOK, \A r \in Requests : Located(r), [Next]_vars PROVE TypeOK'
  BY DEF IInv
<1> USE DEF TypeOK, reqVars, ghostVars
<1>1. ASSUME NEW r \in Requests, NEW u \in Users, StartSignUp(r, u) PROVE TypeOK'
  <2>1. LocalsOK'
    BY <1>1 DEF StartSignUp, LocalsOK, Goto, PCs
  <2> QED
    BY <1>1, <2>1 DEF StartSignUp, DataOK, GhostsOK
<1>2. ASSUME NEW r \in Requests, FindAppUser(r) PROVE TypeOK'
  <2>1. CASE \E i \in AppUsersOf(user[r]) : id' = [id EXCEPT ![r] = i] /\ Goto(r, "readSub")
    <3>1. LocalsOK'
      BY <1>2, <2>1 DEF FindAppUser, LocalsOK, Goto, PCs, AppUsersOf
    <3> QED
      BY <1>2, <3>1 DEF FindAppUser, DataOK, GhostsOK
  <2>2. CASE Goto(r, "create") /\ UNCHANGED id
    <3>1. LocalsOK'
      BY <1>2, <2>2 DEF FindAppUser, LocalsOK, Goto, PCs
    <3> QED
      BY <1>2, <3>1 DEF FindAppUser, DataOK, GhostsOK
  <2> QED
    BY <1>2, <2>1, <2>2 DEF FindAppUser
<1>3. ASSUME NEW r \in Requests, CreateAppUser(r) PROVE TypeOK'
  <2>1. user[r] \in Users
    BY <1>3 DEF CreateAppUser, Located, At
  <2>2. LocalsOK'
    BY <1>3 DEF CreateAppUser, LocalsOK, Goto, PCs, AppUsersOf
  <2>3. DataOK'
    BY <1>3, <2>1 DEF CreateAppUser, DataOK, AppUsersOf
  <2> QED
    BY <1>3, <2>2, <2>3 DEF CreateAppUser, GhostsOK
<1>4. ASSUME NEW r \in Requests, ReadSub(r) \/ ReadClock(r) PROVE TypeOK'
  <2>1. LocalsOK'
    BY <1>4 DEF ReadSub, ReadClock, LocalsOK, DataOK, Goto, PCs
  <2> QED
    BY <1>4, <2>1 DEF ReadSub, ReadClock, DataOK, GhostsOK
<1>5. ASSUME NEW r \in Requests, CountMembers(r) PROVE TypeOK'
  <2>1. Cardinality(mau[mon[r]]) \in Nat
    BY Counts DEF DataOK, LocalsOK
  <2>2. LocalsOK'
    BY <1>5, <2>1 DEF CountMembers, LocalsOK, Goto, PCs
  <2> QED
    BY <1>5, <2>2 DEF CountMembers, DataOK, GhostsOK
<1>6. ASSUME NEW r \in Requests, MemberFree(r) \/ MemberPaid(r) PROVE TypeOK'
  <2>1. LocalsOK'
    BY <1>6, FinishTypes DEF MemberFree, MemberPaid, LocalsOK, Goto, PCs
  <2> QED
    BY <1>6, <2>1 DEF MemberFree, MemberPaid, DataOK, GhostsOK
<1>7. ASSUME NEW r \in Requests, AddFree(r) \/ AddPaid(r) PROVE TypeOK'
  <2>1. id[r] \in Ids
    BY <1>7 DEF AddFree, AddPaid, AddPaidOver, Located, At
  <2>2. mau' \in [Months -> SUBSET Ids]
    BY <1>7, <2>1 DEF AddFree, AddPaid, AddPaidOver, Added, DataOK
  <2>3. GhostsOK'
    <3>1. mon[r] \in Months
      BY DEF LocalsOK
    <3>2. spoilt' \in [Months -> SUBSET Ids]
      <4>1. spoilt \in [Months -> SUBSET Ids]
        BY DEF GhostsOK
      <4>2. With(spoilt, mon[r], id[r]) \in [Months -> SUBSET Ids]
        BY <2>1, <3>1, <4>1, WithTypes
      <4> QED
        BY <1>7, <4>1, <4>2 DEF AddFree, AddPaid, AddPaidOver, Spoilt
    <3>3. /\ freeNew'  \in [Months -> SUBSET Ids] /\ paidFree' \in [Months -> SUBSET Ids]
          /\ bill' = bill
      BY <1>7, <2>1, <3>1 DEF AddFree, AddPaid, AddPaidOver, GhostsOK
    <3> QED
      BY <3>2, <3>3 DEF GhostsOK
  <2>4. LocalsOK'
    BY <1>7 DEF AddFree, AddPaid, AddPaidOver, LocalsOK, Goto, PCs
  <2> QED
    BY <1>7, <2>2, <2>3, <2>4 DEF AddFree, AddPaid, AddPaidOver, DataOK
<1>8. ASSUME NEW r \in Requests, Charge(r) PROVE TypeOK'
  <2>1. seen[r] \in Plans /\ id[r] \in Ids /\ mon[r] \in Months
    BY <1>8 DEF Charge, Located, At, LocalsOK
  <2>2. charge' \in [Months -> [Plans -> 0..MaxCharges]]
    <3>1. charge[mon[r]] \in [Plans -> 0..MaxCharges]
      BY <2>1 DEF DataOK
    <3>2. charge[mon[r]][seen[r]] + 1 \in 0..MaxCharges
      BY <1>8, <2>1, <3>1, ConstantsAssumption DEF Charge
    <3>3. [charge[mon[r]] EXCEPT ![seen[r]] = charge[mon[r]][seen[r]] + 1]
            \in [Plans -> 0..MaxCharges]
      BY <3>1, <3>2
    <3> QED
      BY <1>8, <3>3 DEF Charge, DataOK
  <2>3. bill' \in [Months -> [Ids -> Nat]]
    <3>1. bill[mon[r]] \in [Ids -> Nat]
      BY <2>1 DEF GhostsOK
    <3>2. bill[mon[r]][id[r]] + 1 \in Nat
      BY <2>1, <3>1
    <3>3. [bill[mon[r]] EXCEPT ![id[r]] = bill[mon[r]][id[r]] + 1] \in [Ids -> Nat]
      BY <3>1, <3>2
    <3> QED
      BY <1>8, <3>3 DEF Charge, GhostsOK
  <2>4. LocalsOK'
    BY <1>8 DEF Charge, LocalsOK, Goto, PCs
  <2>5. UNCHANGED <<paidFree, spoilt>> \/ Uncharged(r)
    BY <1>8 DEF Charge
  <2>6. GhostsOK'
    <3>1. paidFree \in [Months -> SUBSET Ids] /\ spoilt \in [Months -> SUBSET Ids]
      BY DEF GhostsOK
    <3>2. /\ With(paidFree, mon[r], id[r]) \in [Months -> SUBSET Ids]
          /\ With(spoilt, mon[r], id[r]) \in [Months -> SUBSET Ids]
      BY <2>1, <3>1, WithTypes
    <3> QED
      BY <1>8, <2>3, <2>5, <3>2 DEF Charge, GhostsOK, Uncharged
  <2> QED
    BY <1>8, <2>2, <2>4, <2>6 DEF Charge, DataOK
<1>9. ASSUME NEW r \in Requests, Issue(r) PROVE TypeOK'
  <2>1. <<id[r], mon[r]>> \in Ids \X Months
    BY <1>9 DEF Issue, Located, At, LocalsOK
  <2>2. LocalsOK'
    BY <1>9, FinishTypes DEF Issue
  <2> QED
    BY <1>9, <2>1, <2>2 DEF Issue, DataOK, GhostsOK
<1>10. ASSUME NEW r \in Requests, Abort(r) PROVE TypeOK'
  <2>1. LocalsOK'
    BY <1>10, FinishTypes DEF Abort
  <2>2. At(r, "incr") => id[r] \in Ids /\ mon[r] \in Months
    BY DEF Located, At, LocalsOK
  <2>3. GhostsOK'
    <3>1. paidFree \in [Months -> SUBSET Ids] /\ spoilt \in [Months -> SUBSET Ids]
      BY DEF GhostsOK
    <3>2. At(r, "incr") => /\ With(paidFree, mon[r], id[r]) \in [Months -> SUBSET Ids]
                           /\ With(spoilt, mon[r], id[r]) \in [Months -> SUBSET Ids]
      BY <2>2, <3>1, WithTypes
    <3> QED
      BY <1>10, <3>2 DEF Abort, GhostsOK, Uncharged
  <2> QED
    BY <1>10, <2>1, <2>3 DEF Abort, DataOK
<1>11. ASSUME NEW p \in Plans, BuyPlan(p) PROVE TypeOK'
  BY <1>11 DEF BuyPlan, DataOK, LocalsOK, GhostsOK
<1>12. ASSUME MonthEnds PROVE TypeOK'
  <2>1. month' \in Months
    BY <1>12, ConstantsAssumption DEF MonthEnds, Months, DataOK
  <2> QED
    BY <1>12, <2>1 DEF MonthEnds, DataOK, LocalsOK, GhostsOK
<1>13. CASE UNCHANGED vars
  BY <1>13 DEF vars, DataOK, LocalsOK, GhostsOK
<1>14. ASSUME NEW r \in Requests, CountUnread(r) \/ MemberUnread(r) PROVE TypeOK'
  <2>1. LocalsOK'
    BY <1>14, FinishTypes DEF CountUnread, MemberUnread, LocalsOK, Goto, PCs
  <2> QED
    BY <1>14, <2>1 DEF CountUnread, MemberUnread, DataOK, GhostsOK
<1>15. ASSUME NEW r \in Requests, AddUnread(r) PROVE TypeOK'
  <2>1. id[r] \in Ids /\ mon[r] \in Months
    BY <1>15 DEF AddUnread, Located, At, LocalsOK
  <2>2. mau' \in [Months -> SUBSET Ids]
    BY <1>15, <2>1 DEF AddUnread, Added, DataOK
  <2>3. GhostsOK'
    BY <1>15, <2>1, <2>2 DEF AddUnread, GhostsOK, With
  <2>4. LocalsOK'
    BY <1>15, FinishTypes DEF AddUnread
  <2> QED
    BY <1>15, <2>2, <2>3, <2>4 DEF AddUnread, DataOK
<1> QED
  BY <1>1, <1>2, <1>3, <1>4, <1>5, <1>6, <1>7, <1>8, <1>9, <1>10, <1>11, <1>12, <1>13,
     <1>14, <1>15
  DEF Next, SignUp

(***************************************************************************)
(* Framing: a step is of one request, and sets of members only grow.       *)
(***************************************************************************)
Step(r) == (\E u \in Users : StartSignUp(r, u)) \/ SignUp(r) \/ Abort(r)
Same(s) == /\ pc'[s] = pc[s] /\ user'[s] = user[s] /\ id'[s] = id[s]
           /\ seen'[s] = seen[s] /\ mon'[s] = mon[s] /\ count'[s] = count[s]

LEMMA NextSteps ==
  [Next]_vars => \/ \E r \in Requests : Step(r)
                 \/ UNCHANGED <<reqVars, mau, ghostVars, charge, issued>>
BY DEF Next, Step, BuyPlan, MonthEnds, vars

LEMMA OthersSame ==
  ASSUME LocalsOK, NEW r \in Requests, Step(r), NEW s \in Requests, s # r
  PROVE  Same(s)
<1> USE DEF LocalsOK, Same, Goto, Finish
<1>1. CASE \E u \in Users : StartSignUp(r, u)
  BY <1>1 DEF StartSignUp
<1>2. CASE FindAppUser(r) \/ CreateAppUser(r) \/ ReadSub(r) \/ ReadClock(r)
  BY <1>2 DEF FindAppUser, CreateAppUser, ReadSub, ReadClock
<1>3. CASE CountMembers(r) \/ MemberFree(r) \/ AddFree(r) \/ MemberPaid(r) \/ AddPaid(r)
  BY <1>3 DEF CountMembers, MemberFree, AddFree, MemberPaid, AddPaid, AddPaidOver
<1>4. CASE Charge(r) \/ Issue(r) \/ Abort(r)
  BY <1>4 DEF Charge, Issue, Abort
<1>5. CASE CountUnread(r) \/ MemberUnread(r) \/ AddUnread(r)
  BY <1>5 DEF CountUnread, MemberUnread, AddUnread
<1> QED
  BY <1>1, <1>2, <1>3, <1>4, <1>5 DEF Step, SignUp

LEMMA AddGrows ==
  ASSUME TypeOK, NEW k \in Months, NEW i, mau' \in Added(k, i)
  PROVE  /\ \A m \in Months : mau[m] \subseteq mau'[m]
         /\ \A m \in Months : m # k => mau'[m] = mau[m]
         /\ mau'[k] = mau[k] \cup {i} \/ mau'[k] = mau[k]
         /\ ~Fails => i \in mau'[k]
         /\ i \in mau[k] => mau' = mau
<1>1. mau \in [Months -> SUBSET Ids]
  BY DEF TypeOK, DataOK
<1>2. CASE mau' = [mau EXCEPT ![k] = @ \cup {i}]
  <2>1. i \in mau[k] => mau[k] \cup {i} = mau[k]
    OBVIOUS
  <2> QED
    BY <1>1, <1>2, <2>1
<1>3. CASE Fails /\ mau' = mau
  BY <1>3
<1> QED
  BY <1>2, <1>3 DEF Added

LEMMA StepGrows ==
  ASSUME TypeOK, [Next]_vars, NEW m \in Months
  PROVE  mau[m] \subseteq mau'[m]
<1>1. ASSUME NEW r \in Requests, AddFree(r) \/ AddPaid(r) \/ AddUnread(r)
      PROVE  mau[m] \subseteq mau'[m]
  <2>1. mon[r] \in Months
    BY DEF TypeOK, LocalsOK
  <2>2. mau' \in Added(mon[r], id[r])
    BY <1>1 DEF AddFree, AddPaid, AddPaidOver, AddUnread
  <2> QED
    BY <2>1, <2>2, AddGrows
<1>2. ASSUME NEW r \in Requests, Step(r), ~AddFree(r), ~AddPaid(r), ~AddUnread(r)
      PROVE  mau' = mau
  BY <1>2
  DEF Step, SignUp, StartSignUp, FindAppUser, CreateAppUser, ReadSub, ReadClock,
      CountMembers, CountUnread, MemberUnread, MemberFree, MemberPaid, Charge, Issue, Abort
<1> QED
  BY <1>1, <1>2, NextSteps DEF ghostVars

LEMMA MembersGrow ==
  ASSUME TypeOK, TypeOK', [Next]_vars, NEW m \in Months, NEW x
  PROVE  /\ Cardinality(mau[m]) <= Cardinality(mau'[m])
         /\ x \in Ids => Cardinality(mau[m] \cup {x}) <= Cardinality(mau'[m] \cup {x})
         /\ Cardinality(mau[m]) \in Nat /\ Cardinality(mau'[m]) \in Nat
         /\ x \in Ids => /\ Cardinality(mau[m] \cup {x}) \in Nat
                         /\ Cardinality(mau'[m] \cup {x}) \in Nat
<1>1. mau[m] \subseteq Ids /\ mau'[m] \subseteq Ids
  BY DEF TypeOK, DataOK
<1>2. mau[m] \subseteq mau'[m]
  BY StepGrows
<1>3. IsFiniteSet(mau'[m]) /\ (x \in Ids => IsFiniteSet(mau'[m] \cup {x}))
  BY <1>1, Counts
<1>4. Cardinality(mau[m]) <= Cardinality(mau'[m])
  BY <1>2, <1>3, FS_Subset
<1>5. x \in Ids => Cardinality(mau[m] \cup {x}) <= Cardinality(mau'[m] \cup {x})
  BY <1>2, <1>3, FS_Subset
<1> QED
  BY <1>1, <1>4, <1>5, Counts

(***************************************************************************)
(* What a request holds.                                                   *)
(***************************************************************************)
LEMMA LocatedStep ==
  ASSUME IInv, [Next]_vars, NEW s \in Requests
  PROVE  Located(s)'
<1> USE DEF Located, At
<1>1. Located(s) /\ LocalsOK /\ DataOK
  BY DEF IInv, TypeOK
<1>2. Same(s) => Located(s)'
  BY <1>1 DEF Same
<1>3. Finish(s) => Located(s)'
  BY <1>1 DEF Finish, LocalsOK
<1>4. CASE Step(s)
  <2> USE DEF Goto, LocalsOK, DataOK
  <2>1. CASE \E u \in Users : StartSignUp(s, u)
    BY <1>1, <2>1 DEF StartSignUp
  <2>2. CASE FindAppUser(s) \/ CreateAppUser(s)
    BY <1>1, <2>2 DEF FindAppUser, CreateAppUser, AppUsersOf
  <2>3. CASE ReadSub(s) \/ ReadClock(s)
    BY <1>1, <2>3 DEF ReadSub, ReadClock
  <2>4. CASE CountMembers(s)
    <3>1. seen[s] # None => seen[s] \in Plans
      BY <1>1
    <3>2. /\ id[s] \in Ids /\ user[s] \in Users
          /\ UNCHANGED <<user, id, seen>>
          /\ pc'[s] \in {"memberPaid", "memberFree", "addFree"}
          /\ pc'[s] = "memberPaid" => seen[s] # None
      BY <1>1, <2>4 DEF CountMembers
    <3> QED
      BY <3>1, <3>2
  <2>5. CASE MemberFree(s)
    <3>1. Finish(s) \/ (Goto(s, "addFree") /\ UNCHANGED <<user, id, seen, mon, count>>)
      BY <2>5 DEF MemberFree
    <3> QED
      BY <1>1, <1>3, <2>5, <3>1 DEF MemberFree
  <2>6. CASE MemberPaid(s)
    <3>1. pc'[s] \in {"issue", "addPaid"} /\ UNCHANGED <<user, id, seen>>
      BY <1>1, <2>6 DEF MemberPaid
    <3> QED
      BY <1>1, <2>6, <3>1 DEF MemberPaid
  <2>7. CASE AddFree(s) \/ AddPaid(s) \/ Charge(s)
    <3>1. UNCHANGED <<user, id, seen>> /\ pc'[s] \in {"issue", "incr"}
      BY <1>1, <2>7 DEF AddFree, AddPaid, AddPaidOver, Charge
    <3>2. pc'[s] = "incr" => pc[s] = "addPaid"
      BY <1>1, <2>7 DEF AddFree, AddPaid, AddPaidOver, Charge
    <3> QED
      BY <1>1, <2>7, <3>1, <3>2 DEF AddFree, AddPaid, AddPaidOver, Charge
  <2>8. CASE Issue(s) \/ Abort(s) \/ AddUnread(s)
    BY <1>3, <2>8 DEF Issue, Abort, AddUnread
  <2>9. CASE CountUnread(s) \/ MemberUnread(s)
    <3>1. \/ Finish(s)
          \/ UNCHANGED <<user, id, seen>> /\ pc'[s] \in {"memberUnread", "addUnread", "issue"}
      BY <1>1, <2>9 DEF CountUnread, MemberUnread
    <3>2. id[s] \in Ids /\ user[s] \in Users
      BY <1>1, <2>9 DEF CountUnread, MemberUnread
    <3> QED
      BY <1>1, <1>3, <3>1, <3>2
  <2> QED
    BY <1>4, <2>1, <2>2, <2>3, <2>4, <2>5, <2>6, <2>7, <2>8, <2>9 DEF Step, SignUp
<1>5. CASE \E r \in Requests : r # s /\ Step(r)
  BY <1>1, <1>2, <1>5, OthersSame
<1>6. CASE UNCHANGED reqVars
  BY <1>2, <1>6 DEF reqVars, Same
<1> QED
  BY <1>4, <1>5, <1>6, NextSteps

\* What a request has counted holds on while other requests add members.
LEMMA CountedKept ==
  ASSUME IInv, TypeOK', [Next]_vars, NEW s \in Requests, Same(s)
  PROVE  Counted(s)'
<1> DEFINE m == mon[s]
<1>1. m \in Months /\ Counted(s) /\ Located(s) /\ count[s] \in Nat /\ PaidAllowance \in Nat
  BY ConstantsAssumption DEF IInv, TypeOK, LocalsOK
<1>2. mau[m] \subseteq mau'[m]
  BY <1>1, StepGrows DEF IInv
<1>3. /\ Cardinality(mau[m]) <= Cardinality(mau'[m])
      /\ Cardinality(mau[m]) \in Nat /\ Cardinality(mau'[m]) \in Nat
  BY <1>1, MembersGrow DEF IInv
<1>4. At(s, "addPaid") =>
         /\ Cardinality(mau[m] \cup {id[s]}) <= Cardinality(mau'[m] \cup {id[s]})
         /\ Cardinality(mau[m] \cup {id[s]}) \in Nat
         /\ Cardinality(mau'[m] \cup {id[s]}) \in Nat
  BY <1>1, MembersGrow DEF IInv, Located, At
<1> QED
  BY <1>1, <1>2, <1>3, <1>4 DEF Counted, Same, At

LEMMA CountedStep ==
  ASSUME IInv, TypeOK', [Next]_vars, NEW s \in Requests
  PROVE  Counted(s)'
<1> DEFINE m == mon[s]
<1>1. /\ Located(s) /\ Counted(s) /\ m \in Months /\ count[s] \in Nat
      /\ PaidAllowance \in Nat /\ FreeLimit \in Nat
  BY ConstantsAssumption DEF IInv, TypeOK, LocalsOK
<1>2. LocalsOK /\ TypeOK
  BY DEF IInv, TypeOK
<1>3. Cardinality(mau[m]) \in Nat /\ mau[m] \subseteq Ids /\ IsFiniteSet(mau[m])
  BY <1>1, <1>2, Counts DEF TypeOK, DataOK
<1>4. CASE Step(s)
  <2> USE DEF Goto, LocalsOK
  <2>1. CASE pc'[s] \in {"idle", "find", "create", "readSub", "clock", "count"}
    BY <2>1 DEF Counted, At
  <2>2. CASE CountMembers(s)
    <3>1. /\ UNCHANGED <<mau, mon, id>> /\ count'[s] = Cardinality(mau[m])
          /\ pc'[s] \in {"memberPaid", "memberFree", "addFree"}
          /\ pc'[s] = "addFree" => ~(Cardinality(mau[m]) >= FreeLimit)
          /\ pc'[s] = "memberFree" => Cardinality(mau[m]) >= FreeLimit
      BY <1>2, <2>2 DEF CountMembers
    <3> QED
      BY <1>1, <1>3, <3>1 DEF Counted, At
  <2>3. CASE MemberFree(s)
    <3>1. pc'[s] = "addFree" => /\ id[s] \in mau[m]
                                /\ UNCHANGED <<mau, id, mon, count>>
      BY <1>2, <2>3 DEF MemberFree, MayFind, Finish
    <3>2. pc'[s] \in {"idle", "addFree"}
      BY <1>2, <2>3 DEF MemberFree, Finish
    <3> QED
      BY <3>1, <3>2 DEF Counted, At
  <2>4. CASE MemberPaid(s)
    <3>1. /\ UNCHANGED <<mau, id, mon, count>> /\ At(s, "memberPaid")
          /\ pc'[s] \in {"issue", "addPaid"}
          /\ pc'[s] = "issue" => id[s] \in mau[m]
          /\ pc'[s] = "addPaid" => Fails \/ id[s] \notin mau[m]
      BY <1>2, <2>4 DEF MemberPaid, MayFind
    <3>2. count[s] <= Cardinality(mau[m])
      BY <1>1, <3>1 DEF Counted, At
    <3>3. id[s] \notin mau[m] => Cardinality(mau[m] \cup {id[s]}) = Cardinality(mau[m]) + 1
      BY <1>3, FS_AddElement
    <3> QED
      BY <1>1, <1>3, <3>1, <3>2, <3>3 DEF Counted, At
  <2>5. CASE AddFree(s)
    <3>1. /\ UNCHANGED <<id, mon, count>> /\ mau' \in Added(m, id[s]) /\ pc'[s] = "issue"
      BY <1>2, <2>5 DEF AddFree
    <3>2. ~Fails => id[s] \in mau'[m]
      BY <1>1, <1>2, <3>1, AddGrows
    <3> QED
      BY <3>1, <3>2 DEF Counted, At
  <2>6. CASE AddPaid(s)
    <3>1. /\ UNCHANGED <<id, mon, count>> /\ mau' \in Added(m, id[s])
          /\ pc'[s] \in {"issue", "incr"} /\ At(s, "addPaid")
          /\ pc'[s] = "incr" => count[s] >= PaidAllowance
      BY <1>2, <2>6 DEF AddPaid, AddPaidOver
    <3>2. /\ ~Fails => id[s] \in mau'[m]
          /\ mau'[m] = mau[m] \cup {id[s]} \/ mau'[m] = mau[m]
      BY <1>1, <1>2, <3>1, AddGrows
    <3>3. ~Fails => mau'[m] = mau[m] \cup {id[s]}
      BY <3>2
    <3>4. ~Fails /\ pc'[s] = "incr" => Cardinality(mau'[m]) > PaidAllowance
      BY <1>1, <3>1, <3>3 DEF Counted
    <3> QED
      BY <3>1, <3>2, <3>4 DEF Counted, At
  <2>7. CASE Charge(s)
    <3>1. UNCHANGED <<mau, id, mon>> /\ pc'[s] = "issue" /\ At(s, "incr")
      BY <1>2, <2>7 DEF Charge
    <3> QED
      BY <1>1, <3>1 DEF Counted, At
  <2>8. CASE CountUnread(s)
    <3>1. pc'[s] \in {"idle", "memberUnread"}
      BY <1>2, <2>8 DEF CountUnread, Finish
    <3> QED
      BY <3>1 DEF Counted, At
  <2>9. CASE MemberUnread(s)
    <3>1. /\ UNCHANGED <<mau, id, mon>> /\ pc'[s] \in {"issue", "addUnread"}
          /\ pc'[s] = "issue" => id[s] \in mau[m]
      BY <1>2, <2>9 DEF MemberUnread, MayFind
    <3> QED
      BY <3>1 DEF Counted, At
  <2> QED
    BY <1>2, <1>4, <2>1, <2>2, <2>3, <2>4, <2>5, <2>6, <2>7, <2>8, <2>9
    DEF Step, SignUp, StartSignUp, FindAppUser, CreateAppUser, ReadSub, ReadClock, Issue,
        Abort, AddUnread, Finish
<1>5. CASE \E r \in Requests : r # s /\ Step(r)
  BY <1>2, <1>5, OthersSame, CountedKept
<1>6. CASE UNCHANGED reqVars
  BY <1>6, CountedKept DEF reqVars, Same
<1> QED
  BY <1>4, <1>5, <1>6, NextSteps

(***************************************************************************)
(* The places of a month.                                                  *)
(***************************************************************************)
\* A place taken and a place about to be taken count once.
LEMMA PlaceTaken ==
  ASSUME NEW F, F \subseteq Ids, NEW G, G \subseteq Ids,
         NEW A, A \subseteq Requests, NEW B, B \subseteq Requests, NEW r, NEW x,
         \/ G \subseteq F /\ B \subseteq A
         \/ G \subseteq F \cup {x} /\ r \in A /\ B \subseteq A \ {r}
  PROVE  Cardinality(G) + Cardinality(B) <= Cardinality(F) + Cardinality(A)
<1>1. /\ IsFiniteSet(F) /\ IsFiniteSet(G) /\ IsFiniteSet(A) /\ IsFiniteSet(B)
      /\ Cardinality(F) \in Nat /\ Cardinality(G) \in Nat
      /\ Cardinality(A) \in Nat /\ Cardinality(B) \in Nat
  BY Counts
<1>2. CASE G \subseteq F /\ B \subseteq A
  <2>1. Cardinality(G) <= Cardinality(F) /\ Cardinality(B) <= Cardinality(A)
    BY <1>1, <1>2, FS_Subset
  <2> QED
    BY <1>1, <2>1
<1>3. CASE G \subseteq F \cup {x} /\ r \in A /\ B \subseteq A \ {r}
  <2>1. /\ IsFiniteSet(F \cup {x})
        /\ Cardinality(F \cup {x}) \in {Cardinality(F), Cardinality(F) + 1}
    BY <1>1, FS_AddElement
  <2>2. Cardinality(G) <= Cardinality(F \cup {x})
    BY <1>3, <2>1, FS_Subset
  <2>3. /\ IsFiniteSet(A \ {r})
        /\ Cardinality(A \ {r}) = Cardinality(A) - 1
    BY <1>1, <1>3, FS_RemoveElement
  <2>4. Cardinality(B) <= Cardinality(A \ {r})
    BY <1>3, <2>3, FS_Subset
  <2> QED
    BY <1>1, <2>1, <2>2, <2>3, <2>4
<1> QED
  BY <1>2, <1>3

\* While fewer than a limit are members, everyone in flight still fits.
LEMMA PlaceOpen ==
  ASSUME NEW F, NEW S, F \subseteq S, S \subseteq Ids, NEW limit \in Nat,
         Cardinality(S) < limit, NEW B, B \subseteq Requests
  PROVE  Cardinality(F) + Cardinality(B) <= limit - 1 + N
<1>1. Cardinality(F) \in Nat /\ Cardinality(S) \in Nat /\ Cardinality(B) \in Nat
  BY Counts
<1>2. Cardinality(F) <= Cardinality(S)
  BY Counts, FS_Subset
<1>3. Cardinality(B) <= N
  BY ConstantsAssumption, FS_Subset DEF N
<1> QED
  BY <1>1, <1>2, <1>3, NType

\* A request that does not charge after all takes no place that counts.
LEMMA PlacesSpoilt ==
  ASSUME TypeOK, NEW m \in Months, NEW r \in Requests,
         Charge(r) \/ Abort(r) \/ AddUnread(r)
  PROVE  FreePlaces(m)' \subseteq FreePlaces(m) /\ PaidPlaces(m)' \subseteq PaidPlaces(m)
<1>1. /\ paidFree \in [Months -> SUBSET Ids] /\ spoilt \in [Months -> SUBSET Ids]
      /\ mon[r] \in Months
  BY DEF TypeOK, GhostsOK, LocalsOK
<1>2. freeNew' = freeNew
  BY DEF Charge, Abort, AddUnread
<1>3. CASE UNCHANGED <<paidFree, spoilt>>
  BY <1>2, <1>3 DEF FreePlaces, PaidPlaces
<1>4. CASE Uncharged(r)
  BY <1>1, <1>2, <1>4 DEF Uncharged, With, FreePlaces, PaidPlaces
<1>5. CASE AddUnread(r)
  <2>1. /\ paidFree' = [paidFree EXCEPT ![mon[r]] = @ \cup (mau'[mon[r]] \ mau[mon[r]])]
        /\ spoilt' = With(spoilt, mon[r], id[r]) /\ mau' \in Added(mon[r], id[r])
    BY <1>5 DEF AddUnread
  <2>2. mau'[mon[r]] \subseteq mau[mon[r]] \cup {id[r]}
    BY <1>1, <2>1, AddGrows
  <2> QED
    BY <1>1, <1>2, <2>1, <2>2 DEF With, FreePlaces, PaidPlaces
<1> QED
  BY <1>3, <1>4, <1>5 DEF Charge, Abort

LEMMA PlacesStep ==
  ASSUME IInv, TypeOK', [Next]_vars
  PROVE  Places'
<1> SUFFICES ASSUME NEW m \in Months
             PROVE  /\ (FreePlaces(m) \cup PaidPlaces(m) \subseteq mau[m])'
                    /\ (Cardinality(FreePlaces(m)) + Cardinality(TakingFree(m))
                          <= FreeLimit - 1 + N)'
                    /\ (Cardinality(PaidPlaces(m)) + Cardinality(TakingPaid(m))
                          <= PaidAllowance - 1 + N)'
  BY DEF Places
<1>1. /\ TypeOK /\ LocalsOK /\ GhostsOK /\ FreeLimit \in Nat /\ PaidAllowance \in Nat
      /\ FreePlaces(m) \subseteq Ids /\ PaidPlaces(m) \subseteq Ids /\ mau[m] \subseteq Ids
      /\ FreePlaces(m)' \subseteq Ids /\ PaidPlaces(m)' \subseteq Ids
      /\ \A r \in Requests : Counted(r) /\ Located(r)
  BY ConstantsAssumption DEF IInv, TypeOK, DataOK, GhostsOK, FreePlaces, PaidPlaces
<1>2. /\ FreePlaces(m) \cup PaidPlaces(m) \subseteq mau[m]
      /\ Cardinality(FreePlaces(m))  + Cardinality(TakingFree(m)) <= FreeLimit - 1 + N
      /\ Cardinality(PaidPlaces(m)) + Cardinality(TakingPaid(m)) <= PaidAllowance - 1 + N
  BY DEF IInv, Places
<1>3. /\ TakingFree(m) \subseteq Requests /\ TakingPaid(m) \subseteq Requests
      /\ TakingFree(m)' \subseteq Requests /\ TakingPaid(m)' \subseteq Requests
  BY DEF TakingFree, TakingPaid
<1>4. mau[m] \subseteq mau'[m]
  BY <1>1, StepGrows
<1>5. /\ Cardinality(FreePlaces(m)) \in Nat /\ Cardinality(TakingFree(m)) \in Nat
      /\ Cardinality(PaidPlaces(m)) \in Nat /\ Cardinality(TakingPaid(m)) \in Nat
      /\ Cardinality(FreePlaces(m)') \in Nat /\ Cardinality(TakingFree(m)') \in Nat
      /\ Cardinality(PaidPlaces(m)') \in Nat /\ Cardinality(TakingPaid(m)') \in Nat
  BY <1>1, <1>3, Counts
<1> DEFINE FreeKept == FreePlaces(m)' \subseteq FreePlaces(m) /\ TakingFree(m)' \subseteq TakingFree(m)
           PaidKept == PaidPlaces(m)' \subseteq PaidPlaces(m) /\ TakingPaid(m)' \subseteq TakingPaid(m)
           FreeFits == Cardinality(FreePlaces(m)') + Cardinality(TakingFree(m)')
                         <= FreeLimit - 1 + N
           PaidFits == Cardinality(PaidPlaces(m)') + Cardinality(TakingPaid(m)')
                         <= PaidAllowance - 1 + N
           Inside   == FreePlaces(m)' \cup PaidPlaces(m)' \subseteq mau'[m]
<1>6. FreeKept => FreeFits
  <2> SUFFICES ASSUME FreeKept PROVE FreeFits
    OBVIOUS
  <2>1. Cardinality(FreePlaces(m)') + Cardinality(TakingFree(m)')
          <= Cardinality(FreePlaces(m)) + Cardinality(TakingFree(m))
    BY <1>1, <1>3, PlaceTaken
  <2> QED
    BY <1>1, <1>2, <1>5, <2>1, NType
<1>7. PaidKept => PaidFits
  <2> SUFFICES ASSUME PaidKept PROVE PaidFits
    OBVIOUS
  <2>1. Cardinality(PaidPlaces(m)') + Cardinality(TakingPaid(m)')
          <= Cardinality(PaidPlaces(m)) + Cardinality(TakingPaid(m))
    BY <1>1, <1>3, PlaceTaken
  <2> QED
    BY <1>1, <1>2, <1>5, <2>1, NType
<1>8. ASSUME NEW r \in Requests, Step(r)
      PROVE  /\ TakingFree(m)' \subseteq TakingFree(m) \cup {r}
             /\ TakingPaid(m)' \subseteq TakingPaid(m) \cup {r}
             /\ r \notin TakingFree(m)' => TakingFree(m)' \subseteq TakingFree(m) \ {r}
             /\ r \notin TakingPaid(m)' => TakingPaid(m)' \subseteq TakingPaid(m) \ {r}
  <2>1. \A s \in Requests : s # r => Same(s)
    BY <1>1, <1>8, OthersSame
  <2> QED
    BY <2>1 DEF TakingFree, TakingPaid, Same, At
<1>9. ASSUME NEW r \in Requests, CountMembers(r) PROVE FreeFits /\ PaidFits /\ Inside
  <2>1. /\ UNCHANGED <<mau, mon>>
        /\ FreePlaces(m)' = FreePlaces(m) /\ PaidPlaces(m)' = PaidPlaces(m)
        /\ count'[r] = Cardinality(mau[mon[r]])
    BY <1>1, <1>9 DEF CountMembers, LocalsOK, ghostVars, FreePlaces, PaidPlaces
  <2>2. r \in TakingFree(m)' => Cardinality(mau[m]) < FreeLimit
    BY <1>1, <2>1, Counts DEF TakingFree
  <2>3. r \in TakingPaid(m)' => Cardinality(mau[m]) < PaidAllowance
    BY <1>1, <2>1, Counts DEF TakingPaid
  <2>4. FreeFits
    BY <1>1, <1>2, <1>3, <1>6, <1>8, <1>9, <2>1, <2>2, PlaceOpen DEF Step, SignUp
  <2>5. PaidFits
    BY <1>1, <1>2, <1>3, <1>7, <1>8, <1>9, <2>1, <2>3, PlaceOpen DEF Step, SignUp
  <2> QED
    BY <1>2, <2>1, <2>4, <2>5
<1>10. ASSUME NEW r \in Requests, AddFree(r) PROVE FreeFits /\ PaidFits /\ Inside
  <2>1. /\ mau' \in Added(mon[r], id[r]) /\ mon[r] \in Months /\ pc'[r] = "issue"
        /\ freeNew' = [freeNew EXCEPT ![mon[r]] = @ \cup ({id[r]} \ mau[mon[r]])]
        /\ spoilt' = Spoilt(mon[r], id[r])
        /\ paidFree' = paidFree /\ At(r, "addFree") /\ count[r] \in Nat
        /\ freeNew \in [Months -> SUBSET Ids] /\ spoilt \in [Months -> SUBSET Ids]
    BY <1>1, <1>10 DEF AddFree, LocalsOK, GhostsOK, Goto
  <2>2. /\ mau'[mon[r]] \subseteq mau[mon[r]] \cup {id[r]}
        /\ mau[mon[r]] \subseteq mau'[mon[r]]
        /\ id[r] \in mau[mon[r]] => mau' = mau
    BY <1>1, <2>1, AddGrows
  <2>3. r \notin TakingFree(m)' /\ r \notin TakingPaid(m)'
    BY <2>1 DEF TakingFree, TakingPaid, At
  <2>4. PaidPlaces(m)' \subseteq PaidPlaces(m)
    BY <2>1 DEF PaidPlaces, Spoilt, With
  <2>5. FreePlaces(m)' \subseteq FreePlaces(m) \cup (mau'[m] \ mau[m])
    BY <2>1 DEF FreePlaces, Spoilt, With
  <2>7. PaidFits
    BY <1>7, <1>8, <1>10, <2>3, <2>4 DEF Step, SignUp
  <2>6. FreeFits
    <3>1. CASE mon[r] = m /\ count[r] < FreeLimit
      <4>1. r \in TakingFree(m) /\ FreePlaces(m)' \subseteq FreePlaces(m) \cup {id[r]}
        BY <2>1, <2>2, <2>5, <3>1 DEF TakingFree
      <4>2. TakingFree(m)' \subseteq TakingFree(m) \ {r}
        BY <1>8, <1>10, <2>3 DEF Step, SignUp
      <4>3. Cardinality(FreePlaces(m)') + Cardinality(TakingFree(m)')
              <= Cardinality(FreePlaces(m)) + Cardinality(TakingFree(m))
        BY <1>1, <1>3, <4>1, <4>2, PlaceTaken
      <4> QED
        BY <1>1, <1>2, <1>5, <4>3, NType
    <3>2. CASE mon[r] # m
      <4>1. FreePlaces(m)' \subseteq FreePlaces(m)
        BY <1>1, <2>1, <2>5, <3>2, AddGrows
      <4> QED
        BY <1>6, <1>8, <1>10, <2>3, <4>1 DEF Step, SignUp
    <3>3. CASE mon[r] = m /\ count[r] >= FreeLimit
      <4>1. mau' = mau
        BY <1>1, <2>1, <2>2, <3>3 DEF Counted
      <4>2. FreePlaces(m)' \subseteq FreePlaces(m)
        BY <2>5, <4>1
      <4> QED
        BY <1>6, <1>8, <1>10, <2>3, <4>2 DEF Step, SignUp
    <3> QED
      BY <1>1, <2>1, <3>1, <3>2, <3>3
  <2> QED
    BY <1>2, <1>4, <2>4, <2>5, <2>6, <2>7
<1>11. ASSUME NEW r \in Requests, AddPaid(r) PROVE FreeFits /\ PaidFits /\ Inside
  <2>1. /\ mau' \in Added(mon[r], id[r]) /\ mon[r] \in Months
        /\ pc'[r] \in {"issue", "incr"}
        /\ paidFree' = IF count[r] >= PaidAllowance THEN paidFree
                       ELSE [paidFree EXCEPT ![mon[r]] = @ \cup ({id[r]} \ mau[mon[r]])]
        /\ spoilt' = Spoilt(mon[r], id[r])
        /\ freeNew' = freeNew /\ At(r, "addPaid") /\ count[r] \in Nat
        /\ paidFree \in [Months -> SUBSET Ids] /\ spoilt \in [Months -> SUBSET Ids]
    BY <1>1, <1>11 DEF AddPaid, AddPaidOver, LocalsOK, GhostsOK, Goto
  <2>2. mau'[mon[r]] \subseteq mau[mon[r]] \cup {id[r]}
    BY <1>1, <2>1, AddGrows
  <2>3. r \notin TakingFree(m)' /\ r \notin TakingPaid(m)'
    BY <2>1 DEF TakingFree, TakingPaid, At
  <2>4. FreePlaces(m)' \subseteq FreePlaces(m)
    BY <2>1 DEF FreePlaces, Spoilt, With
  <2>5. PaidPlaces(m)' \subseteq PaidPlaces(m) \cup (mau'[m] \ mau[m])
    BY <2>1 DEF PaidPlaces, Spoilt, With
  <2>7. FreeFits
    BY <1>6, <1>8, <1>11, <2>3, <2>4 DEF Step, SignUp
  <2>6. PaidFits
    <3>1. CASE mon[r] = m /\ count[r] < PaidAllowance
      <4>1. r \in TakingPaid(m) /\ PaidPlaces(m)' \subseteq PaidPlaces(m) \cup {id[r]}
        BY <2>1, <2>2, <2>5, <3>1 DEF TakingPaid, At
      <4>2. TakingPaid(m)' \subseteq TakingPaid(m) \ {r}
        BY <1>8, <1>11, <2>3 DEF Step, SignUp
      <4>3. Cardinality(PaidPlaces(m)') + Cardinality(TakingPaid(m)')
              <= Cardinality(PaidPlaces(m)) + Cardinality(TakingPaid(m))
        BY <1>1, <1>3, <4>1, <4>2, PlaceTaken
      <4> QED
        BY <1>1, <1>2, <1>5, <4>3, NType
    <3>2. CASE mon[r] # m \/ count[r] >= PaidAllowance
      <4>1. PaidPlaces(m)' \subseteq PaidPlaces(m)
        BY <2>1, <3>2 DEF PaidPlaces, Spoilt, With
      <4> QED
        BY <1>7, <1>8, <1>11, <2>3, <4>1 DEF Step, SignUp
    <3> QED
      BY <1>1, <2>1, <3>1, <3>2
  <2> QED
    BY <1>2, <1>4, <2>4, <2>5, <2>6, <2>7
<1>12. ASSUME NEW r \in Requests, Step(r), ~CountMembers(r), ~AddFree(r), ~AddPaid(r)
       PROVE  FreeFits /\ PaidFits /\ Inside
  <2>1. FreePlaces(m)' \subseteq FreePlaces(m) /\ PaidPlaces(m)' \subseteq PaidPlaces(m)
    <3>1. CASE Charge(r) \/ Abort(r) \/ AddUnread(r)
      BY <1>1, <3>1, PlacesSpoilt
    <3>2. CASE ~Charge(r) /\ ~Abort(r) /\ ~AddUnread(r)
      <4>1. UNCHANGED <<freeNew, paidFree, spoilt>>
        BY <1>12, <3>2 DEF Step, SignUp, StartSignUp, FindAppUser, CreateAppUser, ReadSub,
           ReadClock, CountUnread, MemberUnread, MemberFree, MemberPaid, Issue, ghostVars
      <4> QED
        BY <4>1 DEF FreePlaces, PaidPlaces
    <3> QED
      BY <3>1, <3>2
  <2>2. r \notin TakingFree(m)'
    <3>1. CASE MemberFree(r)
      <4>1. pc'[r] = "idle" \/ (count'[r] = count[r] /\ At(r, "memberFree"))
        BY <1>1, <3>1 DEF MemberFree, Finish, LocalsOK
      <4>2. At(r, "memberFree") => count[r] >= FreeLimit
        BY <1>1 DEF Counted
      <4>3. count[r] \in Nat
        BY <1>1 DEF LocalsOK
      <4>4. pc'[r] = "idle" \/ ~(count'[r] < FreeLimit)
        BY <1>1, <4>1, <4>2, <4>3
      <4> QED
        BY <4>4 DEF TakingFree, At
    <3>2. CASE ~MemberFree(r)
      <4>1. pc'[r] # "addFree"
        BY <1>1, <1>12, <3>2 DEF Step, SignUp, StartSignUp, FindAppUser, CreateAppUser,
           ReadSub, ReadClock, CountUnread, MemberUnread, AddUnread, MemberPaid, Charge,
           Issue, Abort, Finish, Goto, LocalsOK
      <4> QED
        BY <4>1 DEF TakingFree, At
    <3> QED
      BY <3>1, <3>2
  <2>3. r \in TakingPaid(m)' => r \in TakingPaid(m)
    <3>1. CASE MemberPaid(r)
      BY <1>1, <3>1 DEF MemberPaid, TakingPaid, At
    <3>2. CASE ~MemberPaid(r)
      <4>1. pc'[r] \notin {"memberPaid", "addPaid"}
        BY <1>1, <1>12, <3>2 DEF Step, SignUp, StartSignUp, FindAppUser, CreateAppUser,
           ReadSub, ReadClock, CountUnread, MemberUnread, AddUnread, MemberFree, Charge,
           Issue, Abort, Finish, Goto, LocalsOK
      <4> QED
        BY <4>1 DEF TakingPaid, At
    <3> QED
      BY <3>1, <3>2
  <2>4. FreeKept /\ PaidKept
    BY <1>8, <1>12, <2>1, <2>2, <2>3
  <2> QED
    BY <1>2, <1>4, <1>6, <1>7, <2>1, <2>4
<1>13. ASSUME UNCHANGED <<reqVars, mau, ghostVars>> PROVE FreeFits /\ PaidFits /\ Inside
  <2>1. FreeKept /\ PaidKept
    BY <1>13 DEF TakingFree, TakingPaid, FreePlaces, PaidPlaces, At, reqVars, ghostVars
  <2> QED
    BY <1>2, <1>4, <1>6, <1>7, <2>1
<1>14. FreeFits /\ PaidFits /\ Inside
  BY <1>9, <1>10, <1>11, <1>12, <1>13, NextSteps
<1> QED
  BY <1>14

(***************************************************************************)
(* Charges and tokens.                                                     *)
(***************************************************************************)
LEMMA ChargeStep ==
  ASSUME IInv, TypeOK', [Next]_vars
  PROVE  ChargeJustified'
<1> SUFFICES ASSUME ~Fails, NEW m \in Months, NEW p \in Plans, charge'[m][p] > 0
             PROVE  Cardinality(mau'[m]) > PaidAllowance
  BY DEF ChargeJustified
<1>1. /\ TypeOK /\ PaidAllowance \in Nat
      /\ Cardinality(mau[m]) \in Nat /\ Cardinality(mau'[m]) \in Nat
      /\ Cardinality(mau[m]) <= Cardinality(mau'[m])
  BY MembersGrow, ConstantsAssumption DEF IInv
<1>2. CASE charge[m][p] > 0
  BY <1>1, <1>2 DEF IInv, ChargeJustified
<1>3. CASE charge'[m] # charge[m]
  <2>1. PICK r \in Requests : Charge(r)
    BY <1>3, NextSteps DEF Step, SignUp, StartSignUp, FindAppUser, CreateAppUser, ReadSub,
       ReadClock, CountMembers, CountUnread, MemberUnread, AddUnread, MemberFree, AddFree,
       MemberPaid, AddPaid, AddPaidOver, Issue, Abort
  <2>2. mon[r] = m /\ At(r, "incr")
    <3>1. charge \in [Months -> [Plans -> 0..MaxCharges]]
      BY <1>1 DEF TypeOK, DataOK
    <3> QED
      BY <1>3, <2>1, <3>1 DEF Charge
  <2>3. Cardinality(mau[m]) > PaidAllowance
    BY <2>2 DEF IInv, Counted
  <2> QED
    BY <1>1, <2>3
<1> QED
  BY <1>2, <1>3

LEMMA IssueStep ==
  ASSUME IInv, [Next]_vars
  PROVE  IssuedAreCounted'
<1> SUFFICES ASSUME ~Fails, NEW t \in issued' PROVE t[1] \in mau'[t[2]]
  BY DEF IssuedAreCounted
<1>1. TypeOK
  BY DEF IInv
<1>2. CASE t \in issued
  <2>1. t[2] \in Months /\ t[1] \in mau[t[2]]
    BY <1>1, <1>2 DEF IInv, IssuedAreCounted, TypeOK, DataOK
  <2> QED
    BY <1>1, <2>1, StepGrows
<1>3. CASE t \notin issued
  <2>1. PICK r \in Requests : Issue(r)
    BY <1>3, NextSteps DEF Step, SignUp, StartSignUp, FindAppUser, CreateAppUser, ReadSub,
       ReadClock, CountMembers, CountUnread, MemberUnread, AddUnread, MemberFree, AddFree,
       MemberPaid, AddPaid, AddPaidOver, Charge, Abort
  <2>2. t = <<id[r], mon[r]>> /\ At(r, "issue") /\ mau' = mau
    BY <1>3, <2>1 DEF Issue
  <2>3. id[r] \in mau[mon[r]]
    BY <2>2 DEF IInv, Counted, At
  <2> QED
    BY <2>2, <2>3
<1> QED
  BY <1>2, <1>3

-----------------------------------------------------------------------------
(***************************************************************************)
(* The invariant and what follows from it.                                 *)
(***************************************************************************)
LEMMA InitIInv == Init => IInv
<1> SUFFICES ASSUME Init PROVE IInv
  OBVIOUS
<1>1. 1 \in Months
  BY ConstantsAssumption DEF Months
<1>2. TypeOK
  BY <1>1, ConstantsAssumption DEF Init, TypeOK, DataOK, LocalsOK, GhostsOK, PCs
<1>3. \A r \in Requests : Located(r) /\ Counted(r)
  BY DEF Init, Located, Counted, At
<1>4. Places
  <2>1. \A m \in Months : /\ FreePlaces(m) = {} /\ PaidPlaces(m) = {}
                          /\ TakingFree(m) = {} /\ TakingPaid(m) = {}
    BY DEF Init, TakingFree, TakingPaid, FreePlaces, PaidPlaces, At
  <2>2. Cardinality({}) = 0
    BY FS_EmptySet
  <2>3. 0 + 0 <= FreeLimit - 1 + N /\ 0 + 0 <= PaidAllowance - 1 + N
    BY NType, ConstantsAssumption
  <2> QED
    BY <2>1, <2>2, <2>3 DEF Places
<1>5. ChargeJustified /\ IssuedAreCounted
  BY DEF Init, ChargeJustified, IssuedAreCounted
<1> QED
  BY <1>2, <1>3, <1>4, <1>5 DEF IInv

LEMMA Invariance == Spec => []IInv
<1>1. IInv /\ [Next]_vars => IInv'
  <2> SUFFICES ASSUME IInv, [Next]_vars PROVE IInv'
    OBVIOUS
  <2>1. TypeOK'
    BY TypeStep
  <2>2. \A r \in Requests : Located(r)' /\ Counted(r)'
    BY <2>1, LocatedStep, CountedStep
  <2> QED
    BY <2>1, <2>2, PlacesStep, ChargeStep, IssueStep DEF IInv
<1> QED
  BY <1>1, InitIInv, PTL DEF Spec

\* Every document, set, counter and local of ApplicationSignUp and
\* CheckMonthlyLimit keeps its type.
THEOREM TypeCorrect == Spec => []TypeOK
<1>1. IInv => TypeOK
  BY DEF IInv
<1> QED
  BY <1>1, Invariance, PTL

\* Those that took a place, and those a failure let in: together all of them.
LEMMA Split ==
  ASSUME NEW F, F \subseteq Ids, NEW S, S \subseteq Ids
  PROVE  Cardinality(F) <= Cardinality(F \ S) + Cardinality(S)
<1>1. IsFiniteSet(F) /\ IsFiniteSet(F \ S) /\ IsFiniteSet(F \cap S) /\ IsFiniteSet(S)
  BY Counts
<1>2. Cardinality(F) = Cardinality(F \ S) + Cardinality(F \cap S)
  <2>1. (F \ S) \cup (F \cap S) = F /\ (F \ S) \cap (F \cap S) = {}
    OBVIOUS
  <2>2. Cardinality((F \ S) \cup (F \cap S))
          = Cardinality(F \ S) + Cardinality(F \cap S) - Cardinality((F \ S) \cap (F \cap S))
    BY <1>1, FS_Union
  <2>3. Cardinality((F \ S) \cap (F \cap S)) = 0
    BY <2>1, FS_EmptySet
  <2>4. Cardinality(F \ S) \in Nat /\ Cardinality(F \cap S) \in Nat
    BY <1>1, FS_CardinalityType
  <2>5. Cardinality((F \ S) \cup (F \cap S)) = Cardinality(F \ S) + Cardinality(F \cap S)
    BY <2>2, <2>3, <2>4
  <2> QED
    BY <2>1, <2>5, Zenon
<1>3. Cardinality(F \cap S) <= Cardinality(S)
  BY <1>1, FS_Subset
<1> QED
  BY <1>1, <1>2, <1>3, FS_CardinalityType

\* For any number of users, requests and failures: beyond FREE_TIER_MAU_LIMIT the free
\* branch of CheckMonthlyLimit lets in at most one AppUser per request in flight, and
\* those whose addition to the month's set was lost.
THEOREM FreeOvershoot == Spec => []FreeOvershootBound
<1>1. IInv => FreeOvershootBound
  <2> SUFFICES ASSUME IInv, NEW m \in Months
               PROVE  Cardinality(freeNew[m]) <= FreeLimit - 1 + N + Cardinality(spoilt[m])
    BY DEF FreeOvershootBound
  <2>1. Cardinality(FreePlaces(m)) + Cardinality(TakingFree(m)) <= FreeLimit - 1 + N
    BY DEF IInv, Places
  <2>2. /\ freeNew[m] \subseteq Ids /\ spoilt[m] \subseteq Ids /\ FreePlaces(m) \subseteq Ids
        /\ TakingFree(m) \subseteq Requests
    BY DEF IInv, TypeOK, GhostsOK, TakingFree, FreePlaces
  <2>3. Cardinality(freeNew[m]) <= Cardinality(FreePlaces(m)) + Cardinality(spoilt[m])
    BY <2>2, Split DEF FreePlaces
  <2>4. /\ Cardinality(freeNew[m]) \in Nat /\ Cardinality(TakingFree(m)) \in Nat
        /\ Cardinality(FreePlaces(m)) \in Nat /\ Cardinality(spoilt[m]) \in Nat
    BY <2>2, Counts
  <2> QED
    BY <2>1, <2>3, <2>4, NType, ConstantsAssumption
<1> QED
  BY <1>1, Invariance, PTL

\* Likewise for the AppUsers a paid branch lets in, or counts, without charging for them.
THEOREM UnchargedBounded == Spec => []UnchargedBound
<1>1. IInv => UnchargedBound
  <2> SUFFICES ASSUME IInv, NEW m \in Months
               PROVE  Cardinality(paidFree[m]) <= PaidAllowance - 1 + N + Cardinality(spoilt[m])
    BY DEF UnchargedBound
  <2>1. Cardinality(PaidPlaces(m)) + Cardinality(TakingPaid(m)) <= PaidAllowance - 1 + N
    BY DEF IInv, Places
  <2>2. /\ paidFree[m] \subseteq Ids /\ spoilt[m] \subseteq Ids /\ PaidPlaces(m) \subseteq Ids
        /\ TakingPaid(m) \subseteq Requests
    BY DEF IInv, TypeOK, GhostsOK, TakingPaid, PaidPlaces
  <2>3. Cardinality(paidFree[m]) <= Cardinality(PaidPlaces(m)) + Cardinality(spoilt[m])
    BY <2>2, Split DEF PaidPlaces
  <2>4. /\ Cardinality(paidFree[m]) \in Nat /\ Cardinality(TakingPaid(m)) \in Nat
        /\ Cardinality(PaidPlaces(m)) \in Nat /\ Cardinality(spoilt[m]) \in Nat
    BY <2>2, Counts
  <2> QED
    BY <2>1, <2>3, <2>4, NType, ConstantsAssumption
<1> QED
  BY <1>1, Invariance, PTL

\* While Redis answers, no month is charged for before more AppUsers than the
\* allowance were active in it.
THEOREM ChargesJustified == Spec => []ChargeJustified
<1>1. IInv => ChargeJustified
  BY DEF IInv
<1> QED
  BY <1>1, Invariance, PTL

\* While Redis answers, tokens are given only to an AppUser counted in the
\* month its limit was checked for.
THEOREM IssuedCounted == Spec => []IssuedAreCounted
<1>1. IInv => IssuedAreCounted
  BY DEF IInv
<1> QED
  BY <1>1, Invariance, PTL

(***************************************************************************)
(* What overlapping requests can add up to while the lookups answer.        *)
(***************************************************************************)
\* FindAppUser creates only for a user that has no AppUser; whatever is created
\* after that was in flight before.
LEMMA AppUsersStep ==
  ASSUME IInv, Overlaps, TypeOK', [Next]_vars, ~Fails, NEW u \in Users
  PROVE  Cardinality(AppUsersOf(u)') + Cardinality(Creating(u)') <= N
<1>1. /\ AppUsersOf(u) \subseteq Ids /\ AppUsersOf(u)' \subseteq Ids
      /\ Creating(u) \subseteq Requests /\ Creating(u)' \subseteq Requests
  BY DEF AppUsersOf, Creating
<1>2. Cardinality(AppUsersOf(u)) + Cardinality(Creating(u)) <= N
  BY DEF Overlaps
<1>3. /\ Cardinality(AppUsersOf(u)) \in Nat /\ Cardinality(AppUsersOf(u)') \in Nat
      /\ Cardinality(Creating(u)) \in Nat /\ Cardinality(Creating(u)') \in Nat
  BY <1>1, Counts
<1>4. ASSUME NEW r \in Requests, NEW i,
             \/ /\ AppUsersOf(u)' \subseteq AppUsersOf(u)
                /\ Creating(u)' \subseteq Creating(u)
             \/ /\ AppUsersOf(u)' \subseteq AppUsersOf(u) \cup {i}
                /\ r \in Creating(u) /\ Creating(u)' \subseteq Creating(u) \ {r}
      PROVE  Cardinality(AppUsersOf(u)') + Cardinality(Creating(u)') <= N
  <2>1. Cardinality(AppUsersOf(u)') + Cardinality(Creating(u)')
          <= Cardinality(AppUsersOf(u)) + Cardinality(Creating(u))
    BY <1>1, <1>4, PlaceTaken
  <2> QED
    BY <2>1, <1>2, <1>3, NType
<1>5. TypeOK /\ LocalsOK /\ (\A r \in Requests : Located(r))
  BY DEF IInv, TypeOK
<1>6. ASSUME NEW r \in Requests, Step(r), ~FindAppUser(r), ~CreateAppUser(r)
      PROVE  Cardinality(AppUsersOf(u)') + Cardinality(Creating(u)') <= N
  <2>1. owner' = owner /\ ~At(r, "create")'
    <3>1. CASE \E v \in Users : StartSignUp(r, v)
      BY <3>1, <1>5 DEF StartSignUp, Goto, LocalsOK, At
    <3>2. CASE \/ ReadSub(r) \/ ReadClock(r) \/ CountMembers(r) \/ AddFree(r)
               \/ MemberPaid(r) \/ AddPaid(r) \/ Charge(r)
      BY <3>2, <1>5 DEF ReadSub, ReadClock, CountMembers, AddFree, MemberPaid, AddPaid,
         AddPaidOver, Charge, Goto, LocalsOK, At
    <3>3. CASE MemberFree(r) \/ Issue(r) \/ Abort(r)
      BY <3>3, <1>5 DEF MemberFree, Issue, Abort, Finish, Goto, LocalsOK, At
    <3>4. CASE CountUnread(r) \/ MemberUnread(r) \/ AddUnread(r)
      BY <3>4, <1>5 DEF CountUnread, MemberUnread, AddUnread, Finish, Goto, LocalsOK, At
    <3> QED
      BY <1>6, <3>1, <3>2, <3>3, <3>4 DEF Step, SignUp
  <2>2. AppUsersOf(u)' \subseteq AppUsersOf(u)
    BY <2>1 DEF AppUsersOf
  <2>3. Creating(u)' \subseteq Creating(u)
    BY <1>5, <1>6, <2>1, OthersSame DEF Creating, Same, At
  <2> QED
    BY <1>4, <2>2, <2>3
<1>7. ASSUME NEW r \in Requests, FindAppUser(r)
      PROVE  Cardinality(AppUsersOf(u)') + Cardinality(Creating(u)') <= N
  <2>1. AppUsersOf(u)' = AppUsersOf(u) /\ user' = user
    BY <1>7 DEF FindAppUser, AppUsersOf
  <2>2. CASE AppUsersOf(u) = {}
    <3>1. Cardinality(AppUsersOf(u)') = 0
      BY <2>1, <2>2, FS_EmptySet
    <3>2. Cardinality(Creating(u)') <= N
      BY <1>1, ConstantsAssumption, FS_Subset DEF N
    <3> QED
      BY <3>1, <3>2, <1>3, NType
  <2>3. CASE AppUsersOf(u) # {}
    <3>1. Creating(u)' \subseteq Creating(u)
      BY <1>5, <1>7, <2>1, <2>3 DEF FindAppUser, Creating, Goto, At, LocalsOK
    <3> QED
      BY <1>4, <2>1, <3>1
  <2> QED
    BY <2>2, <2>3
<1>8. ASSUME NEW r \in Requests, CreateAppUser(r)
      PROVE  Cardinality(AppUsersOf(u)') + Cardinality(Creating(u)') <= N
  <2>1. PICK i \in AppUsersOf(None) : owner' = [owner EXCEPT ![i] = user[r]]
    BY <1>8 DEF CreateAppUser
  <2>2. At(r, "create") /\ pc' = [pc EXCEPT ![r] = "readSub"] /\ user' = user
    BY <1>8 DEF CreateAppUser, Goto
  <2>3. owner \in [Ids -> Users \cup {None}] /\ pc \in [Requests -> PCs]
    BY <1>5 DEF TypeOK, DataOK, LocalsOK
  <2>4. CASE user[r] = u
    BY <1>4, <2>1, <2>2, <2>3, <2>4 DEF AppUsersOf, Creating, At
  <2>5. CASE user[r] # u
    BY <1>4, <2>1, <2>2, <2>3, <2>5 DEF AppUsersOf, Creating, At
  <2> QED
    BY <2>4, <2>5
<1>9. CASE UNCHANGED <<reqVars, mau, ghostVars, charge, issued>> /\ owner' = owner
  BY <1>2, <1>9 DEF reqVars, AppUsersOf, Creating, At
<1>10. \/ \E r \in Requests : Step(r)
       \/ UNCHANGED <<reqVars, mau, ghostVars, charge, issued>> /\ owner' = owner
  BY DEF Next, Step, BuyPlan, MonthEnds, vars
<1> QED
  BY <1>6, <1>7, <1>8, <1>9, <1>10

\* MemberPaid goes on to a charge only for an AppUser that is not counted yet, for which
\* nothing was charged; whatever is charged after that was in flight before.
LEMMA ChargesStep ==
  ASSUME IInv, Overlaps, TypeOK', [Next]_vars, ~Fails, NEW m \in Months, NEW i \in Ids
  PROVE  /\ bill'[m][i] > 0 => i \in mau'[m]
         /\ bill'[m][i] + Cardinality(Charging(m, i)') <= N
<1> DEFINE Held == /\ bill'[m][i] > 0 => i \in mau'[m]
                   /\ bill'[m][i] + Cardinality(Charging(m, i)') <= N
<1>1. /\ Charging(m, i) \subseteq Requests /\ Charging(m, i)' \subseteq Requests
      /\ bill[m][i] \in Nat /\ bill'[m][i] \in Nat /\ mau[m] \subseteq mau'[m]
  BY StepGrows DEF Charging, IInv, TypeOK, GhostsOK
<1>2. /\ Cardinality(Charging(m, i)) \in Nat /\ Cardinality(Charging(m, i)') \in Nat
      /\ IsFiniteSet(Charging(m, i)) /\ IsFiniteSet(Charging(m, i)')
  BY <1>1, Counts
<1>3. /\ bill[m][i] > 0 => i \in mau[m]
      /\ bill[m][i] + Cardinality(Charging(m, i)) <= N
  BY DEF Overlaps
<1>4. TypeOK /\ LocalsOK /\ (\A r \in Requests : Counted(r) /\ Located(r))
  BY DEF IInv, TypeOK
<1>5. bill' = bill /\ Charging(m, i)' \subseteq Charging(m, i) => Held
  <2> SUFFICES ASSUME bill' = bill, Charging(m, i)' \subseteq Charging(m, i) PROVE Held
    OBVIOUS
  <2>1. Cardinality(Charging(m, i)') <= Cardinality(Charging(m, i))
    BY <1>2, FS_Subset
  <2> QED
    BY <2>1, <1>1, <1>2, <1>3, NType
<1>6. ASSUME NEW r \in Requests, Step(r), ~MemberPaid(r), ~Charge(r) PROVE Held
  <2>1. bill' = bill
    <3>1. CASE \E v \in Users : StartSignUp(r, v)
      BY <3>1 DEF StartSignUp, ghostVars
    <3>2. CASE \/ FindAppUser(r) \/ CreateAppUser(r) \/ ReadSub(r) \/ ReadClock(r)
               \/ CountMembers(r) \/ MemberFree(r) \/ AddFree(r) \/ AddPaid(r)
      BY <3>2 DEF FindAppUser, CreateAppUser, ReadSub, ReadClock, CountMembers,
         MemberFree, AddFree, AddPaid, AddPaidOver, ghostVars
    <3>3. CASE Issue(r) \/ Abort(r) \/ CountUnread(r) \/ MemberUnread(r) \/ AddUnread(r)
      BY <3>3 DEF Issue, Abort, CountUnread, MemberUnread, AddUnread, ghostVars
    <3> QED
      BY <1>6, <3>1, <3>2, <3>3 DEF Step, SignUp
  <2>2. r \in Charging(m, i)' => r \in Charging(m, i)
    <3>1. CASE \E v \in Users : StartSignUp(r, v)
      BY <3>1, <1>4 DEF StartSignUp, Goto, LocalsOK, At, Charging
    <3>2. CASE FindAppUser(r) \/ CreateAppUser(r) \/ ReadSub(r) \/ ReadClock(r)
      BY <3>2, <1>4 DEF FindAppUser, CreateAppUser, ReadSub, ReadClock, Goto,
         LocalsOK, At, Charging
    <3>3. CASE CountMembers(r) \/ AddFree(r)
      BY <3>3, <1>4 DEF CountMembers, AddFree, Goto, LocalsOK, At, Charging
    <3>4. CASE AddPaid(r)
      BY <3>4, <1>4 DEF AddPaid, AddPaidOver, Goto, LocalsOK, At, Charging
    <3>5. CASE MemberFree(r) \/ Issue(r) \/ Abort(r)
      BY <3>5, <1>4 DEF MemberFree, Issue, Abort, Finish, Goto, LocalsOK, At, Charging
    <3>6. CASE CountUnread(r) \/ MemberUnread(r) \/ AddUnread(r)
      BY <3>6, <1>4 DEF CountUnread, MemberUnread, AddUnread, Finish, Goto, LocalsOK, At,
         Charging
    <3> QED
      BY <1>6, <3>1, <3>2, <3>3, <3>4, <3>5, <3>6 DEF Step, SignUp
  <2>3. \A s \in Requests \ {r} : s \in Charging(m, i)' => s \in Charging(m, i)
    BY <1>4, <1>6, OthersSame DEF Charging, Same
  <2>4. Charging(m, i)' \subseteq Charging(m, i)
    BY <2>2, <2>3, <1>1
  <2> QED
    BY <1>5, <2>1, <2>4
<1>7. ASSUME NEW r \in Requests, MemberPaid(r) PROVE Held
  <2>1. /\ bill' = bill /\ mau' = mau /\ mon' = mon /\ id' = id
        /\ pc' = [pc EXCEPT ![r] = IF id[r] \in mau[mon[r]] THEN "issue" ELSE "addPaid"]
    BY <1>7 DEF MemberPaid, MayFind, Goto, ghostVars
  <2>2. CASE i \in mau[m]
    <3>1. Charging(m, i)' \subseteq Charging(m, i)
      BY <2>1, <2>2, <1>4 DEF Charging, LocalsOK
    <3> QED
      BY <1>5, <2>1, <3>1
  <2>3. CASE i \notin mau[m]
    <3>1. bill'[m][i] = 0
      BY <1>1, <1>3, <2>1, <2>3
    <3>2. Cardinality(Charging(m, i)') <= N
      BY <1>1, ConstantsAssumption, FS_Subset DEF N
    <3> QED
      BY <3>1, <3>2, <1>2, NType
  <2> QED
    BY <2>2, <2>3
<1>8. ASSUME NEW r \in Requests, Charge(r) PROVE Held
  <2>1. /\ At(r, "incr") /\ mon' = mon /\ id' = id /\ pc' = [pc EXCEPT ![r] = "issue"]
        /\ bill' = [bill EXCEPT ![mon[r]][id[r]] = @ + 1]
    BY <1>8 DEF Charge, Goto
  <2>2. /\ mon[r] \in Months /\ id[r] \in Ids /\ id[r] \in mau[mon[r]]
        /\ bill \in [Months -> [Ids -> Nat]]
    BY <2>1, <1>4 DEF Located, Counted, LocalsOK, At, TypeOK, GhostsOK
  <2>3. CASE mon[r] = m /\ id[r] = i
    <3>1. bill'[m][i] = bill[m][i] + 1
      BY <2>1, <2>2, <2>3
    <3>2. r \in Charging(m, i) /\ Charging(m, i)' \subseteq Charging(m, i) \ {r}
      BY <2>1, <2>3, <1>4 DEF Charging, At, LocalsOK
    <3>3. /\ IsFiniteSet(Charging(m, i) \ {r})
          /\ Cardinality(Charging(m, i) \ {r}) = Cardinality(Charging(m, i)) - 1
      BY <1>2, <3>2, FS_RemoveElement
    <3>4. Cardinality(Charging(m, i)') <= Cardinality(Charging(m, i) \ {r})
      BY <3>2, <3>3, FS_Subset
    <3> QED
      BY <1>1, <1>2, <1>3, <2>2, <2>3, <3>1, <3>3, <3>4, NType
  <2>4. CASE ~(mon[r] = m /\ id[r] = i)
    <3>1. bill'[m][i] = bill[m][i]
      BY <2>1, <2>2, <2>4
    <3>2. Charging(m, i)' \subseteq Charging(m, i)
      BY <2>1, <1>4 DEF Charging, LocalsOK
    <3>3. Cardinality(Charging(m, i)') <= Cardinality(Charging(m, i))
      BY <1>2, <3>2, FS_Subset
    <3> QED
      BY <1>1, <1>2, <1>3, <3>1, <3>3, NType
  <2> QED
    BY <2>3, <2>4
<1>9. CASE UNCHANGED <<reqVars, mau, ghostVars, charge, issued>>
  BY <1>5, <1>9 DEF reqVars, ghostVars, Charging
<1> QED
  BY <1>6, <1>7, <1>8, <1>9, NextSteps

LEMMA OverlapsAlways == Spec => [](IInv /\ Overlaps)
<1>1. Init => Overlaps
  <2> SUFFICES ASSUME Init, ~Fails PROVE Overlaps
    BY DEF Overlaps
  <2>1. \A u \in Users : AppUsersOf(u) = {} /\ Creating(u) = {}
    BY ConstantsAssumption DEF Init, AppUsersOf, Creating, At
  <2>2. \A m \in Months, i \in Ids : bill[m][i] = 0 /\ Charging(m, i) = {}
    BY DEF Init, Charging
  <2>3. Cardinality({}) = 0 /\ 0 + 0 <= N /\ ~(0 > 0)
    BY FS_EmptySet, NType
  <2>4. \A u \in Users : Cardinality(AppUsersOf(u)) + Cardinality(Creating(u)) <= N
    BY <2>1, <2>3
  <2>5. \A m \in Months, i \in Ids :
          /\ bill[m][i] > 0 => i \in mau[m]
          /\ bill[m][i] + Cardinality(Charging(m, i)) <= N
    BY <2>2, <2>3
  <2> QED
    BY <2>4, <2>5 DEF Overlaps
<1>2. IInv /\ IInv' /\ Overlaps /\ [Next]_vars => Overlaps'
  <2> SUFFICES ASSUME IInv, TypeOK', Overlaps, [Next]_vars, ~Fails PROVE Overlaps'
    BY DEF IInv, Overlaps
  <2>1. \A u \in Users : Cardinality(AppUsersOf(u)') + Cardinality(Creating(u)') <= N
    BY AppUsersStep
  <2>2. \A m \in Months, i \in Ids :
          /\ bill'[m][i] > 0 => i \in mau'[m]
          /\ bill'[m][i] + Cardinality(Charging(m, i)') <= N
    BY ChargesStep
  <2> QED
    BY <2>1, <2>2 DEF Overlaps
<1> QED
  BY <1>1, <1>2, Invariance, PTL DEF Spec

\* Find and create are two calls with no unique index between them: a user gets at most
\* one AppUser per request in flight.
THEOREM AppUsersBounded == Spec => []AppUsersBound
<1>1. IInv /\ Overlaps => AppUsersBound
  <2> SUFFICES ASSUME IInv, Overlaps, ~Fails, NEW u \in Users
               PROVE  Cardinality(AppUsersOf(u)) <= N
    BY DEF AppUsersBound
  <2>1. Cardinality(AppUsersOf(u)) \in Nat /\ Cardinality(Creating(u)) \in Nat
    BY Counts DEF AppUsersOf, Creating
  <2> QED
    BY <2>1, NType DEF Overlaps
<1> QED
  BY <1>1, OverlapsAlways, PTL

\* The membership test, the count and the charge are three calls: only sign-ins that
\* overlap the first one of a month can charge for the same AppUser again.
THEOREM ChargesBounded == Spec => []ChargesPerAppUser
<1>1. IInv /\ Overlaps => ChargesPerAppUser
  <2> SUFFICES ASSUME IInv, Overlaps, ~Fails, NEW m \in Months, NEW i \in Ids
               PROVE  bill[m][i] <= N
    BY DEF ChargesPerAppUser
  <2>1. bill[m][i] \in Nat /\ Cardinality(Charging(m, i)) \in Nat
    BY Counts DEF Charging, IInv, TypeOK, GhostsOK
  <2> QED
    BY <2>1, NType DEF Overlaps
<1> QED
  BY <1>1, OverlapsAlways, PTL
=============================================================================
