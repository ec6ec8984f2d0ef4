--------------------------- MODULE Workspace_proofs ---------------------------
(***************************************************************************)
(* Proofs about Workspace, for any addresses, devices, requests, tasks and   *)
(* failures.  IInv is inductive.  Documents only grow (Grow): addresses,      *)
(* workspaces and super members never change, so what a request has read      *)
(* stays true (ReqOK) until it writes.                                       *)
(***************************************************************************)
EXTENDS Workspace, FiniteSetTheorems, WellFoundedInduction, TLAPS

PCs == {"idle", "insertWs", "insertMember", "sendCode", "setWs", "findMember", "setMember",
        "session", "setDevices", "saveLogin", "setPassword", "rename", "mailAgain", "accept",
        "createUser", "addMember"}
ReqRec == [email : Emails \cup {None}, device : Devices \cup {None}, ws : WsIds \cup {NoDoc},
           mem : MemIds \cup {NoDoc}, inv : InvIds \cup {NoDoc}, devices : Seq(Devices),
           value : Names \cup Passwords \cup {None}]

\* The collections are functions, and the locals of a request are a record.
Typed ==
  /\ TypeOK
  /\ ws \in [DOMAIN ws -> WsDoc] /\ mem \in [DOMAIN mem -> MemDoc]
  /\ inv \in [DOMAIN inv -> InvDoc] /\ req \in [Requests -> ReqRec]

\* What a request has read is still so.
ReqOK(here, q) ==
  /\ here \in {"insertWs", "insertMember", "sendCode", "setWs", "findMember", "setMember",
               "session", "setDevices", "saveLogin"} => q.email \in Emails
  /\ here \in {"insertWs", "insertMember", "setWs", "findMember", "setMember", "session",
               "setDevices", "saveLogin"} => q.device \in Devices
  /\ here = "insertMember" =>
       q.ws \in DOMAIN ws /\ ws[q.ws].superMember = q.mem /\ ws[q.ws].email = q.email
       /\ q.value \in Names
  /\ here \in {"setWs", "findMember", "setMember", "session"} =>
       q.ws \in DOMAIN ws /\ ws[q.ws].email = q.email
  /\ here \in {"findMember", "setMember", "session"} => ws[q.ws].verified
  /\ here = "setMember" => \E m \in DOMAIN mem : mem[m].email = q.email
  /\ here \in {"setDevices", "saveLogin"} =>
       q.mem \in DOMAIN mem /\ mem[q.mem].email = q.email /\ mem[q.mem].ws = q.ws
  /\ here \in {"setMember", "setDevices"} =>
       \A i \in DOMAIN q.devices : q.devices[i] = q.device \/ <<q.email, q.devices[i]>> \in seen
  /\ here = "setPassword" => q.mem \in DOMAIN mem /\ q.value \in Passwords
  /\ here = "rename" => q.ws \in DOMAIN ws /\ q.value \in Names
  /\ here \in {"mailAgain", "accept", "createUser", "addMember"} => q.inv \in DOMAIN inv

ReqInv == \A r \in Requests : ReqOK(pc[r], req[r])

\* A super member is of one workspace, with its address, and is inserted once; only
\* super members have an address.
SuperInv ==
  /\ \A w, x \in DOMAIN ws : ws[w].superMember = ws[x].superMember => w = x
  /\ \A r \in Requests : At(r, "insertMember") => req[r].mem \notin DOMAIN mem
  /\ \A r, q \in Requests :
       At(r, "insertMember") /\ At(q, "insertMember") /\ req[r].ws = req[q].ws => r = q
  /\ \A w \in DOMAIN ws : ws[w].superMember \in DOMAIN mem =>
       LET m == mem[ws[w].superMember] IN m.email = ws[w].email /\ m.ws = w
  /\ \A m \in DOMAIN mem :
       /\ mem[m].ws \in DOMAIN ws
       /\ mem[m].email # None => LET w == ws[mem[m].ws] IN
                                 w.email = mem[m].email /\ w.superMember = m
  /\ SuperMemberExists

Two(e) == Cardinality(OfEmail(e)) > 1

\* Sessions are of members that have an address.
SessionInv ==
  \A d \in Devices : session[d] # None =>
    LET s == session[d] IN
    /\ s.mem \in DOMAIN mem /\ s.ws \in DOMAIN ws /\ mem[s.mem].email \in Emails
    /\ mem[s.mem].ws = s.ws \/ Two(mem[s.mem].email)

\* The failures that may leave a workspace verified without its super member.
Unlucky == faults \cap {"died", "lookup", "setMember"} # {}

\* A workspace is verified first, its super member by the same request.
VerInv ==
  /\ \A w \in DOMAIN ws : ws[w].verified =>
       LET m == ws[w].superMember  e == ws[w].email IN
       \/ m \in DOMAIN mem /\ mem[m].verified
       \/ Two(e) \/ Unlucky \/ e \in early
       \/ \E r \in Requests : pc[r] \in {"findMember", "setMember"} /\ req[r].email = e
  /\ \A m \in DOMAIN mem : mem[m].verified =>
       \E w \in DOMAIN ws : ws[w].email = mem[m].email /\ ws[w].verified

Pair(e, w) == Matching(inv, [email |-> e, ws |-> w])
Inviting(e, w) == {t \in Tasks : task[t].st \in {"mail", "create"}
                                 /\ Invited(t) = [email |-> e, ws |-> w]}

\* Invites are of workspaces, and the mailer is called before they are recorded.
TaskInv ==
  /\ InvitesBound
  /\ \A i \in DOMAIN inv : inv[i].ws \in DOMAIN ws
  /\ \A t \in Tasks : /\ task[t].st # "none" => task[t].email \in Emails /\ task[t].ws \in DOMAIN ws
                      /\ task[t].st = "create" =>
                           <<task[t].email, task[t].ws>> \in mailed \/ "mail" \in faults

MembersOf(i) == {m \in DOMAIN mem : mem[m].invite = i}
Accepting(i) == {r \in Requests : pc[r] \in {"accept", "createUser", "addMember"} /\ req[r].inv = i}
Answered(i)  == {r \in Requests : pc[r] \in {"createUser", "addMember"} /\ req[r].inv = i}

\* An invite that is still open has members, made or to come, only where its mark was
\* lost.
OpenBound(i) ==
  ~inv[i].accepted => Cardinality(MembersOf(i)) + Cardinality(Answered(i)) <= Failures("mark")

InviteInv ==
  /\ MembersPerInviteBound /\ AcceptedHasMember
  /\ \A i \in DOMAIN inv : OpenBound(i)
  /\ \A m \in DOMAIN mem : mem[m].invite # NoDoc => mem[m].invite \in DOMAIN inv

IInv ==
  /\ Typed /\ ReqInv /\ SuperInv /\ SessionInv /\ VerInv /\ DevicesWereUsed /\ WorkspacesBound
  /\ TaskInv /\ InviteInv

-------------------------------------------------------------------------------
\* The updates of the repository, on each kind of document.
LEMMA SetWsVerified ==
  ASSUME NEW doc \in WsDoc
  PROVE  LET new == Set(doc, [verified |-> TRUE]) IN
         new \in WsDoc /\ new.email = doc.email /\ new.superMember = doc.superMember
         /\ new.verified = TRUE
BY DEF WsDoc, Set

LEMMA SetWsName ==
  ASSUME NEW doc \in WsDoc, NEW n \in Names
  PROVE  LET new == Set(doc, [workspacename |-> n]) IN
         new \in WsDoc /\ new.email = doc.email /\ new.superMember = doc.superMember
         /\ new.verified = doc.verified
BY DEF WsDoc, Set

\* The parts of a member that no update changes.
SameMember(new, doc) == new.email = doc.email /\ new.ws = doc.ws /\ new.invite = doc.invite

DeviceLists == UNION {[1..n -> Devices] : n \in 0..MaxDevices}

LEMMA ListTypes ==
  ASSUME NEW list
  PROVE  /\ list \in DeviceLists => list \in Seq(Devices)
         /\ list \in Seq(Devices) /\ Len(list) <= MaxDevices => list \in DeviceLists
BY DEF DeviceLists

LEMMA SetMemVerified ==
  ASSUME NEW doc \in MemDoc, NEW l \in DeviceLists
  PROVE  LET new == Set(doc, [verified |-> TRUE, devices |-> l]) IN
         new \in MemDoc /\ SameMember(new, doc)
         /\ new.verified = TRUE /\ new.devices = l /\ new.password = doc.password
BY DEF MemDoc, Set, SameMember, DeviceLists

LEMMA SetMemDevices ==
  ASSUME NEW doc \in MemDoc, NEW l \in DeviceLists
  PROVE  LET new == Set(doc, [devices |-> l]) IN
         new \in MemDoc /\ SameMember(new, doc)
         /\ new.verified = doc.verified /\ new.devices = l /\ new.password = doc.password
BY DEF MemDoc, Set, SameMember, DeviceLists

LEMMA SetMemPassword ==
  ASSUME NEW doc \in MemDoc, NEW p \in Passwords
  PROVE  LET new == Set(doc, [password |-> p]) IN
         new \in MemDoc /\ SameMember(new, doc)
         /\ new.verified = doc.verified /\ new.devices = doc.devices
BY DEF MemDoc, Set, SameMember, DeviceLists

LEMMA SetMemName ==
  ASSUME NEW doc \in MemDoc, NEW n \in Names
  PROVE  LET new == Set(doc, [name |-> n]) IN
         new \in MemDoc /\ SameMember(new, doc)
         /\ new.verified = doc.verified /\ new.devices = doc.devices
         /\ new.password = doc.password
BY DEF MemDoc, Set, SameMember, DeviceLists

LEMMA SetInv ==
  ASSUME NEW doc \in InvDoc
  PROVE  /\ LET new == Set(doc, [accepted |-> TRUE]) IN
            new \in InvDoc /\ new.email = doc.email /\ new.ws = doc.ws /\ new.accepted = TRUE
         /\ LET new == Set(doc, [resent |-> TRUE]) IN
            new \in InvDoc /\ new.email = doc.email /\ new.ws = doc.ws
            /\ new.accepted = doc.accepted
BY DEF InvDoc, Set

LEMMA OfAddress ==
  ASSUME NEW coll, NEW e
  PROVE  /\ Matching(coll, [email |-> e]) = {i \in DOMAIN coll : coll[i].email = e}
         /\ \A i \in FindOneByFilter(coll, [email |-> e]) :
              \/ i = NoDoc /\ Matching(coll, [email |-> e]) = {}
              \/ i \in DOMAIN coll /\ coll[i].email = e
BY DEF Matching, Match, FindOneByFilter, FirstOf

LEMMA UpdatedByAddress ==
  ASSUME NEW coll, NEW e, NEW payload
  PROVE  UpdatePartialByFilter(coll, [email |-> e], payload) =
           [i \in DOMAIN coll |-> IF coll[i].email = e THEN Set(coll[i], payload) ELSE coll[i]]
BY DEF UpdatePartialByFilter, Match

\* A nonempty finite set of indexes has a first one: the one with the fewest before it.
LEMMA FirstIndex ==
  ASSUME NEW T \in SUBSET Nat, IsFiniteSet(T), T # {}
  PROVE  \E i \in T : \A j \in T : i <= j
<1> DEFINE Below(i) == {j \in T : j < i}
           B == {Below(i) : i \in T}
<1>1. B \subseteq FiniteSubsetsOf(T) /\ B # {}
  <2>1. \A i \in T : Below(i) \subseteq T /\ IsFiniteSet(Below(i))
    BY FS_Subset
  <2> QED
    BY <2>1 DEF FiniteSubsetsOf
<1>2. PICK E \in B : \A F \in B : ~(<<F, E>> \in StrictSubsetOrdering(T))
  <2> HIDE DEF B
  <2> QED
    BY <1>1, FS_StrictSubsetOrderingWellFounded, WFMin
<1>3. PICK i \in T : E = Below(i)
  BY <1>2
<1>4. ASSUME NEW j \in T, j < i PROVE FALSE
  <2>1. Below(j) \subseteq Below(i) /\ j \in Below(i) /\ j \notin Below(j)
    <3>1. \A x \in T : x \in Nat
      OBVIOUS
    <3>2. \A x \in T : x < j => x < i
      BY <1>4, <3>1
    <3>3. j \in Nat /\ ~(j < j) /\ j < i
      BY <1>4, <3>1
    <3>4. Below(j) \subseteq Below(i)
      BY <3>2
    <3>5. j \in Below(i) /\ j \notin Below(j)
      BY <3>3, Zenon
    <3> QED
      BY <3>4, <3>5
  <2>2. <<Below(j), Below(i)>> \in StrictSubsetOrdering(T)
    BY <2>1 DEF StrictSubsetOrdering
  <2> QED
    BY <1>2, <1>3, <2>2
<1>5. \A j \in T : i <= j
  BY <1>4
<1> QED
  BY <1>5

\* A list of devices gets no device but the one that logs in.
LEMMA DeviceAdded ==
  ASSUME NEW list \in Seq(Devices), NEW d \in Devices
  PROVE  /\ WithDevice(list, d) \in Seq(Devices)
         /\ \A k \in DOMAIN WithDevice(list, d) :
              \/ WithDevice(list, d)[k] = d
              \/ \E j \in DOMAIN list : WithDevice(list, d)[k] = list[j]
<1> DEFINE at == {i \in DOMAIN list : list[i] = d}
<1>1. CASE at = {}
  <2>1. WithDevice(list, d) = Append(list, d)
    BY <1>1 DEF WithDevice
  <2> QED
    BY <2>1
<1>2. CASE at # {}
  <2> DEFINE i == CHOOSE i \in at : \A j \in at : i <= j
  <2>1. i \in at
    <3>1. at \in SUBSET Nat /\ IsFiniteSet(at)
      <4>1. DOMAIN list = 1..Len(list) /\ Len(list) \in Nat
        OBVIOUS
      <4>2. IsFiniteSet(DOMAIN list) /\ at \subseteq DOMAIN list
        BY <4>1, FS_Interval
      <4> QED
        BY <4>2, FS_Subset
    <3>2. \E k \in at : \A j \in at : k <= j
      <4> HIDE DEF at
      <4> QED
        BY <1>2, <3>1, FirstIndex
    <3> QED
      BY <3>2
  <2> DEFINE x == list[IF i = Len(list) THEN i ELSE i + 1]
             left == SubSeq(list, 1, i - 1)
             right == SubSeq(list, i + 1, Len(list))
  <2>2. WithDevice(list, d) = Append(left \o right, x)
    BY <1>2 DEF WithDevice
  <2> HIDE DEF i
  <2>3. i \in 1..Len(list) /\ Len(list) \in Nat
    BY <2>1
  <2>4. \E j \in DOMAIN list : x = list[j]
    BY <2>3
  <2>5. /\ left \in Seq(Devices) /\ right \in Seq(Devices)
        /\ Len(left) = i - 1 /\ Len(right) = Len(list) - i
        /\ \A k \in 1..Len(left) : left[k] = list[k]
        /\ \A k \in 1..Len(right) : right[k] = list[i + k]
    BY <2>3
  <2>6. x \in Devices
    BY <2>3
  <2> HIDE DEF left, right, x
  <2>7. left \o right \in Seq(Devices) /\ Len(left \o right) = Len(left) + Len(right)
    BY <2>5
  <2>8. \A k \in 1..Len(left \o right) : \E j \in DOMAIN list : (left \o right)[k] = list[j]
    <3> SUFFICES ASSUME NEW k \in 1..Len(left \o right)
                 PROVE  \E j \in DOMAIN list : (left \o right)[k] = list[j]
      OBVIOUS
    <3>1. CASE k <= Len(left)
      <4>1. (left \o right)[k] = list[k] /\ k \in DOMAIN list
        BY <2>3, <2>5, <2>7, <3>1
      <4> QED
        BY <4>1
    <3>2. CASE k > Len(left)
      <4>1. /\ (left \o right)[k] = list[i + (k - Len(left))]
            /\ i + (k - Len(left)) \in DOMAIN list
        BY <2>3, <2>5, <2>7, <3>2
      <4> QED
        BY <4>1
    <3> QED
      BY <2>5, <2>7, <3>1, <3>2
  <2>9. PICK s \in Seq(Devices) : s = left \o right
    BY <2>7
  <2>10. /\ Append(s, x) \in Seq(Devices) /\ DOMAIN Append(s, x) = 1..(Len(s) + 1)
         /\ Append(s, x)[Len(s) + 1] = x /\ \A k \in 1..Len(s) : Append(s, x)[k] = s[k]
    BY <2>6
  <2>11. \A k \in DOMAIN Append(s, x) : \E j \in DOMAIN list : Append(s, x)[k] = list[j]
    <3> SUFFICES ASSUME NEW k \in DOMAIN Append(s, x)
                 PROVE  \E j \in DOMAIN list : Append(s, x)[k] = list[j]
      OBVIOUS
    <3>1. k \in 1..Len(s) \/ k = Len(s) + 1
      BY <2>10
    <3> QED
      BY <2>4, <2>8, <2>9, <2>10, <3>1
  <2> QED
    BY <2>2, <2>9, <2>10, <2>11
<1> QED
  BY <1>1, <1>2

-------------------------------------------------------------------------------
\* Two finite sets whose sizes are bounded together.
LEMMA BothSmaller ==
  ASSUME NEW A, NEW B, IsFiniteSet(A), IsFiniteSet(B), NEW C \in SUBSET A, NEW D \in SUBSET B,
         NEW n \in Nat, Cardinality(A) + Cardinality(B) <= n
  PROVE  Cardinality(C) + Cardinality(D) <= n
BY FS_Subset, FS_CardinalityType

LEMMA OneMore ==
  ASSUME NEW S, NEW x, IsFiniteSet(S)
  PROVE  /\ IsFiniteSet(S \cup {x}) /\ Cardinality(S) \in Nat
         /\ Cardinality(S \cup {x}) <= Cardinality(S) + 1
<1>1. Cardinality(S) \in Nat
  BY FS_CardinalityType
<1>2. IsFiniteSet(S \cup {x}) /\ (Cardinality(S \cup {x}) = Cardinality(S) + 1
                                 \/ Cardinality(S \cup {x}) = Cardinality(S))
  BY FS_AddElement
<1> QED
  BY <1>1, <1>2

LEMMA BothWithin ==
  ASSUME NEW A, NEW B, IsFiniteSet(A), IsFiniteSet(B), NEW C \in SUBSET A, NEW D \in SUBSET B,
         NEW n \in Nat, NEW k \in Nat, NEW l \in Nat, k <= l,
         Cardinality(A) + Cardinality(B) <= n + k
  PROVE  Cardinality(C) + Cardinality(D) <= n + l
<1>1. Cardinality(C) + Cardinality(D) <= n + k
  BY BothSmaller
<1>2. Cardinality(C) \in Nat /\ Cardinality(D) \in Nat
  BY FS_Subset, FS_CardinalityType
<1> QED
  BY <1>1, <1>2

\* Of a few among many, and any others of the many.
LEMMA SomeOfMany ==
  ASSUME NEW M, NEW R, IsFiniteSet(M), IsFiniteSet(R), NEW A \in SUBSET R, NEW W \in SUBSET R,
         NEW k \in Nat, Cardinality(M) + Cardinality(A) <= k
  PROVE  Cardinality(M) + Cardinality(A \cup W) <= Cardinality(R) + k
<1>1. IsFiniteSet(A) /\ IsFiniteSet(W) /\ Cardinality(W) <= Cardinality(R)
  BY FS_Subset
<1>2. Cardinality(A \cup W) = Cardinality(A) + Cardinality(W) - Cardinality(A \cap W)
  BY <1>1, FS_Union
<1>3. IsFiniteSet(A \cap W)
  BY <1>1, FS_Subset
<1>4. /\ Cardinality(M) \in Nat /\ Cardinality(A) \in Nat /\ Cardinality(W) \in Nat
      /\ Cardinality(R) \in Nat /\ Cardinality(A \cap W) \in Nat
  BY <1>1, <1>3, FS_CardinalityType
<1> QED
  BY <1>1, <1>2, <1>4

LEMMA OneMoves ==
  ASSUME NEW A, NEW B, IsFiniteSet(A), IsFiniteSet(B), NEW a, NEW b \in B,
         NEW n \in Nat, Cardinality(A) + Cardinality(B) <= n
  PROVE  Cardinality(A \cup {a}) + Cardinality(B \ {b}) <= n
<1>1. Cardinality(A) \in Nat /\ Cardinality(B) \in Nat
  BY FS_CardinalityType
<1>2. Cardinality(B \ {b}) = Cardinality(B) - 1
  BY FS_RemoveElement
<1>3. Cardinality(A \cup {a}) = IF a \in A THEN Cardinality(A) ELSE Cardinality(A) + 1
  BY FS_AddElement
<1> QED
  BY <1>1, <1>2, <1>3

LEMMA NoneYet ==
  ASSUME NEW S, IsFiniteSet(S), NEW B \in SUBSET S
  PROVE  Cardinality({}) + Cardinality(B) <= Cardinality(S)
BY FS_Subset, FS_EmptySet, FS_CardinalityType

LEMMA MoreAllowed ==
  ASSUME NEW S, IsFiniteSet(S), NEW B \in SUBSET S, NEW k
  PROVE  Cardinality({}) + Cardinality(B) <= Cardinality(S) + Failures(k)
<1>1. Cardinality({}) + Cardinality(B) <= Cardinality(S)
  BY NoneYet
<1>2. Cardinality(S) \in Nat /\ Cardinality({}) \in Nat /\ Cardinality(B) \in Nat
  BY FS_Subset, FS_EmptySet, FS_CardinalityType
<1> QED
  BY <1>1, <1>2 DEF Failures

LEMMA MoreThanOne ==
  ASSUME NEW S, IsFiniteSet(S), NEW x \in S, NEW y \in S, x # y
  PROVE  Cardinality(S) > 1
<1>1. IsFiniteSet({x}) /\ Cardinality({x}) = 1
  BY FS_Singleton
<1>2. {x} \in SUBSET (S \ {y}) /\ IsFiniteSet(S \ {y})
  BY FS_RemoveElement
<1>3. Cardinality({x}) <= Cardinality(S \ {y})
  BY <1>2, FS_Subset
<1>4. Cardinality(S \ {y}) = Cardinality(S) - 1 /\ Cardinality(S) \in Nat
  BY FS_RemoveElement, FS_CardinalityType
<1> QED
  BY <1>1, <1>3, <1>4

-------------------------------------------------------------------------------
\* What no step ever undoes.
WsGrow ==
  /\ DOMAIN ws \subseteq DOMAIN ws'
  /\ \A w \in DOMAIN ws : /\ ws'[w].email = ws[w].email /\ ws'[w].superMember = ws[w].superMember
                          /\ ws[w].verified => ws'[w].verified
MemGrow ==
  /\ DOMAIN mem \subseteq DOMAIN mem'
  /\ \A m \in DOMAIN mem : SameMember(mem'[m], mem[m]) /\ (mem[m].verified => mem'[m].verified)
InvGrow ==
  /\ DOMAIN inv \subseteq DOMAIN inv'
  /\ \A i \in DOMAIN inv : /\ inv'[i].email = inv[i].email /\ inv'[i].ws = inv[i].ws
                           /\ inv[i].accepted => inv'[i].accepted
Grow == /\ WsGrow /\ MemGrow /\ InvGrow
        /\ seen \subseteq seen' /\ early \subseteq early' /\ mailed \subseteq mailed'
        /\ faults \subseteq faults'

\* No request enters, or leaves, some places of its handler.
NoneEnters(S) == \A q \in Requests : pc'[q] \in S => pc'[q] = pc[q] /\ req'[q] = req[q]
NoneLeaves(S) == \A q \in Requests : pc[q] \in S => pc'[q] = pc[q] /\ req'[q] = req[q]
MovesOnly(r)  == \A q \in Requests \ {r} : pc'[q] = pc[q] /\ req'[q] = req[q]

LEMMA FailuresGrow ==
  ASSUME faults \subseteq faults', NEW kind
  PROVE  /\ Failures(kind) \in Nat /\ Failures(kind)' \in Nat
         /\ Failures(kind) <= Failures(kind)'
BY DEF Failures

LEMMA Finite ==
  ASSUME ConstantsAssumption, Typed
  PROVE  /\ IsFiniteSet(DOMAIN ws) /\ IsFiniteSet(DOMAIN mem) /\ IsFiniteSet(DOMAIN inv)
         /\ NoDoc \notin DOMAIN ws /\ NoDoc \notin DOMAIN mem /\ NoDoc \notin DOMAIN inv
         /\ \A e : IsFiniteSet(OfEmail(e)) /\ Cardinality(OfEmail(e)) \in Nat
         /\ \A S \in SUBSET Requests : IsFiniteSet(S)
         /\ \A S \in SUBSET Tasks : IsFiniteSet(S)
         /\ Cardinality(Requests) \in Nat /\ Cardinality(Tasks) \in Nat
<1>1. /\ IsFiniteSet(WsIds) /\ IsFiniteSet(MemIds) /\ IsFiniteSet(InvIds)
      /\ 0 \notin WsIds /\ 0 \notin MemIds /\ 0 \notin InvIds
      /\ IsFiniteSet(Requests) /\ IsFiniteSet(Tasks)
  BY DEF ConstantsAssumption
<1>2. DOMAIN ws \subseteq WsIds /\ DOMAIN mem \subseteq MemIds /\ DOMAIN inv \subseteq InvIds
  BY DEF Typed, TypeOK
<1>3. IsFiniteSet(DOMAIN ws) /\ IsFiniteSet(DOMAIN mem) /\ IsFiniteSet(DOMAIN inv)
  BY <1>1, <1>2, FS_Subset
<1>4. \A e : IsFiniteSet(OfEmail(e)) /\ Cardinality(OfEmail(e)) \in Nat
  <2> TAKE e
  <2>1. OfEmail(e) \subseteq DOMAIN ws
    BY DEF OfEmail, Matching
  <2> QED
    BY <1>3, <2>1, FS_Subset, FS_CardinalityType
<1>5. \A S \in SUBSET Requests : IsFiniteSet(S)
  BY <1>1, FS_Subset
<1>6. \A S \in SUBSET Tasks : IsFiniteSet(S)
  BY <1>1, FS_Subset
<1> QED
  BY <1>1, <1>2, <1>3, <1>4, <1>5, <1>6, FS_CardinalityType DEF NoDoc

LEMMA AddressesOf ==
  \A e : OfEmail(e) = {w \in DOMAIN ws : ws[w].email = e}
BY OfAddress DEF OfEmail

LEMMA AddressesKept ==
  ASSUME WsGrow, NEW e
  PROVE  OfEmail(e) \subseteq OfEmail(e)'
BY DEF WsGrow, OfEmail, Matching, Match

\* The workspaces of an address, in any state.
LEMMA FewWorkspaces ==
  ASSUME ConstantsAssumption, NEW coll, DOMAIN coll \subseteq WsIds, NEW e
  PROVE  /\ IsFiniteSet(Matching(coll, [email |-> e]))
         /\ Cardinality(Matching(coll, [email |-> e])) \in Nat
<1>1. IsFiniteSet(WsIds)
  BY DEF ConstantsAssumption
<1>2. Matching(coll, [email |-> e]) \subseteq WsIds
  BY DEF Matching
<1> QED
  BY <1>1, <1>2, FS_Subset, FS_CardinalityType

LEMMA TwoKept ==
  ASSUME ConstantsAssumption, Typed, Typed', WsGrow, NEW e, Two(e)
  PROVE  Two(e)'
<1>1. OfEmail(e) \subseteq OfEmail(e)'
  BY AddressesKept
<1>2. Cardinality(OfEmail(e)) \in Nat
  BY Finite
<1>3. (IsFiniteSet(OfEmail(e)) /\ Cardinality(OfEmail(e)) \in Nat)'
  BY FewWorkspaces DEF Typed, TypeOK, OfEmail
<1>4. Cardinality(OfEmail(e)) <= Cardinality(OfEmail(e)')
  BY <1>1, <1>3, FS_Subset
<1> QED
  BY <1>2, <1>3, <1>4 DEF Two

\* Two workspaces of an address.
LEMMA TwoOf ==
  ASSUME ConstantsAssumption, Typed, NEW w \in DOMAIN ws, NEW x \in DOMAIN ws, w # x,
         ws[w].email = ws[x].email
  PROVE  Two(ws[w].email)
<1>1. w \in OfEmail(ws[w].email) /\ x \in OfEmail(ws[w].email)
  BY AddressesOf
<1> QED
  BY <1>1, Finite, MoreThanOne DEF Two

-------------------------------------------------------------------------------
\* How each part of the invariant is kept by the steps that leave its subject alone.
LEMMA ReadingsKept ==
  ASSUME Grow, NEW here, NEW q, ReqOK(here, q)
  PROVE  ReqOK(here, q)'
BY DEF Grow, WsGrow, MemGrow, InvGrow, SameMember, ReqOK

LEMMA ReqKept ==
  ASSUME ReqInv, Grow, NEW r \in Requests, MovesOnly(r), ReqOK(pc[r], req[r])'
  PROVE  ReqInv'
<1> SUFFICES ASSUME NEW q \in Requests \ {r} PROVE ReqOK(pc[q], req[q])'
  BY DEF ReqInv
<1>1. PICK here, x : here = pc[q] /\ x = req[q] /\ here = pc'[q] /\ x = req'[q]
  BY DEF MovesOnly
<1>2. ReqOK(here, x)'
  BY <1>1, ReadingsKept DEF ReqInv
<1> QED
  BY <1>1, <1>2

LEMMA ReqStill ==
  ASSUME ReqInv, Grow, UNCHANGED <<pc, req>>
  PROVE  ReqInv'
<1> SUFFICES ASSUME NEW q \in Requests PROVE ReqOK(pc[q], req[q])'
  BY DEF ReqInv
<1>1. PICK here, x : here = pc[q] /\ x = req[q]
  OBVIOUS
<1>2. ReqOK(here, x)'
  BY <1>1, ReadingsKept DEF ReqInv
<1> QED
  BY <1>1, <1>2

LEMMA SuperKept ==
  ASSUME SuperInv, Grow, DOMAIN ws' = DOMAIN ws, DOMAIN mem' = DOMAIN mem,
         NoneEnters({"insertMember"}),
         NoneLeaves({"insertMember"}) \/ faults' \cap {"insert", "died"} # {}
  PROVE  SuperInv'
<1>1. \A q \in Requests : pc'[q] = "insertMember" => pc[q] = "insertMember" /\ req'[q] = req[q]
  BY DEF NoneEnters
<1>2. /\ \A w \in DOMAIN ws : ws'[w].email = ws[w].email /\ ws'[w].superMember = ws[w].superMember
      /\ \A m \in DOMAIN mem : mem'[m].email = mem[m].email /\ mem'[m].ws = mem[m].ws
      /\ faults \subseteq faults'
  BY DEF Grow, WsGrow, MemGrow, SameMember
<1>3. SuperMemberExists'
  <2>1. CASE faults' \cap {"insert", "died"} # {}
    BY <2>1 DEF SuperMemberExists
  <2>2. CASE NoneLeaves({"insertMember"})
    BY <1>2, <2>2 DEF NoneLeaves, SuperInv, SuperMemberExists, At
  <2> QED
    BY <2>1, <2>2
<1> QED
  BY <1>1, <1>2, <1>3 DEF SuperInv, At

LEMMA SessionKept ==
  ASSUME ConstantsAssumption, Typed, Typed', SessionInv, Grow, UNCHANGED session
  PROVE  SessionInv'
<1>1. \A e : Two(e) => Two(e)'
  BY TwoKept DEF Grow
<1>2. /\ DOMAIN ws \subseteq DOMAIN ws' /\ DOMAIN mem \subseteq DOMAIN mem'
      /\ \A m \in DOMAIN mem : mem'[m].email = mem[m].email /\ mem'[m].ws = mem[m].ws
  BY DEF Grow, WsGrow, MemGrow, SameMember
<1> SUFFICES ASSUME NEW d \in Devices, session[d] # None
             PROVE  /\ session[d].mem \in DOMAIN mem' /\ session[d].ws \in DOMAIN ws'
                    /\ mem'[session[d].mem].email \in Emails
                    /\ \/ mem'[session[d].mem].ws = session[d].ws
                       \/ \E e : e = mem'[session[d].mem].email /\ Two(e)'
  BY DEF SessionInv
<1>3. PICK m, w, e : m = session[d].mem /\ w = session[d].ws /\ e = mem[m].email
  OBVIOUS
<1>4. /\ m \in DOMAIN mem /\ w \in DOMAIN ws /\ e \in Emails /\ (mem[m].ws = w \/ Two(e))
  BY <1>3 DEF SessionInv
<1>5. mem'[m].ws = w \/ Two(e)'
  BY <1>1, <1>2, <1>4
<1> QED
  BY <1>2, <1>3, <1>4, <1>5

LEMMA VerKept ==
  ASSUME ConstantsAssumption, Typed, Typed', VerInv, SuperInv, Grow,
         \A w \in DOMAIN ws' : ws'[w].verified => w \in DOMAIN ws /\ ws[w].verified,
         \A m \in DOMAIN mem' : mem'[m].verified => m \in DOMAIN mem /\ mem[m].verified,
         NoneLeaves({"findMember", "setMember"}) \/ Unlucky'
  PROVE  VerInv'
<1>1. /\ DOMAIN ws \subseteq DOMAIN ws' /\ DOMAIN mem \subseteq DOMAIN mem'
      /\ \A w \in DOMAIN ws : ws'[w].email = ws[w].email /\ ws'[w].superMember = ws[w].superMember
                              /\ (ws[w].verified => ws'[w].verified)
      /\ \A m \in DOMAIN mem : mem'[m].email = mem[m].email /\ (mem[m].verified => mem'[m].verified)
      /\ faults \subseteq faults' /\ early \subseteq early'
  BY DEF Grow, WsGrow, MemGrow, SameMember
<1>2. \A e : Two(e) => Two(e)'
  BY TwoKept DEF Grow
<1>3. (\A w \in DOMAIN ws : ws[w].verified =>
         \/ ws[w].superMember \in DOMAIN mem /\ mem[ws[w].superMember].verified
         \/ Two(ws[w].email) \/ Unlucky \/ ws[w].email \in early
         \/ \E r \in Requests : pc[r] \in {"findMember", "setMember"} /\ req[r].email = ws[w].email)'
  <2> SUFFICES ASSUME NEW w \in DOMAIN ws', ws'[w].verified
               PROVE  \/ ws'[w].superMember \in DOMAIN mem' /\ mem'[ws'[w].superMember].verified
                      \/ \E e : e = ws'[w].email /\ Two(e)'
                      \/ Unlucky' \/ ws'[w].email \in early'
                      \/ \E r \in Requests : pc'[r] \in {"findMember", "setMember"}
                                             /\ req'[r].email = ws'[w].email
    OBVIOUS
  <2>1. PICK e, m : e = ws[w].email /\ m = ws[w].superMember
    OBVIOUS
  <2>2. /\ w \in DOMAIN ws /\ ws[w].verified /\ ws'[w].email = e /\ ws'[w].superMember = m
    BY <1>1, <2>1
  <2>3. \/ m \in DOMAIN mem /\ mem[m].verified
        \/ Two(e) \/ Unlucky \/ e \in early
        \/ \E r \in Requests : pc[r] \in {"findMember", "setMember"} /\ req[r].email = e
    BY <2>1, <2>2 DEF VerInv
  <2>4. CASE \E r \in Requests : pc[r] \in {"findMember", "setMember"} /\ req[r].email = e
    BY <2>2, <2>4 DEF NoneLeaves
  <2> QED
    BY <1>1, <1>2, <2>2, <2>3, <2>4 DEF Unlucky
<1>4. (\A m \in DOMAIN mem : mem[m].verified =>
         \E w \in DOMAIN ws : ws[w].email = mem[m].email /\ ws[w].verified)'
  BY <1>1 DEF VerInv
<1> QED
  BY <1>3, <1>4, Zenon DEF VerInv

LEMMA DevKept ==
  ASSUME DevicesWereUsed, Grow,
         \A m \in DOMAIN mem' : \/ mem'[m].devices = <<>>
                                \/ m \in DOMAIN mem /\ mem'[m].devices = mem[m].devices
  PROVE  DevicesWereUsed'
BY DEF DevicesWereUsed, Grow, MemGrow, SameMember

LEMMA BoundKept ==
  ASSUME ConstantsAssumption, Typed, WorkspacesBound, Grow, DOMAIN ws' = DOMAIN ws,
         NoneEnters({"insertWs"})
  PROVE  WorkspacesBound'
<1> SUFFICES ASSUME NEW e \in Emails
             PROVE  Cardinality(OfEmail(e)')
                    + Cardinality({r \in Requests : pc'[r] = "insertWs" /\ req'[r].email = e})
                      <= Cardinality(Requests) + Failures("lookup")'
  BY DEF WorkspacesBound, At
<1>1. OfEmail(e)' = OfEmail(e)
  BY DEF OfEmail, Matching, Match, Grow, WsGrow
<1>2. {r \in Requests : pc'[r] = "insertWs" /\ req'[r].email = e}
        \in SUBSET {r \in Requests : pc[r] = "insertWs" /\ req[r].email = e}
  BY DEF NoneEnters
<1>3. Cardinality(OfEmail(e))
      + Cardinality({r \in Requests : pc[r] = "insertWs" /\ req[r].email = e})
        <= Cardinality(Requests) + Failures("lookup")
  BY DEF WorkspacesBound, At
<1>4. /\ IsFiniteSet(OfEmail(e)) /\ Cardinality(Requests) \in Nat
      /\ IsFiniteSet({r \in Requests : pc[r] = "insertWs" /\ req[r].email = e})
  BY Finite
<1>5. Failures("lookup") \in Nat /\ Failures("lookup")' \in Nat
      /\ Failures("lookup") <= Failures("lookup")'
  BY FailuresGrow DEF Grow
<1> QED
  BY <1>1, <1>2, <1>3, <1>4, <1>5, BothWithin

\* The invites of an address to a workspace, and the tasks that are about to make one.
PairBound(e, w) ==
  /\ Cardinality(Pair(e, w)) + Cardinality(Inviting(e, w)) <= Cardinality(Tasks)
  /\ Pair(e, w) # {} => <<e, w>> \in mailed \/ "mail" \in faults

LEMMA Pairs ==
  \A e, w : Pair(e, w) = {i \in DOMAIN inv : inv[i].email = e /\ inv[i].ws = w}
BY DEF Pair, Matching, Match

LEMMA PairsFinite ==
  ASSUME ConstantsAssumption, Typed, NEW e, NEW w
  PROVE  IsFiniteSet(Pair(e, w)) /\ IsFiniteSet(Inviting(e, w)) /\ Cardinality(Tasks) \in Nat
<1>1. Pair(e, w) \subseteq DOMAIN inv /\ Inviting(e, w) \in SUBSET Tasks
  BY DEF Pair, Matching, Inviting
<1> QED
  BY <1>1, Finite, FS_Subset

LEMMA BoundOfPairs ==
  InvitesBound <=> \A e \in Emails, w \in DOMAIN ws : PairBound(e, w)
BY DEF InvitesBound, PairBound, Pair, Inviting

\* A workspace that is not there has no invites.
LEMMA NoInvitesYet ==
  ASSUME ConstantsAssumption, Typed, TaskInv, NEW e, NEW w, w \notin DOMAIN ws
  PROVE  Pair(e, w) = {} /\ Inviting(e, w) = {}
BY Pairs DEF TaskInv, Inviting, Invited

LEMMA TaskKept ==
  ASSUME ConstantsAssumption, Typed, TaskInv, Grow, DOMAIN inv' = DOMAIN inv, task' = task
  PROVE  TaskInv'
<1>1. /\ DOMAIN ws \subseteq DOMAIN ws' /\ mailed \subseteq mailed' /\ faults \subseteq faults'
      /\ \A i \in DOMAIN inv : inv'[i].email = inv[i].email /\ inv'[i].ws = inv[i].ws
  BY DEF Grow, WsGrow, InvGrow
<1>2. InvitesBound'
  <2> SUFFICES ASSUME NEW e \in Emails, NEW w \in DOMAIN ws'
               PROVE  PairBound(e, w)'
    BY DEF InvitesBound, PairBound, Pair, Inviting
  <2>1. Pair(e, w)' = Pair(e, w)
    BY <1>1 DEF Pair, Matching, Match
  <2>2. Inviting(e, w)' = Inviting(e, w)
    BY DEF Inviting, Invited
  <2>3. PairBound(e, w)
    <3>1. CASE w \in DOMAIN ws
      BY <3>1, BoundOfPairs DEF TaskInv
    <3>2. CASE w \notin DOMAIN ws
      BY <3>2, NoInvitesYet, PairsFinite, FS_EmptySet, FS_CardinalityType DEF PairBound
    <3> QED
      BY <3>1, <3>2
  <2> QED
    BY <1>1, <2>1, <2>2, <2>3 DEF PairBound
<1>3. (\A i \in DOMAIN inv : inv[i].ws \in DOMAIN ws)'
  BY <1>1 DEF TaskInv
<1>4. (\A t \in Tasks : /\ task[t].st # "none" => task[t].email \in Emails /\ task[t].ws \in DOMAIN ws
                        /\ task[t].st = "create" =>
                             <<task[t].email, task[t].ws>> \in mailed \/ "mail" \in faults)'
  BY <1>1 DEF TaskInv
<1> QED
  BY <1>2, <1>3, <1>4, Zenon DEF TaskInv

LEMMA InviteKept ==
  ASSUME ConstantsAssumption, Typed, InviteInv, Grow, DOMAIN inv' = DOMAIN inv,
         \A i \in DOMAIN inv : inv'[i].accepted = inv[i].accepted,
         \A m \in DOMAIN mem' \ DOMAIN mem : mem'[m].invite = NoDoc,
         NoneEnters({"accept", "createUser", "addMember"}),
         NoneLeaves({"createUser", "addMember"}) \/ faults' \cap {"createUser", "member", "died"} # {}
  PROVE  InviteInv'
<1>1. /\ DOMAIN mem \subseteq DOMAIN mem' /\ faults \subseteq faults'
      /\ \A i \in DOMAIN inv : inv'[i].ws = inv[i].ws
      /\ \A m \in DOMAIN mem : mem'[m].invite = mem[m].invite /\ mem'[m].ws = mem[m].ws
  BY DEF Grow, InvGrow, MemGrow, SameMember
<1>2. NoDoc \notin DOMAIN inv
  BY Finite
<1>3. MembersPerInviteBound'
  <2> SUFFICES ASSUME NEW i \in DOMAIN inv
               PROVE  Cardinality(MembersOf(i)') + Cardinality(Accepting(i)')
                        <= Cardinality(Requests) + Failures("mark")'
    BY DEF MembersPerInviteBound, MembersOf, Accepting
  <2>1. MembersOf(i)' \in SUBSET MembersOf(i)
    BY <1>1, <1>2 DEF MembersOf
  <2>2. Accepting(i)' \in SUBSET Accepting(i)
    BY DEF Accepting, NoneEnters
  <2>3. Cardinality(MembersOf(i)) + Cardinality(Accepting(i))
          <= Cardinality(Requests) + Failures("mark")
    BY DEF InviteInv, MembersPerInviteBound, MembersOf, Accepting
  <2>4. MembersOf(i) \subseteq DOMAIN mem /\ Accepting(i) \in SUBSET Requests
    BY DEF MembersOf, Accepting
  <2>5. IsFiniteSet(MembersOf(i)) /\ IsFiniteSet(Accepting(i)) /\ Cardinality(Requests) \in Nat
    BY <2>4, Finite, FS_Subset
  <2> QED
    BY <1>1, <2>1, <2>2, <2>3, <2>5, BothWithin, FailuresGrow
<1>4. AcceptedHasMember'
  <2> SUFFICES ASSUME NEW i \in DOMAIN inv, inv[i].accepted, faults' \cap {"createUser", "member", "died"} = {}
               PROVE  \/ \E m \in DOMAIN mem' : mem'[m].invite = i /\ mem'[m].ws = inv'[i].ws
                      \/ \E r \in Requests : pc'[r] \in {"createUser", "addMember"} /\ req'[r].inv = i
    BY DEF AcceptedHasMember
  <2>1. \/ \E m \in DOMAIN mem : mem[m].invite = i /\ mem[m].ws = inv[i].ws
        \/ \E r \in Requests : pc[r] \in {"createUser", "addMember"} /\ req[r].inv = i
    BY <1>1 DEF InviteInv, AcceptedHasMember
  <2> QED
    BY <1>1, <2>1 DEF NoneLeaves
<1>5. (\A m \in DOMAIN mem : mem[m].invite # NoDoc => mem[m].invite \in DOMAIN inv)'
  BY <1>1 DEF InviteInv
<1>6. (\A i \in DOMAIN inv : OpenBound(i))'
  <2> SUFFICES ASSUME NEW i \in DOMAIN inv, ~inv[i].accepted
               PROVE  Cardinality(MembersOf(i)') + Cardinality(Answered(i)') <= 0 + Failures("mark")'
    BY <1>1, FailuresGrow DEF OpenBound
  <2>1. MembersOf(i)' \in SUBSET MembersOf(i) /\ Answered(i)' \in SUBSET Answered(i)
    BY <1>1, <1>2 DEF MembersOf, Answered, NoneEnters
  <2>2. Cardinality(MembersOf(i)) + Cardinality(Answered(i)) <= 0 + Failures("mark")
    BY <1>1, FailuresGrow DEF InviteInv, OpenBound
  <2>3. IsFiniteSet(MembersOf(i)) /\ IsFiniteSet(Answered(i))
    <3>1. MembersOf(i) \subseteq DOMAIN mem /\ Answered(i) \in SUBSET Requests
      BY DEF MembersOf, Answered
    <3> QED
      BY <3>1, Finite, FS_Subset
  <2> QED
    BY <1>1, <2>1, <2>2, <2>3, BothWithin, FailuresGrow
<1> QED
  BY <1>3, <1>4, <1>5, <1>6, Zenon DEF InviteInv

-------------------------------------------------------------------------------
\* Steps that write no field the invariant is about.
Calm ==
  /\ Grow /\ DOMAIN ws' = DOMAIN ws /\ DOMAIN mem' = DOMAIN mem /\ DOMAIN inv' = DOMAIN inv
  /\ task' = task
  /\ \A w \in DOMAIN ws : ws'[w].verified = ws[w].verified
  /\ \A m \in DOMAIN mem : mem'[m].verified = mem[m].verified /\ mem'[m].devices = mem[m].devices
  /\ \A i \in DOMAIN inv : inv'[i].accepted = inv[i].accepted

LEMMA CalmDocs ==
  ASSUME UNCHANGED <<docs, task>>, seen \subseteq seen', early \subseteq early',
         mailed \subseteq mailed', faults \subseteq faults'
  PROVE  Calm
BY DEF docs, Calm, Grow, WsGrow, MemGrow, InvGrow, SameMember

\* One request moves on between places where nothing is pending.
LEMMA CalmStep ==
  ASSUME ConstantsAssumption, IInv, Typed', Calm, NEW r \in Requests, MovesOnly(r),
         ReqOK(pc[r], req[r])', SessionInv',
         pc'[r] \notin {"insertWs", "insertMember", "accept", "createUser", "addMember"},
         pc[r] = "insertMember" => faults' \cap {"insert", "died"} # {},
         pc[r] \in {"findMember", "setMember"} => Unlucky',
         pc[r] \in {"createUser", "addMember"} => faults' \cap {"createUser", "member", "died"} # {}
  PROVE  IInv'
<1>1. /\ NoneEnters({"insertWs"}) /\ NoneEnters({"insertMember"})
      /\ NoneEnters({"accept", "createUser", "addMember"})
  BY DEF MovesOnly, NoneEnters
<1>2. NoneLeaves({"insertMember"}) \/ faults' \cap {"insert", "died"} # {}
  BY DEF MovesOnly, NoneLeaves
<1>3. NoneLeaves({"findMember", "setMember"}) \/ Unlucky'
  BY DEF MovesOnly, NoneLeaves
<1>4. NoneLeaves({"createUser", "addMember"}) \/ faults' \cap {"createUser", "member", "died"} # {}
  BY DEF MovesOnly, NoneLeaves
<1>5. Grow /\ Typed
  BY DEF Calm, IInv
<1>6. ReqInv'
  BY <1>5, ReqKept DEF IInv
<1>7. SuperInv'
  BY <1>1, <1>2, <1>5, SuperKept DEF IInv, Calm
<1>8. VerInv'
  BY <1>3, <1>5, VerKept DEF IInv, Calm
<1>9. DevicesWereUsed' /\ WorkspacesBound'
  BY <1>1, <1>5, DevKept, BoundKept DEF IInv, Calm
<1>10. TaskInv'
  BY <1>5, TaskKept DEF IInv, Calm
<1>11. InviteInv'
  BY <1>1, <1>4, <1>5, InviteKept DEF IInv, Calm
<1> QED
  BY <1>6, <1>7, <1>8, <1>9, <1>10, <1>11 DEF IInv

\* No request moves.
LEMMA CalmStill ==
  ASSUME ConstantsAssumption, IInv, Typed', Calm, UNCHANGED <<pc, req>>, SessionInv'
  PROVE  IInv'
<1>1. Grow /\ Typed /\ \A S : NoneEnters(S) /\ NoneLeaves(S)
  BY DEF Calm, IInv, NoneEnters, NoneLeaves
<1>2. ReqInv'
  BY <1>1, ReqStill DEF IInv
<1>3. SuperInv'
  BY <1>1, SuperKept DEF IInv, Calm
<1>4. VerInv'
  BY <1>1, VerKept DEF IInv, Calm
<1>5. DevicesWereUsed' /\ WorkspacesBound'
  BY <1>1, DevKept, BoundKept DEF IInv, Calm
<1>6. TaskInv'
  BY <1>1, TaskKept DEF IInv, Calm
<1>7. InviteInv'
  BY <1>1, InviteKept DEF IInv, Calm
<1> QED
  BY <1>2, <1>3, <1>4, <1>5, <1>6, <1>7 DEF IInv

-------------------------------------------------------------------------------
\* Moving from place to place.
LEMMA Places ==
  ASSUME Typed, NEW r \in Requests, NEW there \in PCs, Goto(r, there)
  PROVE  /\ pc' \in [Requests -> PCs] /\ pc'[r] = there
         /\ \A q \in Requests \ {r} : pc'[q] = pc[q]
<1>1. pc \in [Requests -> PCs]
  BY DEF Typed, TypeOK, PCs
<1> QED
  BY <1>1 DEF Goto

\* The locals of a request that begins.
Local(locals) == [k \in DOMAIN Idle |-> IF k \in DOMAIN locals THEN locals[k] ELSE Idle[k]]

Given(locals, k, default) == IF k \in DOMAIN locals THEN locals[k] ELSE default

LEMMA LocalFields ==
  ASSUME NEW locals,
         Given(locals, "email", None) \in Emails \cup {None},
         Given(locals, "device", None) \in Devices \cup {None},
         Given(locals, "ws", NoDoc) \in WsIds \cup {NoDoc},
         Given(locals, "mem", NoDoc) \in MemIds \cup {NoDoc},
         Given(locals, "inv", NoDoc) \in InvIds \cup {NoDoc},
         Given(locals, "devices", <<>>) \in Seq(Devices),
         Given(locals, "value", None) \in Names \cup Passwords \cup {None}
  PROVE  Local(locals) \in ReqRec
<1> DEFINE F == {"email", "device", "ws", "mem", "inv", "devices", "value"}
<1>1. DOMAIN Idle = F
  BY DEF Idle
<1>2. /\ Idle["email"] = None /\ Idle["device"] = None /\ Idle["ws"] = NoDoc
      /\ Idle["mem"] = NoDoc /\ Idle["inv"] = NoDoc /\ Idle["devices"] = <<>>
      /\ Idle["value"] = None
  BY DEF Idle
<1>3. PICK f : f = Local(locals) /\ f = [k \in F |-> Given(locals, k, Idle[k])]
  BY <1>1 DEF Local, Given
<1>4. /\ f["email"] \in Emails \cup {None} /\ f["device"] \in Devices \cup {None}
      /\ f["ws"] \in WsIds \cup {NoDoc} /\ f["mem"] \in MemIds \cup {NoDoc}
      /\ f["inv"] \in InvIds \cup {NoDoc} /\ f["devices"] \in Seq(Devices)
      /\ f["value"] \in Names \cup Passwords \cup {None}
  BY <1>2, <1>3
<1> QED
  BY <1>3, <1>4 DEF ReqRec

LEMMA LocalValue ==
  ASSUME NEW locals, NEW k \in DOMAIN locals, k \in DOMAIN Idle
  PROVE  Local(locals)[k] = locals[k]
BY DEF Local

LEMMA IdleType == Idle \in ReqRec
BY DEF Idle, ReqRec

LEMMA LocalEmail ==
  ASSUME NEW e \in Emails
  PROVE  /\ Local([email |-> e]) \in ReqRec
         /\ Local([email |-> e]).email = e
<1>1. Local([email |-> e]) \in ReqRec
  BY LocalFields DEF Given
<1> QED
  BY <1>1, LocalValue DEF Idle

LEMMA LocalDevice ==
  ASSUME NEW e \in Emails, NEW d \in Devices
  PROVE  /\ Local([email |-> e, device |-> d]) \in ReqRec
         /\ Local([email |-> e, device |-> d]).email = e
         /\ Local([email |-> e, device |-> d]).device = d
<1>1. Local([email |-> e, device |-> d]) \in ReqRec
  BY LocalFields DEF Given
<1> QED
  BY <1>1, LocalValue DEF Idle

LEMMA LocalFound ==
  ASSUME NEW e \in Emails, NEW d \in Devices, NEW w \in WsIds
  PROVE  /\ Local([email |-> e, device |-> d, ws |-> w]) \in ReqRec
         /\ Local([email |-> e, device |-> d, ws |-> w]).email = e
         /\ Local([email |-> e, device |-> d, ws |-> w]).device = d
         /\ Local([email |-> e, device |-> d, ws |-> w]).ws = w
<1>1. Local([email |-> e, device |-> d, ws |-> w]) \in ReqRec
  BY LocalFields DEF Given
<1> QED
  BY <1>1, LocalValue DEF Idle

LEMMA LocalLogin ==
  ASSUME NEW e \in Emails, NEW d \in Devices, NEW m \in MemIds, NEW w \in WsIds, NEW l \in Seq(Devices)
  PROVE  /\ Local([email |-> e, device |-> d, mem |-> m, ws |-> w, devices |-> l]) \in ReqRec
         /\ Local([email |-> e, device |-> d, mem |-> m, ws |-> w, devices |-> l]).email = e
         /\ Local([email |-> e, device |-> d, mem |-> m, ws |-> w, devices |-> l]).device = d
         /\ Local([email |-> e, device |-> d, mem |-> m, ws |-> w, devices |-> l]).mem = m
         /\ Local([email |-> e, device |-> d, mem |-> m, ws |-> w, devices |-> l]).ws = w
         /\ Local([email |-> e, device |-> d, mem |-> m, ws |-> w, devices |-> l]).devices = l
<1>1. Local([email |-> e, device |-> d, mem |-> m, ws |-> w, devices |-> l]) \in ReqRec
  BY LocalFields DEF Given
<1> QED
  BY <1>1, LocalValue DEF Idle

LEMMA LocalPassword ==
  ASSUME NEW m \in MemIds, NEW p \in Passwords
  PROVE  /\ Local([mem |-> m, value |-> p]) \in ReqRec
         /\ Local([mem |-> m, value |-> p]).mem = m
         /\ Local([mem |-> m, value |-> p]).value = p
<1>1. Local([mem |-> m, value |-> p]) \in ReqRec
  BY LocalFields DEF Given
<1> QED
  BY <1>1, LocalValue DEF Idle

LEMMA LocalName ==
  ASSUME NEW w \in WsIds, NEW n \in Names
  PROVE  /\ Local([ws |-> w, value |-> n]) \in ReqRec
         /\ Local([ws |-> w, value |-> n]).ws = w
         /\ Local([ws |-> w, value |-> n]).value = n
<1>1. Local([ws |-> w, value |-> n]) \in ReqRec
  BY LocalFields DEF Given
<1> QED
  BY <1>1, LocalValue DEF Idle

LEMMA LocalInvite ==
  ASSUME NEW i \in InvIds
  PROVE  /\ Local([inv |-> i]) \in ReqRec
         /\ Local([inv |-> i]).inv = i
<1>1. Local([inv |-> i]) \in ReqRec
  BY LocalFields DEF Given
<1> QED
  BY <1>1, LocalValue DEF Idle

LEMMA Started ==
  ASSUME Typed, NEW r \in Requests, NEW there \in PCs, NEW locals, Start(r, there, locals),
         Local(locals) \in ReqRec
  PROVE  /\ pc' \in [Requests -> PCs] /\ req' \in [Requests -> ReqRec]
         /\ MovesOnly(r) /\ pc[r] = "idle" /\ pc'[r] = there /\ req'[r] = Local(locals)
<1>1. /\ pc' \in [Requests -> PCs] /\ pc'[r] = there
      /\ \A q \in Requests \ {r} : pc'[q] = pc[q]
  BY Places DEF Start
<1>2. pc[r] = "idle" /\ req' = [req EXCEPT ![r] = Local(locals)]
  BY DEF Start, At, Local
<1>3. req \in [Requests -> ReqRec]
  BY DEF Typed
<1> QED
  BY <1>1, <1>2, <1>3 DEF MovesOnly

LEMMA Finished ==
  ASSUME Typed, NEW r \in Requests, Finish(r)
  PROVE  /\ pc' \in [Requests -> PCs] /\ req' \in [Requests -> ReqRec]
         /\ MovesOnly(r) /\ pc'[r] = "idle" /\ ReqOK(pc[r], req[r])'
<1>1. /\ pc' \in [Requests -> PCs] /\ pc'[r] = "idle"
      /\ \A q \in Requests \ {r} : pc'[q] = pc[q]
  BY Places DEF Finish, PCs
<1>2. req' = [req EXCEPT ![r] = Idle] /\ req \in [Requests -> ReqRec]
  BY DEF Finish, Typed
<1>3. req' \in [Requests -> ReqRec] /\ MovesOnly(r)
  BY <1>1, <1>2 DEF Idle, ReqRec, MovesOnly
<1>4. ReqOK(pc[r], req[r])'
  BY <1>1 DEF ReqOK
<1> QED
  BY <1>1, <1>3, <1>4

LEMMA Stayed ==
  ASSUME Typed, NEW r \in Requests, NEW there \in PCs, Goto(r, there), UNCHANGED req
  PROVE  /\ pc' \in [Requests -> PCs] /\ req' \in [Requests -> ReqRec]
         /\ MovesOnly(r) /\ pc'[r] = there /\ req'[r] = req[r]
BY Places DEF Typed, MovesOnly

\* The types after a step, from those of the parts.
LEMMA TypedLater ==
  ASSUME Typed,
         UNCHANGED ws \/ (ws' \in [DOMAIN ws' -> WsDoc] /\ DOMAIN ws' \subseteq WsIds),
         UNCHANGED mem \/ (mem' \in [DOMAIN mem' -> MemDoc] /\ DOMAIN mem' \subseteq MemIds),
         UNCHANGED inv \/ (inv' \in [DOMAIN inv' -> InvDoc] /\ DOMAIN inv' \subseteq InvIds),
         UNCHANGED codes \/ codes' \subseteq Emails,
         UNCHANGED session \/ session' \in [Devices -> [mem : MemIds, ws : WsIds] \cup {None}],
         UNCHANGED task \/ task' \in [Tasks -> [st : {"none", "count", "mail", "create"},
                             email : Emails \cup {None}, ws : WsIds \cup {NoDoc}]],
         UNCHANGED <<pc, req>> \/ (pc' \in [Requests -> PCs] /\ req' \in [Requests -> ReqRec]),
         UNCHANGED mailed \/ mailed' \subseteq Emails \X WsIds,
         UNCHANGED early \/ early' \subseteq Emails,
         UNCHANGED seen \/ seen' \subseteq Emails \X Devices,
         UNCHANGED faults \/ faults' \in MayFail
  PROVE  Typed'
<1>1. ws' \in [DOMAIN ws' -> WsDoc] /\ DOMAIN ws' \subseteq WsIds
  BY DEF Typed, TypeOK
<1>2. mem' \in [DOMAIN mem' -> MemDoc] /\ DOMAIN mem' \subseteq MemIds
  BY DEF Typed, TypeOK
<1>3. inv' \in [DOMAIN inv' -> InvDoc] /\ DOMAIN inv' \subseteq InvIds
  BY DEF Typed, TypeOK
<1>4. /\ codes' \subseteq Emails /\ mailed' \subseteq Emails \X WsIds /\ early' \subseteq Emails
      /\ seen' \subseteq Emails \X Devices /\ faults' \in MayFail
  BY DEF Typed, TypeOK
<1>5. session' \in [Devices -> [mem : MemIds, ws : WsIds] \cup {None}]
  BY DEF Typed, TypeOK
<1>6. task' \in [Tasks -> [st : {"none", "count", "mail", "create"},
                           email : Emails \cup {None}, ws : WsIds \cup {NoDoc}]]
  BY DEF Typed, TypeOK
<1>7. pc' \in [Requests -> PCs] /\ req' \in [Requests -> ReqRec]
  BY DEF Typed, TypeOK, PCs
<1>8. \A r \in Requests : /\ req'[r].ws \in WsIds \cup {NoDoc}
                          /\ req'[r].mem \in MemIds \cup {NoDoc}
                          /\ req'[r].inv \in InvIds \cup {NoDoc}
  BY <1>7 DEF ReqRec
<1>9. TypeOK'
  BY <1>1, <1>2, <1>3, <1>4, <1>5, <1>6, <1>7, <1>8 DEF TypeOK, PCs
<1> QED
  BY <1>1, <1>2, <1>3, <1>7, <1>9 DEF Typed

\* A call is lost, and the request ends or goes on all the same.
LEMMA LostKept ==
  ASSUME ConstantsAssumption, IInv, UNCHANGED <<docs, codes, session, task, ghosts, seen>>,
         NEW kind, Fault(kind), NEW r \in Requests,
         pc' \in [Requests -> PCs], req' \in [Requests -> ReqRec], MovesOnly(r),
         ReqOK(pc[r], req[r])',
         pc'[r] \notin {"insertWs", "insertMember", "accept", "createUser", "addMember"},
         pc[r] = "insertMember" => kind \in {"insert", "died"},
         pc[r] \in {"findMember", "setMember"} => kind \in {"died", "lookup", "setMember"},
         pc[r] \in {"createUser", "addMember"} => kind \in {"createUser", "member", "died"}
  PROVE  IInv'
<1>1. kind \in faults' /\ faults \subseteq faults' /\ faults' \in MayFail
  BY DEF Fault
<1>2. Typed'
  BY <1>1, TypedLater DEF IInv, docs, ghosts
<1>3. Calm
  BY <1>1, CalmDocs DEF ghosts
<1>4. SessionInv'
  BY <1>2, <1>3, SessionKept DEF Calm, IInv
<1> QED
  BY <1>1, <1>2, <1>3, <1>4, CalmStep DEF Unlucky

LEMMA LostEnds ==
  ASSUME ConstantsAssumption, IInv, UNCHANGED <<docs, codes, session, task, ghosts, seen>>,
         NEW kind, Fault(kind), NEW r \in Requests, Finish(r),
         pc[r] = "insertMember" => kind \in {"insert", "died"},
         pc[r] \in {"findMember", "setMember"} => kind \in {"died", "lookup", "setMember"},
         pc[r] \in {"createUser", "addMember"} => kind \in {"createUser", "member", "died"}
  PROVE  IInv'
<1>1. /\ pc' \in [Requests -> PCs] /\ req' \in [Requests -> ReqRec]
      /\ MovesOnly(r) /\ pc'[r] = "idle" /\ ReqOK(pc[r], req[r])'
  BY Finished DEF IInv
<1> QED
  BY <1>1, LostKept

-------------------------------------------------------------------------------
\* Steps between places where nothing is pending.
LEMMA SendCodeKept ==
  ASSUME ConstantsAssumption, IInv, NEW r \in Requests, SendCode(r)
  PROVE  IInv'
<1>1. /\ pc' \in [Requests -> PCs] /\ req' \in [Requests -> ReqRec]
      /\ MovesOnly(r) /\ pc'[r] = "idle" /\ ReqOK(pc[r], req[r])'
  BY Finished DEF IInv, SendCode
<1>2. pc[r] = "sendCode" /\ req[r].email \in Emails
  BY DEF IInv, ReqInv, ReqOK, SendCode, At
<1>3. Typed'
  <2>1. codes' \subseteq Emails
    BY <1>2 DEF SendCode, IInv, Typed, TypeOK
  <2> QED
    BY <1>1, <2>1, TypedLater DEF IInv, SendCode, docs, ghosts
<1>4. Calm
  BY CalmDocs DEF SendCode, ghosts
<1>5. SessionInv'
  BY <1>3, <1>4, SessionKept DEF Calm, IInv, SendCode
<1> QED
  BY <1>1, <1>2, <1>3, <1>4, <1>5, CalmStep

LEMMA RequestDiesKept ==
  ASSUME ConstantsAssumption, IInv, NEW r \in Requests, RequestDies(r)
  PROVE  IInv'
BY LostEnds DEF RequestDies

LEMMA ExpireCodeKept ==
  ASSUME ConstantsAssumption, IInv, NEW e \in Emails, ExpireCode(e)
  PROVE  IInv'
<1>1. Typed'
  <2>1. codes' \subseteq Emails
    BY DEF ExpireCode, IInv, Typed, TypeOK
  <2> QED
    BY <2>1, TypedLater DEF IInv, ExpireCode, docs, ghosts
<1>2. Calm
  BY CalmDocs DEF ExpireCode, ghosts
<1>3. SessionInv'
  BY <1>1, <1>2, SessionKept DEF Calm, IInv, ExpireCode
<1> QED
  BY <1>1, <1>2, <1>3, CalmStill DEF ExpireCode

LEMMA FindWorkspaceKept ==
  ASSUME ConstantsAssumption, IInv, NEW r \in Requests, NEW e \in Emails, NEW d \in Devices,
         FindWorkspace(r, e, d)
  PROVE  IInv'
<1>1. PICK w \in DOMAIN ws : /\ ws[w].email = e
                             /\ Start(r, "setWs", [email |-> e, device |-> d, ws |-> w])
  BY OfAddress DEF FindWorkspace
<1>2. Local([email |-> e, device |-> d, ws |-> w]) \in ReqRec
  <2>1. w \in WsIds
    BY DEF IInv, Typed, TypeOK
  <2> QED
    BY <2>1, LocalFound
<1>3. /\ pc' \in [Requests -> PCs] /\ req' \in [Requests -> ReqRec]
      /\ MovesOnly(r) /\ pc[r] = "idle" /\ pc'[r] = "setWs"
      /\ req'[r] = Local([email |-> e, device |-> d, ws |-> w])
  BY <1>1, <1>2, Started DEF IInv, PCs
<1>4. req'[r].email = e /\ req'[r].device = d /\ req'[r].ws = w
  <2>1. w \in WsIds
    BY DEF IInv, Typed, TypeOK
  <2> QED
    BY <1>3, <2>1, LocalFound
<1>5. Typed'
  BY <1>3, TypedLater DEF IInv, FindWorkspace, docs, ghosts
<1>6. Calm
  BY CalmDocs DEF FindWorkspace, ghosts
<1>7. SessionInv'
  BY <1>5, <1>6, SessionKept DEF Calm, IInv, FindWorkspace
<1>8. ReqOK(pc[r], req[r])'
  BY <1>1, <1>3, <1>4 DEF ReqOK, FindWorkspace, docs
<1> QED
  BY <1>3, <1>5, <1>6, <1>7, <1>8, CalmStep

LEMMA CheckPasswordKept ==
  ASSUME ConstantsAssumption, IInv, NEW r \in Requests, NEW e \in Emails, NEW p \in Passwords,
         NEW n \in Passwords, CheckPassword(r, e, p, n)
  PROVE  IInv'
<1>1. PICK m \in DOMAIN mem : Start(r, "setPassword", [mem |-> m, value |-> n])
  BY OfAddress DEF CheckPassword
<1>2. m \in MemIds
  BY DEF IInv, Typed, TypeOK
<1>3. /\ pc' \in [Requests -> PCs] /\ req' \in [Requests -> ReqRec]
      /\ MovesOnly(r) /\ pc[r] = "idle" /\ pc'[r] = "setPassword"
      /\ req'[r] = Local([mem |-> m, value |-> n])
  BY <1>1, <1>2, LocalPassword, Started DEF IInv, PCs
<1>4. req'[r].mem = m /\ req'[r].value = n
  BY <1>2, <1>3, LocalPassword
<1>5. Typed'
  BY <1>3, TypedLater DEF IInv, CheckPassword, docs, ghosts
<1>6. Calm
  BY CalmDocs DEF CheckPassword, ghosts
<1>7. SessionInv'
  BY <1>5, <1>6, SessionKept DEF Calm, IInv, CheckPassword
<1>8. ReqOK(pc[r], req[r])'
  BY <1>3, <1>4 DEF ReqOK, CheckPassword, docs
<1> QED
  BY <1>3, <1>5, <1>6, <1>7, <1>8, CalmStep

\* An update of some members that leaves the fields the invariant is about alone.
LEMMA MembersUpdated ==
  ASSUME Typed, NEW T \in SUBSET DOMAIN mem, NEW payload,
         mem' = [i \in DOMAIN mem |-> IF i \in T THEN Set(mem[i], payload) ELSE mem[i]],
         \A i \in T : LET new == Set(mem[i], payload) IN
                      new \in MemDoc /\ SameMember(new, mem[i])
                      /\ (mem[i].verified => new.verified)
  PROVE  mem' \in [DOMAIN mem' -> MemDoc] /\ DOMAIN mem' = DOMAIN mem /\ MemGrow
         /\ DOMAIN mem' \subseteq MemIds
BY DEF Typed, TypeOK, MemGrow, SameMember

LEMMA SetPasswordKept ==
  ASSUME ConstantsAssumption, IInv, NEW r \in Requests, SetPassword(r)
  PROVE  IInv'
<1>0. CASE Fault("lost") /\ UNCHANGED mem
  BY <1>0, LostEnds DEF SetPassword, At, docs
<1> SUFFICES ASSUME NoFault PROVE IInv'
  BY <1>0 DEF SetPassword
<1>1. /\ pc' \in [Requests -> PCs] /\ req' \in [Requests -> ReqRec]
      /\ MovesOnly(r) /\ pc'[r] = "idle" /\ ReqOK(pc[r], req[r])'
  BY Finished DEF IInv, SetPassword
<1>2. PICK m, p : /\ m = req[r].mem /\ p = req[r].value
                  /\ mem' = [i \in DOMAIN mem |-> IF i = m THEN Set(mem[i], [password |-> p])
                                                  ELSE mem[i]]
  BY DEF SetPassword, UpdatePartialByID, NoFault, Fault
<1>3. m \in DOMAIN mem /\ p \in Passwords /\ pc[r] = "setPassword" /\ mem[m] \in MemDoc
  BY <1>2 DEF IInv, ReqInv, ReqOK, SetPassword, At, Typed, TypeOK
<1>4. LET new == Set(mem[m], [password |-> p]) IN
      new \in MemDoc /\ SameMember(new, mem[m])
      /\ new.verified = mem[m].verified /\ new.devices = mem[m].devices
  BY <1>3, SetMemPassword
<1>5. /\ mem' \in [DOMAIN mem' -> MemDoc] /\ DOMAIN mem' = DOMAIN mem /\ MemGrow
      /\ DOMAIN mem' \subseteq MemIds
  <2>1. PICK payload, T : payload = [password |-> p] /\ T = {m}
    OBVIOUS
  <2>2. /\ T \in SUBSET DOMAIN mem
        /\ mem' = [i \in DOMAIN mem |-> IF i \in T THEN Set(mem[i], payload) ELSE mem[i]]
    BY <1>2, <1>3, <2>1
  <2>3. \A i \in T : LET new == Set(mem[i], payload) IN
                     new \in MemDoc /\ SameMember(new, mem[i]) /\ (mem[i].verified => new.verified)
    BY <1>4, <2>1
  <2> QED
    BY <2>2, <2>3, MembersUpdated DEF IInv
<1>6. \A i \in DOMAIN mem : mem'[i].verified = mem[i].verified /\ mem'[i].devices = mem[i].devices
  BY <1>2, <1>4
<1>7. Typed'
  BY <1>1, <1>5, TypedLater DEF IInv, SetPassword, NoFault, docs, ghosts
<1>8. Calm
  BY <1>5, <1>6 DEF SetPassword, NoFault, ghosts, Calm, Grow, WsGrow, InvGrow
<1>9. SessionInv'
  BY <1>7, <1>8, SessionKept DEF Calm, IInv, SetPassword
<1> QED
  BY <1>1, <1>3, <1>7, <1>8, <1>9, CalmStep

LEMMA RenameInMembersKept ==
  ASSUME ConstantsAssumption, IInv, NEW r \in Requests, RenameInMembers(r)
  PROVE  IInv'
<1>0. CASE Fault("lost") /\ UNCHANGED mem
  BY <1>0, LostEnds DEF RenameInMembers, At, docs
<1> SUFFICES ASSUME NoFault PROVE IInv'
  BY <1>0 DEF RenameInMembers
<1>1. /\ pc' \in [Requests -> PCs] /\ req' \in [Requests -> ReqRec]
      /\ MovesOnly(r) /\ pc'[r] = "idle" /\ ReqOK(pc[r], req[r])'
  BY Finished DEF IInv, RenameInMembers
<1>2. PICK w, n, payload, T : /\ w = req[r].ws /\ n = req[r].value
                              /\ payload = [name |-> n] /\ T = {i \in DOMAIN mem : mem[i].ws = w}
  OBVIOUS
<1>3. mem' = [i \in DOMAIN mem |-> IF i \in T THEN Set(mem[i], payload) ELSE mem[i]]
  BY <1>2 DEF RenameInMembers, UpdatePartialByFilter, Match, NoFault, Fault
<1>4. n \in Names /\ pc[r] = "rename" /\ \A m \in DOMAIN mem : mem[m] \in MemDoc
  BY <1>2 DEF IInv, ReqInv, ReqOK, RenameInMembers, At, Typed, TypeOK
<1>5. \A m \in T : LET new == Set(mem[m], payload) IN
      new \in MemDoc /\ SameMember(new, mem[m])
      /\ new.verified = mem[m].verified /\ new.devices = mem[m].devices
  BY <1>2, <1>4, SetMemName
<1>6. /\ mem' \in [DOMAIN mem' -> MemDoc] /\ DOMAIN mem' = DOMAIN mem /\ MemGrow
      /\ DOMAIN mem' \subseteq MemIds
  BY <1>2, <1>3, <1>5, MembersUpdated DEF IInv
<1>7. \A i \in DOMAIN mem : mem'[i].verified = mem[i].verified /\ mem'[i].devices = mem[i].devices
  BY <1>3, <1>5
<1>8. Typed'
  BY <1>1, <1>6, TypedLater DEF IInv, RenameInMembers, NoFault, docs, ghosts
<1>9. Calm
  BY <1>6, <1>7 DEF RenameInMembers, NoFault, ghosts, Calm, Grow, WsGrow, InvGrow
<1>10. SessionInv'
  BY <1>8, <1>9, SessionKept DEF Calm, IInv, RenameInMembers
<1> QED
  BY <1>1, <1>4, <1>8, <1>9, <1>10, CalmStep

LEMMA UpdateOrgDetailsKept ==
  ASSUME ConstantsAssumption, IInv, NEW r \in Requests, NEW w \in DOMAIN ws, NEW n \in Names,
         UpdateOrgDetails(r, w, n)
  PROVE  IInv'
<1>1. w \in WsIds /\ \A x \in DOMAIN ws : ws[x] \in WsDoc
  BY DEF IInv, Typed, TypeOK
<1>2. /\ pc' \in [Requests -> PCs] /\ req' \in [Requests -> ReqRec]
      /\ MovesOnly(r) /\ pc[r] = "idle" /\ pc'[r] = "rename"
      /\ req'[r] = Local([ws |-> w, value |-> n])
  BY <1>1, LocalName, Started DEF IInv, PCs, UpdateOrgDetails
<1>3. req'[r].ws = w /\ req'[r].value = n
  BY <1>1, <1>2, LocalName
<1>0. CASE Fault("lost") /\ UNCHANGED ws
  <2>1. ReqOK(pc[r], req[r])'
    BY <1>0, <1>2, <1>3 DEF ReqOK
  <2> QED
    BY <1>0, <1>2, <2>1, LostKept DEF UpdateOrgDetails, docs
<1> SUFFICES ASSUME NoFault PROVE IInv'
  BY <1>0 DEF UpdateOrgDetails
<1>4. PICK new : /\ new = Set(ws[w], [workspacename |-> n])
                 /\ ws' = [x \in DOMAIN ws |-> IF x = w THEN new ELSE ws[x]]
  BY DEF UpdateOrgDetails, UpdatePartialByID, NoFault, Fault
<1>5. /\ new \in WsDoc /\ new.email = ws[w].email /\ new.superMember = ws[w].superMember
      /\ new.verified = ws[w].verified
  BY <1>1, <1>4, SetWsName
<1>6. /\ ws' \in [DOMAIN ws' -> WsDoc] /\ DOMAIN ws' = DOMAIN ws /\ DOMAIN ws' \subseteq WsIds
      /\ WsGrow /\ \A x \in DOMAIN ws : ws'[x].verified = ws[x].verified
  BY <1>1, <1>4, <1>5 DEF WsGrow, IInv, Typed, TypeOK
<1>7. Typed'
  BY <1>2, <1>6, TypedLater DEF IInv, UpdateOrgDetails, NoFault, ghosts
<1>8. Calm
  BY <1>6 DEF UpdateOrgDetails, NoFault, ghosts, Calm, Grow, MemGrow, InvGrow, SameMember
<1>9. SessionInv'
  BY <1>7, <1>8, SessionKept DEF Calm, IInv, UpdateOrgDetails
<1>10. ReqOK(pc[r], req[r])'
  BY <1>2, <1>3, <1>6 DEF ReqOK
<1> QED
  BY <1>2, <1>7, <1>8, <1>9, <1>10, CalmStep

LEMMA ResendInviteKept ==
  ASSUME ConstantsAssumption, IInv, NEW r \in Requests, NEW i \in DOMAIN inv, ResendInvite(r, i)
  PROVE  IInv'
<1>1. i \in InvIds
  BY DEF IInv, Typed, TypeOK
<1>2. /\ pc' \in [Requests -> PCs] /\ req' \in [Requests -> ReqRec]
      /\ MovesOnly(r) /\ pc[r] = "idle" /\ pc'[r] = "mailAgain"
      /\ req'[r] = Local([inv |-> i])
  BY <1>1, LocalInvite, Started DEF IInv, PCs, ResendInvite
<1>3. req'[r].inv = i
  BY <1>1, <1>2, LocalInvite
<1>4. Typed'
  BY <1>2, TypedLater DEF IInv, ResendInvite, docs, ghosts
<1>5. Calm
  BY CalmDocs DEF ResendInvite, ghosts
<1>6. SessionInv'
  BY <1>4, <1>5, SessionKept DEF Calm, IInv, ResendInvite
<1>7. ReqOK(pc[r], req[r])'
  BY <1>2, <1>3 DEF ReqOK, ResendInvite, docs
<1> QED
  BY <1>2, <1>4, <1>5, <1>6, <1>7, CalmStep

LEMMA MailAgainKept ==
  ASSUME ConstantsAssumption, IInv, NEW r \in Requests, MailAgain(r)
  PROVE  IInv'
<1>0. CASE Fault("lost") /\ UNCHANGED inv
  BY <1>0, LostEnds DEF MailAgain, At, docs
<1> SUFFICES ASSUME NoFault PROVE IInv'
  BY <1>0 DEF MailAgain
<1>1. /\ pc' \in [Requests -> PCs] /\ req' \in [Requests -> ReqRec]
      /\ MovesOnly(r) /\ pc'[r] = "idle" /\ ReqOK(pc[r], req[r])'
  BY Finished DEF IInv, MailAgain
<1>2. /\ pc[r] = "mailAgain" /\ req[r].inv \in DOMAIN inv
      /\ \A i \in DOMAIN inv : inv[i] \in InvDoc
  BY DEF IInv, ReqInv, ReqOK, MailAgain, At, Typed, TypeOK
<1>3. PICK i, new : /\ i = req[r].inv /\ new = Set(inv[i], [resent |-> TRUE])
                    /\ inv' = [x \in DOMAIN inv |-> IF x = i THEN new ELSE inv[x]]
  BY DEF MailAgain, UpdatePartialByID, NoFault, Fault
<1>4. /\ new \in InvDoc /\ new.email = inv[i].email /\ new.ws = inv[i].ws
      /\ new.accepted = inv[i].accepted
  BY <1>2, <1>3, SetInv
<1>5. /\ inv' \in [DOMAIN inv' -> InvDoc] /\ DOMAIN inv' = DOMAIN inv /\ DOMAIN inv' \subseteq InvIds
      /\ InvGrow /\ \A x \in DOMAIN inv : inv'[x].accepted = inv[x].accepted
  BY <1>2, <1>3, <1>4 DEF InvGrow, IInv, Typed, TypeOK
<1>6. Typed'
  BY <1>1, <1>5, TypedLater DEF IInv, MailAgain, NoFault, ghosts
<1>7. Calm
  BY <1>5 DEF MailAgain, NoFault, ghosts, Calm, Grow, MemGrow, WsGrow, SameMember
<1>8. SessionInv'
  BY <1>6, <1>7, SessionKept DEF Calm, IInv, MailAgain
<1> QED
  BY <1>1, <1>2, <1>6, <1>7, <1>8, CalmStep

\* A member's devices are those its address used.
LEMMA ListOfMember ==
  ASSUME IInv, NEW m \in DOMAIN mem, NEW d \in Devices
  PROVE  /\ WithDevice(mem[m].devices, d) \in Seq(Devices)
         /\ \A i \in DOMAIN WithDevice(mem[m].devices, d) :
              \/ WithDevice(mem[m].devices, d)[i] = d
              \/ <<mem[m].email, WithDevice(mem[m].devices, d)[i]>> \in seen
<1>1. mem[m].devices \in Seq(Devices)
  BY ListTypes DEF IInv, Typed, TypeOK, MemDoc, DeviceLists
<1>2. \A j \in DOMAIN mem[m].devices : <<mem[m].email, mem[m].devices[j]>> \in seen
  BY DEF IInv, DevicesWereUsed
<1> QED
  BY <1>1, <1>2, DeviceAdded

LEMMA FindMemberKept ==
  ASSUME ConstantsAssumption, IInv, NEW r \in Requests, NEW e \in Emails, NEW d \in Devices,
         FindMember(r, e, d)
  PROVE  IInv'
<1>1. PICK m \in DOMAIN mem :
        /\ mem[m].email = e
        /\ IF mem[m].verified
           THEN Start(r, "setDevices", [email |-> e, device |-> d, mem |-> m, ws |-> mem[m].ws,
                                        devices |-> WithDevice(mem[m].devices, d)])
           ELSE Start(r, "sendCode", [email |-> e])
  <2>1. PICK m \in Matching(mem, [email |-> e]) :
          IF mem[m].verified
          THEN Start(r, "setDevices", [email |-> e, device |-> d, mem |-> m, ws |-> mem[m].ws,
                                       devices |-> WithDevice(mem[m].devices, d)])
          ELSE Start(r, "sendCode", [email |-> e])
    BY DEF FindMember
  <2>2. m \in DOMAIN mem /\ mem[m].email = e
    BY <2>1, OfAddress
  <2> QED
    BY <2>1, <2>2
<1>2. /\ m \in MemIds /\ mem[m].ws \in WsIds
  BY DEF IInv, Typed, TypeOK, MemDoc
<1>3. PICK w, l : w = mem[m].ws /\ l = WithDevice(mem[m].devices, d)
  OBVIOUS
<1>4. l \in Seq(Devices) /\ \A i \in DOMAIN l : l[i] = d \/ <<e, l[i]>> \in seen
  BY <1>1, <1>3, ListOfMember
<1>5. /\ pc' \in [Requests -> PCs] /\ req' \in [Requests -> ReqRec]
      /\ MovesOnly(r) /\ pc[r] = "idle"
      /\ \/ pc'[r] = "setDevices" /\ req'[r].email = e /\ req'[r].device = d /\ req'[r].mem = m
            /\ req'[r].ws = w /\ req'[r].devices = l
         \/ pc'[r] = "sendCode" /\ req'[r].email = e
  <2>1. CASE mem[m].verified
    <3>1. Start(r, "setDevices", [email |-> e, device |-> d, mem |-> m, ws |-> w, devices |-> l])
      BY <1>1, <1>3, <2>1
    <3>2. Local([email |-> e, device |-> d, mem |-> m, ws |-> w, devices |-> l]) \in ReqRec
      BY <1>2, <1>3, <1>4, LocalLogin
    <3>3. /\ pc' \in [Requests -> PCs] /\ req' \in [Requests -> ReqRec]
          /\ MovesOnly(r) /\ pc[r] = "idle" /\ pc'[r] = "setDevices"
          /\ req'[r] = Local([email |-> e, device |-> d, mem |-> m, ws |-> w, devices |-> l])
      BY <3>1, <3>2, Started DEF IInv, PCs
    <3> QED
      BY <1>2, <1>3, <1>4, <3>3, LocalLogin
  <2>2. CASE ~mem[m].verified
    <3>1. /\ pc' \in [Requests -> PCs] /\ req' \in [Requests -> ReqRec]
          /\ MovesOnly(r) /\ pc[r] = "idle" /\ pc'[r] = "sendCode"
          /\ req'[r] = Local([email |-> e])
      BY <1>1, <2>2, LocalEmail, Started DEF IInv, PCs
    <3> QED
      BY <3>1, LocalEmail
  <2> QED
    BY <2>1, <2>2
<1>6. Typed'
  BY <1>5, TypedLater DEF IInv, FindMember, docs, ghosts
<1>7. Calm
  BY CalmDocs DEF FindMember, ghosts
<1>8. SessionInv'
  BY <1>6, <1>7, SessionKept DEF Calm, IInv, FindMember
<1>9. ReqOK(pc[r], req[r])'
  BY <1>1, <1>3, <1>4, <1>5 DEF ReqOK, FindMember, docs
<1> QED
  BY <1>5, <1>6, <1>7, <1>8, <1>9, CalmStep

-------------------------------------------------------------------------------
\* Steps that write a session.
LEMMA SessionSet ==
  ASSUME IInv, UNCHANGED docs, NEW d \in Devices, NEW m \in DOMAIN mem, NEW w \in DOMAIN ws,
         mem[m].email \in Emails, mem[m].ws = w \/ Two(mem[m].email),
         session' = [session EXCEPT ![d] = [mem |-> m, ws |-> w]]
  PROVE  /\ session' \in [Devices -> [mem : MemIds, ws : WsIds] \cup {None}]
         /\ SessionInv'
<1>1. /\ session \in [Devices -> [mem : MemIds, ws : WsIds] \cup {None}]
      /\ m \in MemIds /\ w \in WsIds
  BY DEF IInv, Typed, TypeOK
<1>2. session' \in [Devices -> [mem : MemIds, ws : WsIds] \cup {None}]
  BY <1>1
<1>3. \A x \in Devices \ {d} : session'[x] = session[x]
  BY <1>1
<1>4. session'[d].mem = m /\ session'[d].ws = w
  BY <1>1
<1>5. SessionInv'
  BY <1>3, <1>4 DEF IInv, SessionInv, docs, Two, OfEmail
<1> QED
  BY <1>2, <1>5

\* A member's workspace, and the workspaces of its address.
LEMMA OwnWorkspace ==
  ASSUME ConstantsAssumption, IInv, NEW m \in DOMAIN mem, NEW w \in DOMAIN ws,
         ws[w].email = mem[m].email, mem[m].email \in Emails
  PROVE  mem[m].ws = w \/ Two(mem[m].email)
<1>1. mem[m].ws \in DOMAIN ws /\ ws[mem[m].ws].email = mem[m].email
  BY DEF IInv, SuperInv, ConstantsAssumption
<1> QED
  BY <1>1, TwoOf DEF IInv

LEMMA OpenSessionKept ==
  ASSUME ConstantsAssumption, IInv, NEW r \in Requests, OpenSession(r)
  PROVE  IInv'
<1>0. CASE (Fault("lookup") \/ Fault("lost")) /\ UNCHANGED session
  BY <1>0, LostEnds DEF OpenSession, At
<1> SUFFICES ASSUME NoFault PROVE IInv'
  BY <1>0 DEF OpenSession
<1>1. /\ pc' \in [Requests -> PCs] /\ req' \in [Requests -> ReqRec]
      /\ MovesOnly(r) /\ pc'[r] = "idle" /\ ReqOK(pc[r], req[r])'
  BY Finished DEF IInv, OpenSession
<1>2. PICK e, d, w : e = req[r].email /\ d = req[r].device /\ w = req[r].ws
  OBVIOUS
<1>3. /\ pc[r] = "session" /\ e \in Emails /\ d \in Devices /\ w \in DOMAIN ws /\ ws[w].email = e
  BY <1>2 DEF IInv, ReqInv, ReqOK, OpenSession, At
<1>4. PICK m \in DOMAIN mem : /\ mem[m].email = e
                              /\ session' = [session EXCEPT ![d] = [mem |-> m, ws |-> w]]
  <2>1. \E m \in Matching(mem, [email |-> e]) :
          session' = [session EXCEPT ![d] = [mem |-> m, ws |-> w]]
    BY <1>2 DEF OpenSession, NoFault, Fault
  <2>2. \A m \in Matching(mem, [email |-> e]) : m \in DOMAIN mem /\ mem[m].email = e
    BY DEF Matching, Match
  <2> QED
    BY <2>1, <2>2
<1>5. mem[m].ws = w \/ Two(mem[m].email)
  BY <1>3, <1>4, OwnWorkspace
<1>6. /\ session' \in [Devices -> [mem : MemIds, ws : WsIds] \cup {None}]
      /\ SessionInv'
  <2>1. UNCHANGED docs
    BY DEF OpenSession
  <2>2. mem[m].email \in Emails
    BY <1>3, <1>4
  <2>3. session' = [session EXCEPT ![d] = [mem |-> m, ws |-> w]]
    BY <1>4
  <2> QED
    BY <1>3, <1>5, <2>1, <2>2, <2>3, SessionSet
<1>7. Typed'
  BY <1>1, <1>6, TypedLater DEF IInv, OpenSession, NoFault, docs, ghosts
<1>8. Calm
  BY CalmDocs DEF OpenSession, NoFault, ghosts
<1> QED
  BY <1>1, <1>3, <1>6, <1>7, <1>8, CalmStep

LEMMA SaveLoginKept ==
  ASSUME ConstantsAssumption, IInv, NEW r \in Requests, SaveLogin(r)
  PROVE  IInv'
<1>0. CASE Fault("lost") /\ UNCHANGED session
  BY <1>0, LostEnds DEF SaveLogin, At
<1> SUFFICES ASSUME NoFault PROVE IInv'
  BY <1>0 DEF SaveLogin
<1>1. /\ pc' \in [Requests -> PCs] /\ req' \in [Requests -> ReqRec]
      /\ MovesOnly(r) /\ pc'[r] = "idle" /\ ReqOK(pc[r], req[r])'
  BY Finished DEF IInv, SaveLogin
<1>2. PICK d, w, m : d = req[r].device /\ w = req[r].ws /\ m = req[r].mem
  OBVIOUS
<1>3. /\ pc[r] = "saveLogin" /\ d \in Devices /\ m \in DOMAIN mem /\ mem[m].ws = w
      /\ mem[m].email \in Emails /\ w \in DOMAIN ws
  BY <1>2 DEF IInv, ReqInv, ReqOK, SaveLogin, At, SuperInv
<1>4. session' = [session EXCEPT ![d] = [mem |-> m, ws |-> w]]
  BY <1>2 DEF SaveLogin, NoFault, Fault
<1>5. /\ session' \in [Devices -> [mem : MemIds, ws : WsIds] \cup {None}]
      /\ SessionInv'
  BY <1>3, <1>4, SessionSet DEF SaveLogin
<1>6. Typed'
  BY <1>1, <1>5, TypedLater DEF IInv, SaveLogin, NoFault, docs, ghosts
<1>7. Calm
  BY CalmDocs DEF SaveLogin, NoFault, ghosts
<1> QED
  BY <1>1, <1>3, <1>5, <1>6, <1>7, CalmStep

LEMMA WorkspaceRefreshTokenKept ==
  ASSUME ConstantsAssumption, IInv, NEW d \in Devices, WorkspaceRefreshToken(d)
  PROVE  IInv'
<1>1. PICK m, w : m = session[d].mem /\ w = mem[m].ws
  OBVIOUS
<1>2. m \in DOMAIN mem /\ mem[m].email \in Emails /\ w \in DOMAIN ws
  BY <1>1 DEF IInv, SessionInv, SuperInv, WorkspaceRefreshToken
<1>3. session \in [Devices -> [mem : MemIds, ws : WsIds] \cup {None}]
  BY DEF IInv, Typed, TypeOK
<1>4. session[d] \in [mem : MemIds, ws : WsIds]
  BY <1>3 DEF WorkspaceRefreshToken
<1>5. session' = [session EXCEPT ![d] = [session[d] EXCEPT !.ws = w]]
  BY <1>1 DEF WorkspaceRefreshToken
<1>6. [session[d] EXCEPT !.ws = w] = [mem |-> m, ws |-> w]
  BY <1>1, <1>4
<1>7. session' = [session EXCEPT ![d] = [mem |-> m, ws |-> w]]
  BY <1>5, <1>6
<1>8. /\ session' \in [Devices -> [mem : MemIds, ws : WsIds] \cup {None}]
      /\ SessionInv'
  BY <1>1, <1>2, <1>7, SessionSet DEF WorkspaceRefreshToken
<1>9. Typed'
  BY <1>8, TypedLater DEF IInv, WorkspaceRefreshToken, docs, ghosts
<1>10. Calm
  BY CalmDocs DEF WorkspaceRefreshToken, ghosts
<1> QED
  BY <1>8, <1>9, <1>10, CalmStill DEF WorkspaceRefreshToken

-------------------------------------------------------------------------------
\* CreateWorkspace.
Creating(e) == {r \in Requests : pc[r] = "insertWs" /\ req[r].email = e}

LEMMA FindExistingKept ==
  ASSUME ConstantsAssumption, IInv, NEW r \in Requests, NEW e \in Emails, NEW d \in Devices,
         FindExisting(r, e, d)
  PROVE  IInv'
<1>1. \/ /\ OfEmail(e) = {} \/ Fault("lookup")
         /\ Start(r, "insertWs", [email |-> e, device |-> d])
      \/ Start(r, "sendCode", [email |-> e])
  <2>1. NoDoc \notin DOMAIN ws
    BY Finite DEF IInv
  <2> QED
    BY <2>1 DEF FindExisting, OfEmail, FindOneByFilter, FirstOf, Matching
<1>2. Calm /\ faults \subseteq faults' /\ (UNCHANGED faults \/ faults' \in MayFail)
  BY CalmDocs DEF FindExisting, NoFault, Fault, ghosts
<1>3. CASE Start(r, "sendCode", [email |-> e])
  <2>1. /\ pc' \in [Requests -> PCs] /\ req' \in [Requests -> ReqRec]
        /\ MovesOnly(r) /\ pc[r] = "idle" /\ pc'[r] = "sendCode"
        /\ req'[r] = Local([email |-> e])
    BY <1>3, LocalEmail, Started DEF IInv, PCs
  <2>2. req'[r].email = e
    BY <2>1, LocalEmail
  <2>3. Typed'
    BY <1>2, <2>1, TypedLater DEF IInv, FindExisting, docs, ghosts
  <2>4. SessionInv'
    BY <1>2, <2>3, SessionKept DEF Calm, IInv, FindExisting
  <2>5. ReqOK(pc[r], req[r])'
    BY <2>1, <2>2 DEF ReqOK
  <2> QED
    BY <1>2, <2>1, <2>3, <2>4, <2>5, CalmStep
<1>4. CASE (OfEmail(e) = {} \/ Fault("lookup")) /\ Start(r, "insertWs", [email |-> e, device |-> d])
  <2>1. /\ pc' \in [Requests -> PCs] /\ req' \in [Requests -> ReqRec]
        /\ MovesOnly(r) /\ pc[r] = "idle" /\ pc'[r] = "insertWs"
        /\ req'[r] = Local([email |-> e, device |-> d])
    BY <1>4, LocalDevice, Started DEF IInv, PCs
  <2>2. req'[r].email = e /\ req'[r].device = d
    BY <2>1, LocalDevice
  <2>3. Typed' /\ Typed /\ Grow
    BY <1>2, <2>1, TypedLater DEF IInv, FindExisting, docs, ghosts, Calm
  <2>4. SessionInv'
    BY <2>3, SessionKept DEF IInv, FindExisting
  <2>5. ReqOK(pc[r], req[r])'
    BY <2>1, <2>2 DEF ReqOK
  <2>6. /\ NoneEnters({"insertMember"}) /\ NoneEnters({"accept", "createUser", "addMember"})
        /\ NoneLeaves({"insertMember"}) /\ NoneLeaves({"findMember", "setMember"})
        /\ NoneLeaves({"createUser", "addMember"})
    BY <2>1 DEF MovesOnly, NoneEnters, NoneLeaves
  <2>7. ReqInv' /\ SuperInv' /\ VerInv' /\ DevicesWereUsed'
    BY <1>2, <2>1, <2>3, <2>5, <2>6, ReqKept, SuperKept, VerKept, DevKept DEF IInv, Calm
  <2>8. TaskInv' /\ InviteInv'
    BY <1>2, <2>3, <2>6, TaskKept, InviteKept DEF IInv, Calm
  <2>9. WorkspacesBound'
    <3> SUFFICES ASSUME NEW x \in Emails
                 PROVE  Cardinality(OfEmail(x)') + Cardinality(Creating(x)')
                        <= Cardinality(Requests) + Failures("lookup")'
      BY DEF WorkspacesBound, Creating, At
    <3>0. Failures("lookup") \in Nat /\ Failures("lookup")' \in Nat
          /\ Failures("lookup") <= Failures("lookup")'
      BY <1>2, FailuresGrow
    <3>1. OfEmail(x)' = OfEmail(x)
      BY DEF OfEmail, FindExisting, docs
    <3>2. CASE x = e
      <4>1. Creating(x)' \in SUBSET Requests /\ IsFiniteSet(Requests)
        BY DEF Creating, ConstantsAssumption
      <4>2. Cardinality(Creating(x)') \in Nat /\ Cardinality(Creating(x)') <= Cardinality(Requests)
            /\ Cardinality(Requests) \in Nat
        BY <4>1, FS_Subset, FS_CardinalityType
      <4>3. CASE OfEmail(e) = {}
        BY <3>0, <3>1, <3>2, <4>2, <4>3, FS_EmptySet
      <4>4. CASE Fault("lookup")
        <5>1. Failures("lookup") = 0 /\ Failures("lookup")' = 1
          BY <4>4 DEF Fault, Failures
        <5>2. Creating(x)' = Creating(x) \cup {r}
          BY <2>1, <2>2, <3>2 DEF Creating, MovesOnly
        <5>3. IsFiniteSet(Creating(x)) /\ IsFiniteSet(OfEmail(x)) /\ Cardinality(OfEmail(x)) \in Nat
          <6>1. Creating(x) \in SUBSET Requests
            BY DEF Creating
          <6> QED
            BY <2>3, <6>1, Finite
        <5>4. Cardinality(Creating(x)) \in Nat
              /\ Cardinality(Creating(x) \cup {r}) <= Cardinality(Creating(x)) + 1
          BY <5>3, OneMore
        <5>5. Cardinality(OfEmail(x)) + Cardinality(Creating(x)) <= Cardinality(Requests) + 0
          BY <5>1 DEF IInv, WorkspacesBound, Creating, At
        <5> QED
          BY <3>1, <4>2, <5>1, <5>2, <5>3, <5>4, <5>5
      <4> QED
        BY <1>4, <4>3, <4>4
    <3>3. CASE x # e
      <4>1. Creating(x)' = Creating(x)
        BY <2>1, <2>2, <3>3 DEF Creating, MovesOnly
      <4>2. Cardinality(OfEmail(x)) + Cardinality(Creating(x))
              <= Cardinality(Requests) + Failures("lookup")
        BY DEF IInv, WorkspacesBound, Creating, At
      <4>3. IsFiniteSet(OfEmail(x)) /\ IsFiniteSet(Creating(x)) /\ Cardinality(Requests) \in Nat
        <5>1. Creating(x) \in SUBSET Requests
          BY DEF Creating
        <5> QED
          BY <2>3, <5>1, Finite
      <4> QED
        BY <3>0, <3>1, <4>1, <4>2, <4>3, BothWithin
    <3> QED
      BY <3>2, <3>3
  <2> QED
    BY <2>3, <2>4, <2>7, <2>8, <2>9 DEF IInv
<1> QED
  BY <1>1, <1>3, <1>4

ThreeSet(f, r, w, m, n) == [f EXCEPT ![r].ws = w, ![r].mem = m, ![r].value = n]

LEMMA ThreeLocals ==
  ASSUME NEW f \in [Requests -> ReqRec], NEW r \in Requests, NEW w \in WsIds, NEW m \in MemIds,
         NEW n \in Names, NEW g, g = ThreeSet(f, r, w, m, n)
  PROVE  /\ g \in [Requests -> ReqRec] /\ \A q \in Requests \ {r} : g[q] = f[q]
         /\ g[r].ws = w /\ g[r].mem = m /\ g[r].value = n /\ g[r].email = f[r].email
         /\ g[r].device = f[r].device
<1>1. PICK x : x = f[r] /\ x \in ReqRec
  OBVIOUS
<1>2. PICK y : y = [x EXCEPT !.ws = w, !.mem = m, !.value = n]
  OBVIOUS
<1>3. y \in ReqRec /\ y.ws = w /\ y.mem = m /\ y.value = n /\ y.email = x.email
      /\ y.device = x.device
  BY <1>1, <1>2 DEF ReqRec
<1>4. g[r] = y
  BY <1>1, <1>2 DEF ThreeSet
<1>5. g \in [Requests -> ReqRec]
  <2>1. g = [f EXCEPT ![r] = y]
    BY <1>1, <1>2 DEF ThreeSet
  <2> QED
    BY <1>3, <2>1
<1>6. \A q \in Requests \ {r} : g[q] = f[q]
  BY DEF ThreeSet
<1> QED
  BY <1>1, <1>3, <1>4, <1>5, <1>6

LEMMA InsertWorkspaceKept ==
  ASSUME ConstantsAssumption, IInv, NEW r \in Requests, InsertWorkspace(r)
  PROVE  IInv'
<1>1. PICK w, m, n, e, doc :
        /\ w \in WsIds \ DOMAIN ws /\ m \in MemIds \ MemIdsUsed /\ n \in Names /\ e = req[r].email
        /\ doc = [email |-> e, verified |-> FALSE, superMember |-> m, name |-> n,
                  workspacename |-> None]
        /\ ws' = CreateOne(ws, w, doc)
        /\ req' = [req EXCEPT ![r].ws = w, ![r].mem = m, ![r].value = n]
  BY DEF InsertWorkspace, Fresh
<1>2. pc[r] = "insertWs" /\ e \in Emails /\ req[r].device \in Devices /\ Typed
  BY <1>1 DEF IInv, ReqInv, ReqOK, InsertWorkspace, At
<1>3. /\ pc' \in [Requests -> PCs] /\ pc'[r] = "insertMember"
      /\ \A q \in Requests \ {r} : pc'[q] = pc[q]
  BY <1>2, Places DEF InsertWorkspace, PCs
<1>4. /\ req' \in [Requests -> ReqRec]
      /\ \A q \in Requests \ {r} : req'[q] = req[q]
      /\ req'[r].ws = w /\ req'[r].mem = m /\ req'[r].value = n /\ req'[r].email = e
      /\ req'[r].device = req[r].device
  <2>1. req' = ThreeSet(req, r, w, m, n) /\ req \in [Requests -> ReqRec]
    BY <1>1, <1>2 DEF ThreeSet, Typed
  <2>2. w \in WsIds /\ m \in MemIds /\ n \in Names /\ e = req[r].email
    BY <1>1
  <2> QED
    BY <2>1, <2>2, ThreeLocals
<1>5. MovesOnly(r)
  BY <1>3, <1>4 DEF MovesOnly
<1>6. /\ DOMAIN ws' = DOMAIN ws \cup {w} /\ ws'[w] = doc
      /\ \A x \in DOMAIN ws : ws'[x] = ws[x]
      /\ doc \in WsDoc /\ doc.email = e /\ doc.superMember = m /\ ~doc.verified
  BY <1>1, <1>2 DEF CreateOne, WsDoc
<1>7. ws' \in [DOMAIN ws' -> WsDoc] /\ DOMAIN ws' \subseteq WsIds
  BY <1>1, <1>2, <1>6 DEF CreateOne, Typed, TypeOK
<1>8. Typed'
  BY <1>2, <1>3, <1>4, <1>7, TypedLater DEF InsertWorkspace, ghosts
<1>9. Grow
  BY <1>6 DEF InsertWorkspace, ghosts, Grow, WsGrow, MemGrow, InvGrow, SameMember
<1>10. ReqInv'
  <2>1. ReqOK(pc[r], req[r])'
    BY <1>1, <1>2, <1>3, <1>4, <1>6 DEF ReqOK
  <2> QED
    BY <1>5, <1>9, <2>1, ReqKept DEF IInv
<1>11. /\ m \notin DOMAIN mem /\ \A x \in DOMAIN ws : ws[x].superMember # m
  BY <1>1 DEF MemIdsUsed
<1>12. UNCHANGED <<mem, inv, task, session, seen, faults>>
  BY DEF InsertWorkspace
<1>13. SuperInv'
  <2>1. (\A x, y \in DOMAIN ws : ws[x].superMember = ws[y].superMember => x = y)'
    BY <1>6, <1>11 DEF IInv, SuperInv
  <2>2. (\A q \in Requests : At(q, "insertMember") => req[q].mem \notin DOMAIN mem)'
    BY <1>4, <1>5, <1>11, <1>12 DEF IInv, SuperInv, MovesOnly, At
  <2>3. (\A q, p \in Requests :
           At(q, "insertMember") /\ At(p, "insertMember") /\ req[q].ws = req[p].ws => q = p)'
    <3>1. \A q \in Requests \ {r} : pc'[q] = "insertMember" => req'[q].ws # w
      <4> SUFFICES ASSUME NEW q \in Requests \ {r}, pc'[q] = "insertMember"
                   PROVE  req'[q].ws # w
        OBVIOUS
      <4>1. pc[q] = "insertMember" /\ req'[q] = req[q]
        BY <1>5 DEF MovesOnly
      <4>2. req[q].ws \in DOMAIN ws
        BY <4>1 DEF IInv, ReqInv, ReqOK
      <4> QED
        BY <1>1, <4>1, <4>2
    <3> QED
      BY <1>4, <1>5, <3>1 DEF IInv, SuperInv, MovesOnly, At
  <2>4. (\A x \in DOMAIN ws : ws[x].superMember \in DOMAIN mem =>
           LET k == mem[ws[x].superMember] IN k.email = ws[x].email /\ k.ws = x)'
    BY <1>6, <1>11, <1>12 DEF IInv, SuperInv
  <2>5. (\A k \in DOMAIN mem :
           /\ mem[k].ws \in DOMAIN ws
           /\ mem[k].email # None => LET x == ws[mem[k].ws] IN
                                     x.email = mem[k].email /\ x.superMember = k)'
    BY <1>6, <1>12 DEF IInv, SuperInv
  <2>6. SuperMemberExists'
    BY <1>2, <1>3, <1>4, <1>5, <1>6, <1>12
       DEF IInv, SuperInv, SuperMemberExists, At, MovesOnly
  <2> QED
    BY <2>1, <2>2, <2>3, <2>4, <2>5, <2>6, Zenon DEF SuperInv
<1>14. SessionInv'
  BY <1>2, <1>8, <1>9, <1>12, SessionKept DEF IInv
<1>15. VerInv'
  <2>1. NoneLeaves({"findMember", "setMember"})
    BY <1>2, <1>5 DEF NoneLeaves, MovesOnly
  <2>2. \A x \in DOMAIN ws' : ws'[x].verified => x \in DOMAIN ws /\ ws[x].verified
    BY <1>6
  <2> QED
    BY <1>2, <1>8, <1>9, <1>12, <2>1, <2>2, VerKept DEF IInv
<1>16. DevicesWereUsed' /\ TaskInv'
  BY <1>2, <1>9, <1>12, DevKept, TaskKept DEF IInv
<1>17. InviteInv'
  <2>1. NoneEnters({"accept", "createUser", "addMember"}) /\ NoneLeaves({"createUser", "addMember"})
    BY <1>2, <1>3, <1>5 DEF NoneLeaves, NoneEnters, MovesOnly
  <2> QED
    BY <1>2, <1>9, <1>12, <2>1, InviteKept DEF IInv
<1>18. WorkspacesBound'
  <2>0. Failures("lookup")' = Failures("lookup")
    BY DEF InsertWorkspace, Failures
  <2> SUFFICES ASSUME NEW x \in Emails
               PROVE  Cardinality(OfEmail(x)') + Cardinality(Creating(x)')
                        <= Cardinality(Requests) + Failures("lookup")
    BY <2>0 DEF WorkspacesBound, Creating, At
  <2>1. Cardinality(OfEmail(x)) + Cardinality(Creating(x))
          <= Cardinality(Requests) + Failures("lookup")
    BY DEF IInv, WorkspacesBound, Creating, At
  <2>2. IsFiniteSet(OfEmail(x)) /\ IsFiniteSet(Creating(x))
        /\ Cardinality(Requests) + Failures("lookup") \in Nat
    <3>1. Creating(x) \in SUBSET Requests
      BY DEF Creating
    <3> QED
      BY <1>2, <3>1, Finite DEF Failures
  <2>3. OfEmail(x)' = {y \in DOMAIN ws' : ws'[y].email = x}
    BY DEF OfEmail, Matching, Match
  <2>4. OfEmail(x) = {y \in DOMAIN ws : ws[y].email = x}
    BY AddressesOf
  <2>5. CASE x = e
    <3>1. OfEmail(x)' = OfEmail(x) \cup {w}
      BY <1>6, <2>3, <2>4, <2>5
    <3>2. Creating(x)' = Creating(x) \ {r} /\ r \in Creating(x)
      BY <1>1, <1>2, <1>3, <1>5, <2>5 DEF Creating, MovesOnly
    <3> QED
      BY <2>1, <2>2, <3>1, <3>2, OneMoves
  <2>6. CASE x # e
    <3>1. OfEmail(x)' = OfEmail(x)
      BY <1>6, <2>3, <2>4, <2>6
    <3>2. Creating(x)' = Creating(x)
      BY <1>1, <1>3, <1>5, <2>6 DEF Creating, MovesOnly
    <3> QED
      BY <2>1, <3>1, <3>2
  <2> QED
    BY <2>5, <2>6
<1> QED
  BY <1>8, <1>10, <1>13, <1>14, <1>15, <1>16, <1>17, <1>18 DEF IInv

\* The insert of the super member.
LEMMA InsertMemberKept ==
  ASSUME ConstantsAssumption, IInv, NEW r \in Requests, InsertMember(r)
  PROVE  IInv'
<1>1. CASE Fault("insert") /\ Finish(r) /\ UNCHANGED <<mem, seen>>
  <2>1. /\ pc' \in [Requests -> PCs] /\ req' \in [Requests -> ReqRec]
        /\ MovesOnly(r) /\ pc'[r] = "idle" /\ ReqOK(pc[r], req[r])'
    BY <1>1, Finished DEF IInv
  <2>2. "insert" \in faults' /\ faults \subseteq faults' /\ faults' \in MayFail
    BY <1>1 DEF Fault
  <2>3. Typed'
    BY <1>1, <2>1, <2>2, TypedLater DEF IInv, InsertMember, docs, ghosts
  <2>4. Calm
    BY <1>1, <2>2, CalmDocs DEF InsertMember, ghosts, docs
  <2>5. SessionInv'
    BY <2>3, <2>4, SessionKept DEF Calm, IInv, InsertMember
  <2>6. pc[r] = "insertMember"
    BY DEF InsertMember, At
  <2> QED
    BY <2>1, <2>2, <2>3, <2>4, <2>5, <2>6, CalmStep
<1>2. CASE ~(Fault("insert") /\ Finish(r) /\ UNCHANGED <<mem, seen>>)
  <2>1. PICK e, w, m, d, n, p, doc :
          /\ e = req[r].email /\ w = req[r].ws /\ m = req[r].mem /\ d = req[r].device
          /\ n = req[r].value /\ p \in Passwords
          /\ doc = [email |-> e, ws |-> w, name |-> n, verified |-> FALSE, password |-> p,
                    devices |-> <<d>>, invite |-> NoDoc]
          /\ mem' = CreateOne(mem, m, doc) /\ seen' = seen \cup {<<e, d>>}
    BY <1>2 DEF InsertMember
  <2>2. /\ pc[r] = "insertMember" /\ Typed /\ e \in Emails /\ d \in Devices /\ n \in Names
        /\ w \in DOMAIN ws /\ ws[w].superMember = m /\ ws[w].email = e
        /\ UNCHANGED <<ws, inv, task, session, mailed, early, faults>>
    BY <1>2, <2>1 DEF IInv, ReqInv, ReqOK, InsertMember, At, ghosts, NoFault
  <2>3. /\ pc' \in [Requests -> PCs] /\ req' \in [Requests -> ReqRec]
        /\ MovesOnly(r) /\ pc'[r] = "sendCode" /\ req'[r] = req[r]
    BY <1>2, <2>2, Stayed DEF InsertMember, PCs
  <2>4. w \in WsIds /\ m \in MemIds /\ m \notin DOMAIN mem
    BY <2>1, <2>2 DEF Typed, TypeOK, WsDoc, IInv, SuperInv, At
  <2>5. doc \in MemDoc
    <3>1. <<d>> \in DeviceLists
      <4>1. <<d>> \in Seq(Devices) /\ Len(<<d>>) <= MaxDevices
        BY <2>2 DEF ConstantsAssumption
      <4> QED
        BY <4>1, ListTypes
    <3> QED
      BY <2>1, <2>2, <2>4, <3>1 DEF MemDoc, DeviceLists
  <2>6. /\ DOMAIN mem' = DOMAIN mem \cup {m} /\ mem'[m] = doc
        /\ \A x \in DOMAIN mem : mem'[x] = mem[x]
        /\ doc.email = e /\ doc.ws = w /\ ~doc.verified /\ doc.devices = <<d>> /\ doc.invite = NoDoc
    BY <2>1, <2>4 DEF CreateOne
  <2>7. mem' \in [DOMAIN mem' -> MemDoc] /\ DOMAIN mem' \subseteq MemIds
    BY <2>1, <2>2, <2>4, <2>5, <2>6 DEF CreateOne, Typed, TypeOK
  <2>8. Typed'
    <3>1. seen' \subseteq Emails \X Devices
      BY <2>1, <2>2 DEF Typed, TypeOK
    <3> QED
      BY <2>2, <2>3, <2>7, <3>1, TypedLater DEF InsertMember
  <2>9. Grow
    BY <2>1, <2>2, <2>6 DEF Grow, WsGrow, MemGrow, InvGrow, SameMember
  <2>10. ReqInv'
    <3>1. ReqOK(pc[r], req[r])'
      BY <2>1, <2>2, <2>3 DEF ReqOK
    <3> QED
      BY <2>3, <2>9, <3>1, ReqKept DEF IInv
  <2>11. SuperInv'
    <3>1. (\A x, y \in DOMAIN ws : ws[x].superMember = ws[y].superMember => x = y)'
      BY <2>2 DEF IInv, SuperInv
    <3>2. (\A q \in Requests : At(q, "insertMember") => req[q].mem \notin DOMAIN mem)'
      <4> SUFFICES ASSUME NEW q \in Requests, pc'[q] = "insertMember"
                   PROVE  req'[q].mem \notin DOMAIN mem'
        BY DEF At
      <4>1. q # r /\ pc[q] = "insertMember" /\ req'[q] = req[q]
        BY <2>3 DEF MovesOnly
      <4>2. req[q].mem \notin DOMAIN mem
        BY <4>1 DEF IInv, SuperInv, At
      <4>3. req[q].mem # m
        <5>1. req[q].ws \in DOMAIN ws /\ ws[req[q].ws].superMember = req[q].mem
          BY <4>1 DEF IInv, ReqInv, ReqOK
        <5>2. req[q].ws # w
          BY <2>1, <2>2, <4>1 DEF IInv, SuperInv, At
        <5> QED
          BY <2>2, <5>1, <5>2 DEF IInv, SuperInv
      <4> QED
        BY <2>6, <4>1, <4>2, <4>3
    <3>3. (\A q, p2 \in Requests :
             At(q, "insertMember") /\ At(p2, "insertMember") /\ req[q].ws = req[p2].ws => q = p2)'
      BY <2>3 DEF IInv, SuperInv, MovesOnly, At
    <3>4. (\A x \in DOMAIN ws : ws[x].superMember \in DOMAIN mem =>
             LET k == mem[ws[x].superMember] IN k.email = ws[x].email /\ k.ws = x)'
      <4> SUFFICES ASSUME NEW x \in DOMAIN ws, ws[x].superMember \in DOMAIN mem'
                   PROVE  mem'[ws[x].superMember].email = ws[x].email
                          /\ mem'[ws[x].superMember].ws = x
        BY <2>2
      <4>1. CASE ws[x].superMember = m
        <5>1. x = w
          BY <2>2, <4>1 DEF IInv, SuperInv
        <5> QED
          BY <2>2, <2>6, <4>1, <5>1
      <4>2. CASE ws[x].superMember # m
        BY <2>6, <4>2 DEF IInv, SuperInv
      <4> QED
        BY <4>1, <4>2
    <3>5. (\A k \in DOMAIN mem :
             /\ mem[k].ws \in DOMAIN ws
             /\ mem[k].email # None => LET x == ws[mem[k].ws] IN
                                       x.email = mem[k].email /\ x.superMember = k)'
      BY <2>2, <2>6 DEF IInv, SuperInv
    <3>6. SuperMemberExists'
      <4> SUFFICES ASSUME NEW x \in DOMAIN ws, faults \cap {"insert", "died"} = {}
                   PROVE  \/ ws[x].superMember \in DOMAIN mem' /\ mem'[ws[x].superMember].ws = x
                          \/ \E q \in Requests : pc'[q] = "insertMember" /\ req'[q].ws = x
        BY <2>2 DEF SuperMemberExists, At
      <4>1. \/ ws[x].superMember \in DOMAIN mem /\ mem[ws[x].superMember].ws = x
            \/ \E q \in Requests : pc[q] = "insertMember" /\ req[q].ws = x
        BY DEF IInv, SuperInv, SuperMemberExists, At
      <4>2. CASE x = w
        BY <2>2, <2>6, <4>2
      <4>3. CASE x # w
        BY <2>1, <2>3, <2>6, <4>1, <4>3 DEF MovesOnly
      <4> QED
        BY <4>2, <4>3
    <3> QED
      BY <3>1, <3>2, <3>3, <3>4, <3>5, <3>6, Zenon DEF SuperInv
  <2>12. SessionInv'
    BY <2>2, <2>8, <2>9, SessionKept DEF IInv
  <2>13. VerInv'
    <3>1. NoneLeaves({"findMember", "setMember"})
      BY <2>2, <2>3 DEF NoneLeaves, MovesOnly
    <3>2. \A x \in DOMAIN mem' : mem'[x].verified => x \in DOMAIN mem /\ mem[x].verified
      BY <2>6
    <3> QED
      BY <2>2, <2>8, <2>9, <3>1, <3>2, VerKept DEF IInv
  <2>14. DevicesWereUsed'
    <3> SUFFICES ASSUME NEW x \in DOMAIN mem', NEW i \in DOMAIN mem'[x].devices
                 PROVE  <<mem'[x].email, mem'[x].devices[i]>> \in seen'
      BY DEF DevicesWereUsed
    <3>1. CASE x = m
      <4>1. i = 1 /\ mem'[x].devices[1] = d
        BY <2>6, <3>1
      <4> QED
        BY <2>1, <2>6, <3>1, <4>1
    <3>2. CASE x # m
      BY <2>1, <2>6, <3>2 DEF IInv, DevicesWereUsed
    <3> QED
      BY <3>1, <3>2
  <2>15. WorkspacesBound'
    <3>1. NoneEnters({"insertWs"})
      BY <2>3 DEF NoneEnters, MovesOnly
    <3> QED
      BY <2>2, <2>9, <3>1, BoundKept DEF IInv
  <2>16. TaskInv'
    BY <2>2, <2>9, TaskKept DEF IInv
  <2>17. InviteInv'
    <3>1. NoneEnters({"accept", "createUser", "addMember"}) /\ NoneLeaves({"createUser", "addMember"})
      BY <2>2, <2>3 DEF NoneLeaves, NoneEnters, MovesOnly
    <3>2. \A x \in DOMAIN mem' \ DOMAIN mem : mem'[x].invite = NoDoc
      BY <2>6
    <3> QED
      BY <2>2, <2>9, <3>1, <3>2, InviteKept DEF IInv
  <2> QED
    BY <2>8, <2>10, <2>11, <2>12, <2>13, <2>14, <2>15, <2>16, <2>17 DEF IInv
<1> QED
  BY <1>1, <1>2

-------------------------------------------------------------------------------
\* VerifyWorkspaceAccount, and the login, by the address.
LEMMA SetWorkspaceVerifiedKept ==
  ASSUME ConstantsAssumption, IInv, NEW r \in Requests, SetWorkspaceVerified(r)
  PROVE  IInv'
<1>1. PICK e, payload : e = req[r].email /\ payload = [verified |-> TRUE]
  OBVIOUS
<1>2. ws' = [x \in DOMAIN ws |-> IF ws[x].email = e THEN Set(ws[x], payload) ELSE ws[x]]
  BY <1>1 DEF SetWorkspaceVerified, UpdatePartialByFilter, Match
<1>3. /\ pc[r] = "setWs" /\ Typed /\ e \in Emails /\ req[r].device \in Devices
      /\ req[r].ws \in DOMAIN ws /\ ws[req[r].ws].email = e
      /\ UNCHANGED <<mem, inv, task, session, mailed, early, seen, faults>>
  BY <1>1 DEF IInv, ReqInv, ReqOK, SetWorkspaceVerified, At, ghosts
<1>4. /\ pc' \in [Requests -> PCs] /\ req' \in [Requests -> ReqRec]
      /\ MovesOnly(r) /\ pc'[r] = "findMember" /\ req'[r] = req[r]
  BY <1>3, Stayed DEF SetWorkspaceVerified, PCs
<1>5. \A x \in DOMAIN ws : LET new == Set(ws[x], payload) IN
        new \in WsDoc /\ new.email = ws[x].email /\ new.superMember = ws[x].superMember
        /\ new.verified = TRUE
  <2>1. \A x \in DOMAIN ws : ws[x] \in WsDoc
    BY <1>3 DEF Typed, TypeOK
  <2> QED
    BY <1>1, <2>1, SetWsVerified
<1>6. /\ DOMAIN ws' = DOMAIN ws /\ DOMAIN ws' \subseteq WsIds /\ ws' \in [DOMAIN ws' -> WsDoc]
      /\ \A x \in DOMAIN ws : /\ ws'[x].email = ws[x].email
                              /\ ws'[x].superMember = ws[x].superMember
                              /\ ws'[x].verified = (ws[x].email = e \/ ws[x].verified)
  <2>1. \A x \in DOMAIN ws : ws[x] \in WsDoc /\ ws[x].verified \in BOOLEAN
    BY <1>3 DEF Typed, TypeOK, WsDoc
  <2>2. DOMAIN ws \subseteq WsIds
    BY <1>3 DEF Typed, TypeOK
  <2> QED
    BY <1>2, <1>5, <2>1, <2>2
<1>7. Typed'
  BY <1>3, <1>4, <1>6, TypedLater DEF SetWorkspaceVerified
<1>8. Grow
  BY <1>3, <1>6 DEF Grow, WsGrow, MemGrow, InvGrow, SameMember
<1>9. ReqInv'
  <2>1. ReqOK(pc[r], req[r])'
    BY <1>1, <1>3, <1>4, <1>6 DEF ReqOK
  <2> QED
    BY <1>4, <1>8, <2>1, ReqKept DEF IInv
<1>10. /\ NoneEnters({"insertMember"}) /\ NoneEnters({"insertWs"})
       /\ NoneEnters({"accept", "createUser", "addMember"})
       /\ NoneLeaves({"insertMember"}) /\ NoneLeaves({"createUser", "addMember"})
  BY <1>3, <1>4 DEF MovesOnly, NoneEnters, NoneLeaves
<1>11. SuperInv' /\ SessionInv' /\ DevicesWereUsed'
  BY <1>3, <1>6, <1>7, <1>8, <1>10, SuperKept, SessionKept, DevKept DEF IInv
<1>12. WorkspacesBound' /\ TaskInv' /\ InviteInv'
  BY <1>3, <1>6, <1>8, <1>10, BoundKept, TaskKept, InviteKept DEF IInv
<1>13. VerInv'
  <2>1. (\A w \in DOMAIN ws : ws[w].verified =>
           LET m == ws[w].superMember  x == ws[w].email IN
           \/ m \in DOMAIN mem /\ mem[m].verified
           \/ Two(x) \/ Unlucky \/ x \in early
           \/ \E q \in Requests : pc[q] \in {"findMember", "setMember"} /\ req[q].email = x)'
    <3> SUFFICES ASSUME NEW w \in DOMAIN ws, ws'[w].verified
                 PROVE  \/ ws'[w].superMember \in DOMAIN mem' /\ mem'[ws'[w].superMember].verified
                        \/ \E x : x = ws'[w].email /\ Two(x)'
                        \/ Unlucky' \/ ws'[w].email \in early'
                        \/ \E q \in Requests : pc'[q] \in {"findMember", "setMember"}
                                               /\ req'[q].email = ws'[w].email
      BY <1>6
    <3>1. CASE ws[w].email = e
      BY <1>1, <1>4, <1>6, <3>1
    <3>2. CASE ws[w].email # e
      <4>1. PICK x, m : x = ws[w].email /\ m = ws[w].superMember
        OBVIOUS
      <4>2. ws[w].verified /\ ws'[w].email = x /\ ws'[w].superMember = m
        BY <1>6, <3>2, <4>1
      <4>3. \/ m \in DOMAIN mem /\ mem[m].verified
            \/ Two(x) \/ Unlucky \/ x \in early
            \/ \E q \in Requests : pc[q] \in {"findMember", "setMember"} /\ req[q].email = x
        BY <4>1, <4>2 DEF IInv, VerInv
      <4>4. Two(x) => Two(x)'
        BY <1>3, <1>7, <1>8, TwoKept DEF Grow
      <4>5. CASE \E q \in Requests : pc[q] \in {"findMember", "setMember"} /\ req[q].email = x
        BY <1>3, <1>4, <4>2, <4>5 DEF MovesOnly
      <4> QED
        BY <1>3, <4>2, <4>3, <4>4, <4>5 DEF Unlucky
    <3> QED
      BY <3>1, <3>2
  <2>2. (\A m \in DOMAIN mem : mem[m].verified =>
           \E w \in DOMAIN ws : ws[w].email = mem[m].email /\ ws[w].verified)'
    BY <1>3, <1>8 DEF Grow, WsGrow, IInv, VerInv
  <2> QED
    BY <2>1, <2>2, Zenon DEF VerInv
<1> QED
  BY <1>7, <1>9, <1>11, <1>12, <1>13 DEF IInv

\* One local changes.
DevicesSet(f, r, l) == [f EXCEPT ![r].devices = l]

LEMMA OneLocal ==
  ASSUME NEW f \in [Requests -> ReqRec], NEW r \in Requests, NEW l \in Seq(Devices),
         NEW g, g = DevicesSet(f, r, l)
  PROVE  /\ g \in [Requests -> ReqRec] /\ \A q \in Requests \ {r} : g[q] = f[q]
         /\ g[r].devices = l /\ g[r].email = f[r].email /\ g[r].device = f[r].device
         /\ g[r].ws = f[r].ws
<1>1. PICK x : x = f[r] /\ x \in ReqRec
  OBVIOUS
<1>2. PICK y : y = [x EXCEPT !.devices = l]
  OBVIOUS
<1>3. y \in ReqRec /\ y.devices = l /\ y.email = x.email /\ y.device = x.device /\ y.ws = x.ws
  BY <1>1, <1>2 DEF ReqRec
<1>4. g[r] = y /\ g = [f EXCEPT ![r] = y]
  BY <1>1, <1>2 DEF DevicesSet
<1>5. g \in [Requests -> ReqRec] /\ \A q \in Requests \ {r} : g[q] = f[q]
  BY <1>3, <1>4
<1> QED
  BY <1>1, <1>3, <1>4, <1>5

\* A verified workspace is matched by its super member, or excused.
Excused(w) ==
  \/ ws[w].superMember \in DOMAIN mem /\ mem[ws[w].superMember].verified
  \/ Two(ws[w].email) \/ Unlucky \/ ws[w].email \in early
Verifying(e) == \E q \in Requests : pc[q] \in {"findMember", "setMember"} /\ req[q].email = e

LEMMA VerOfExcused ==
  VerInv <=> /\ \A w \in DOMAIN ws : ws[w].verified => Excused(w) \/ Verifying(ws[w].email)
             /\ \A m \in DOMAIN mem : mem[m].verified =>
                  \E w \in DOMAIN ws : ws[w].email = mem[m].email /\ ws[w].verified
BY DEF VerInv, Excused, Verifying

LEMMA FindSuperAdminKept ==
  ASSUME ConstantsAssumption, IInv, NEW r \in Requests, FindSuperAdmin(r)
  PROVE  IInv'
<1>0. CASE Fault("lookup") /\ Finish(r) /\ UNCHANGED early
  BY <1>0, LostEnds DEF FindSuperAdmin, At, ghosts
<1> SUFFICES ASSUME NoFault PROVE IInv'
  BY <1>0 DEF FindSuperAdmin
<1>1. PICK e, d : e = req[r].email /\ d = req[r].device
  OBVIOUS
<1>2. /\ pc[r] = "findMember" /\ Typed /\ e \in Emails /\ d \in Devices
      /\ req[r].ws \in DOMAIN ws /\ ws[req[r].ws].email = e /\ ws[req[r].ws].verified
      /\ UNCHANGED <<ws, mem, inv, codes, task, session, mailed, seen, faults>>
  BY <1>1 DEF IInv, ReqInv, ReqOK, FindSuperAdmin, NoFault, At, docs
<1>3. NoDoc \notin DOMAIN mem
  BY <1>2, Finite
<1>4. /\ pc' \in [Requests -> PCs] /\ req' \in [Requests -> ReqRec]
      /\ MovesOnly(r) /\ ReqOK(pc[r], req[r])'
      /\ \/ pc'[r] = "idle" /\ early' = early \cup {e}
         \/ pc'[r] = "setMember" /\ req'[r].email = e /\ early' = early
  <2>1. CASE Finish(r) /\ early' = early \cup {req[r].email}
    BY <1>1, <1>2, <2>1, Finished
  <2>2. CASE ~(Finish(r) /\ early' = early \cup {req[r].email})
    <3>1. PICK m, l :
            /\ m \in DOMAIN mem /\ mem[m].email = e /\ l = WithDevice(mem[m].devices, d)
            /\ Goto(r, "setMember") /\ early' = early
            /\ req' = DevicesSet(req, r, l)
      <4>1. PICK m \in FindOneByFilter(mem, [email |-> e]) :
              /\ m # NoDoc /\ Goto(r, "setMember") /\ early' = early
              /\ req' = [req EXCEPT ![r].devices = WithDevice(mem[m].devices, d)]
        BY <1>1, <2>2 DEF FindSuperAdmin, NoFault, Fault
      <4>2. m \in DOMAIN mem /\ mem[m].email = e
        BY <4>1, OfAddress
      <4> QED
        BY <4>1, <4>2 DEF DevicesSet
    <3>2. /\ l \in Seq(Devices)
          /\ \A i \in DOMAIN l : l[i] = d \/ <<e, l[i]>> \in seen
      BY <1>2, <3>1, ListOfMember
    <3>3. /\ req' \in [Requests -> ReqRec] /\ \A q \in Requests \ {r} : req'[q] = req[q]
          /\ req'[r].devices = l /\ req'[r].email = e /\ req'[r].device = d
          /\ req'[r].ws = req[r].ws
      BY <1>1, <1>2, <3>1, <3>2, OneLocal DEF Typed
    <3>4. /\ pc' \in [Requests -> PCs] /\ pc'[r] = "setMember"
          /\ \A q \in Requests \ {r} : pc'[q] = pc[q]
      BY <1>2, <3>1, Places DEF PCs
    <3>5. MovesOnly(r)
      BY <3>3, <3>4 DEF MovesOnly
    <3>6. ReqOK(pc[r], req[r])'
      BY <1>2, <3>1, <3>2, <3>3, <3>4 DEF ReqOK
    <3> QED
      BY <3>1, <3>3, <3>4, <3>5, <3>6
  <2> QED
    BY <2>1, <2>2
<1>5. Typed'
  <2>1. early' \subseteq Emails
    BY <1>2, <1>4 DEF Typed, TypeOK
  <2> QED
    BY <1>2, <1>4, <2>1, TypedLater
<1>6. Calm
  BY <1>2, <1>4, CalmDocs DEF docs
<1>7. /\ NoneEnters({"insertMember"}) /\ NoneEnters({"insertWs"})
      /\ NoneEnters({"accept", "createUser", "addMember"})
      /\ NoneLeaves({"insertMember"}) /\ NoneLeaves({"createUser", "addMember"})
  BY <1>2, <1>4 DEF MovesOnly, NoneEnters, NoneLeaves
<1>8. ReqInv'
  BY <1>4, <1>6, ReqKept DEF Calm, IInv
<1>9. SuperInv' /\ SessionInv' /\ DevicesWereUsed'
  BY <1>2, <1>5, <1>6, <1>7, SuperKept, SessionKept, DevKept DEF Calm, IInv
<1>10. WorkspacesBound' /\ TaskInv' /\ InviteInv'
  BY <1>2, <1>6, <1>7, BoundKept, TaskKept, InviteKept DEF Calm, IInv
<1>11. VerInv'
  <2>1. (\A w \in DOMAIN ws : ws[w].verified => Excused(w) \/ Verifying(ws[w].email))'
    <3> SUFFICES ASSUME NEW w \in DOMAIN ws, ws[w].verified
                 PROVE  Excused(w)' \/ Verifying(ws[w].email)'
      BY <1>2
    <3>1. Excused(w) \/ Verifying(ws[w].email)
      BY VerOfExcused DEF IInv
    <3>2. CASE Excused(w)
      BY <1>2, <1>4, <3>2 DEF Excused, Unlucky, Two, OfEmail
    <3>3. CASE Verifying(ws[w].email)
      <4>1. PICK q \in Requests : pc[q] \in {"findMember", "setMember"} /\ req[q].email = ws[w].email
        BY <3>3 DEF Verifying
      <4>2. CASE q = r
        BY <1>1, <1>2, <1>4, <4>1, <4>2 DEF Verifying, Excused
      <4>3. CASE q # r
        BY <1>2, <1>4, <4>1, <4>3 DEF Verifying, MovesOnly
      <4> QED
        BY <4>2, <4>3
    <3> QED
      BY <3>1, <3>2, <3>3
  <2>2. (\A m \in DOMAIN mem : mem[m].verified =>
           \E w \in DOMAIN ws : ws[w].email = mem[m].email /\ ws[w].verified)'
    BY <1>2 DEF IInv, VerInv
  <2> QED
    BY <2>1, <2>2 DEF VerInv, Excused, Verifying
<1> QED
  BY <1>5, <1>8, <1>9, <1>10, <1>11 DEF IInv

\* The list that was read is written to every member of the address.
WritesList(r, T, payload) ==
  /\ pc[r] \in {"setMember", "setDevices"} /\ Len(req[r].devices) <= MaxDevices
  /\ T = {m \in DOMAIN mem : mem[m].email = req[r].email}
  /\ payload \in {[verified |-> TRUE, devices |-> req[r].devices], [devices |-> req[r].devices]}
  /\ mem' = [m \in DOMAIN mem |-> IF m \in T THEN Set(mem[m], payload) ELSE mem[m]]
  /\ seen' = seen \cup {<<req[r].email, req[r].device>>}

LEMMA ListWritten ==
  ASSUME ConstantsAssumption, IInv, NEW r \in Requests, NEW T, NEW payload,
         WritesList(r, T, payload)
  PROVE  /\ mem' \in [DOMAIN mem' -> MemDoc] /\ DOMAIN mem' = DOMAIN mem
         /\ DOMAIN mem' \subseteq MemIds /\ MemGrow /\ DevicesWereUsed'
         /\ seen' \subseteq Emails \X Devices
         /\ \A m \in DOMAIN mem \ T : mem'[m] = mem[m]
         /\ \A m \in T : /\ mem'[m].password = mem[m].password
                         /\ mem'[m].verified =
                              Given(payload, "verified", mem[m].verified)
<1>1. PICK e, d, l : e = req[r].email /\ d = req[r].device /\ l = req[r].devices
  OBVIOUS
<1>2. /\ e \in Emails /\ d \in Devices
      /\ \A i \in DOMAIN l : l[i] = d \/ <<e, l[i]>> \in seen
  BY <1>1 DEF IInv, ReqInv, ReqOK, WritesList
<1>3. l \in DeviceLists
  <2>1. l \in Seq(Devices)
    BY <1>1 DEF IInv, Typed, ReqRec
  <2> QED
    BY <1>1, <2>1, ListTypes DEF WritesList
<1>4. \A m \in DOMAIN mem : mem[m] \in MemDoc
  BY DEF IInv, Typed, TypeOK
<1>5. \A m \in DOMAIN mem : LET new == Set(mem[m], payload) IN
        /\ new \in MemDoc /\ SameMember(new, mem[m]) /\ new.password = mem[m].password
        /\ new.devices = l /\ new.verified = Given(payload, "verified", mem[m].verified)
        /\ (mem[m].verified => new.verified)
  <2>1. CASE payload = [verified |-> TRUE, devices |-> l]
    <3>1. \A x : Given(payload, "verified", x) = TRUE
      BY <2>1 DEF Given
    <3> QED
      BY <1>3, <1>4, <2>1, <3>1, SetMemVerified
  <2>2. CASE payload = [devices |-> l]
    <3>1. \A x : Given(payload, "verified", x) = x
      BY <2>2 DEF Given
    <3> QED
      BY <1>3, <1>4, <2>2, <3>1, SetMemDevices
  <2> QED
    BY <1>1, <2>1, <2>2 DEF WritesList
<1>6. mem' \in [DOMAIN mem' -> MemDoc] /\ DOMAIN mem' = DOMAIN mem /\ MemGrow
      /\ DOMAIN mem' \subseteq MemIds
  <2>1. T \in SUBSET DOMAIN mem
    BY DEF WritesList
  <2>2. \A i \in T : LET new == Set(mem[i], payload) IN
                     new \in MemDoc /\ SameMember(new, mem[i]) /\ (mem[i].verified => new.verified)
    BY <1>5, <2>1
  <2>3. mem' = [i \in DOMAIN mem |-> IF i \in T THEN Set(mem[i], payload) ELSE mem[i]]
    BY DEF WritesList
  <2> QED
    BY <2>1, <2>2, <2>3, MembersUpdated DEF IInv
<1>7. DevicesWereUsed'
  <2> SUFFICES ASSUME NEW m \in DOMAIN mem, NEW i \in DOMAIN mem'[m].devices
               PROVE  <<mem'[m].email, mem'[m].devices[i]>> \in seen'
    BY <1>6 DEF DevicesWereUsed
  <2>1. CASE m \in T
    <3>1. mem'[m].email = e /\ mem'[m].devices = l
      BY <1>1, <1>5, <2>1 DEF SameMember, WritesList
    <3> QED
      BY <1>1, <1>2, <3>1 DEF WritesList
  <2>2. CASE m \notin T
    BY <2>2 DEF IInv, DevicesWereUsed, WritesList
  <2> QED
    BY <2>1, <2>2
<1>8. seen' \subseteq Emails \X Devices
  BY <1>1, <1>2 DEF IInv, Typed, TypeOK, WritesList
<1> QED
  BY <1>5, <1>6, <1>7, <1>8 DEF WritesList

LEMMA SetMemberVerifiedKept ==
  ASSUME ConstantsAssumption, IInv, NEW r \in Requests, SetMemberVerified(r)
  PROVE  IInv'
<1>0. CASE Fault("setMember") /\ UNCHANGED <<mem, seen>>
  <2>1. pc[r] = "setMember" /\ ReqOK(pc[r], req[r])
    BY DEF SetMemberVerified, At, IInv, ReqInv
  <2>2. /\ pc' \in [Requests -> PCs] /\ req' \in [Requests -> ReqRec]
        /\ MovesOnly(r) /\ pc'[r] = "session" /\ req'[r] = req[r]
    BY Stayed DEF SetMemberVerified, PCs, IInv
  <2>3. UNCHANGED <<docs, seen>>
    BY <1>0 DEF SetMemberVerified, docs
  <2>4. ReqOK(pc[r], req[r])'
    BY <2>1, <2>2, <2>3 DEF ReqOK, docs
  <2> QED
    BY <1>0, <2>1, <2>2, <2>3, <2>4, LostKept DEF SetMemberVerified
<1> SUFFICES ASSUME NoFault PROVE IInv'
  BY <1>0 DEF SetMemberVerified
<1>1. PICK e, payload, T : /\ e = req[r].email
                           /\ payload = [verified |-> TRUE, devices |-> req[r].devices]
                           /\ T = {m \in DOMAIN mem : mem[m].email = e}
  OBVIOUS
<1>2. mem' = [x \in DOMAIN mem |-> IF x \in T THEN Set(mem[x], payload) ELSE mem[x]]
  <2>1. mem' = UpdatePartialByFilter(mem, [email |-> req[r].email],
                                     [verified |-> TRUE, devices |-> req[r].devices])
    BY DEF SetMemberVerified, NoFault, Fault
  <2> QED
    BY <1>1, <2>1 DEF UpdatePartialByFilter, Match
<1>3. /\ pc[r] = "setMember" /\ Typed /\ e \in Emails /\ req[r].device \in Devices
      /\ req[r].ws \in DOMAIN ws /\ ws[req[r].ws].email = e /\ ws[req[r].ws].verified
      /\ \E m \in DOMAIN mem : mem[m].email = e
      /\ UNCHANGED <<ws, inv, codes, task, session, mailed, early, faults>>
  BY <1>1 DEF IInv, ReqInv, ReqOK, SetMemberVerified, NoFault, At, ghosts
<1>4. /\ pc' \in [Requests -> PCs] /\ req' \in [Requests -> ReqRec]
      /\ MovesOnly(r) /\ pc'[r] = "session" /\ req'[r] = req[r]
  BY <1>3, Stayed DEF SetMemberVerified, PCs
<1>5. /\ mem' \in [DOMAIN mem' -> MemDoc] /\ DOMAIN mem' = DOMAIN mem
      /\ DOMAIN mem' \subseteq MemIds /\ MemGrow /\ DevicesWereUsed'
      /\ seen' \subseteq Emails \X Devices
      /\ \A m \in DOMAIN mem \ T : mem'[m] = mem[m]
      /\ \A m \in T : mem'[m].verified
  <2>1. \A x : Given(payload, "verified", x) = TRUE
    BY <1>1 DEF Given
  <2>2. /\ Len(req[r].devices) <= MaxDevices
        /\ seen' = seen \cup {<<req[r].email, req[r].device>>}
    BY DEF SetMemberVerified, NoFault, Fault
  <2>3. WritesList(r, T, payload)
    BY <1>1, <1>2, <1>3, <2>2 DEF WritesList
  <2>4. /\ mem' \in [DOMAIN mem' -> MemDoc] /\ DOMAIN mem' = DOMAIN mem
        /\ DOMAIN mem' \subseteq MemIds /\ MemGrow /\ DevicesWereUsed'
        /\ seen' \subseteq Emails \X Devices
        /\ \A m \in DOMAIN mem \ T : mem'[m] = mem[m]
        /\ \A m \in T : /\ mem'[m].password = mem[m].password
                        /\ mem'[m].verified = Given(payload, "verified", mem[m].verified)
    BY <2>3, ListWritten
  <2> QED
    BY <2>1, <2>4
<1>6. Typed'
  BY <1>3, <1>4, <1>5, TypedLater
<1>7. Grow
  BY <1>3, <1>5 DEF Grow, WsGrow, InvGrow, SetMemberVerified
<1>8. ReqInv'
  <2>1. ReqOK(pc[r], req[r])'
    BY <1>1, <1>3, <1>4 DEF ReqOK
  <2> QED
    BY <1>4, <1>7, <2>1, ReqKept DEF IInv
<1>9. /\ NoneEnters({"insertMember"}) /\ NoneEnters({"insertWs"})
      /\ NoneEnters({"accept", "createUser", "addMember"})
      /\ NoneLeaves({"insertMember"}) /\ NoneLeaves({"createUser", "addMember"})
  BY <1>3, <1>4 DEF MovesOnly, NoneEnters, NoneLeaves
<1>10. SuperInv' /\ SessionInv'
  BY <1>3, <1>5, <1>6, <1>7, <1>9, SuperKept, SessionKept DEF IInv
<1>11. WorkspacesBound' /\ TaskInv' /\ InviteInv'
  BY <1>3, <1>5, <1>7, <1>9, BoundKept, TaskKept, InviteKept DEF IInv
<1>12. VerInv'
  <2>1. (\A w \in DOMAIN ws : ws[w].verified => Excused(w) \/ Verifying(ws[w].email))'
    <3> SUFFICES ASSUME NEW w \in DOMAIN ws, ws[w].verified
                 PROVE  Excused(w)' \/ Verifying(ws[w].email)'
      BY <1>3
    <3>1. CASE ws[w].email = e
      <4>1. PICK m \in DOMAIN mem : mem[m].email = e
        BY <1>3
      <4>2. PICK x : x = mem[m].ws
        OBVIOUS
      <4>3. x \in DOMAIN ws /\ ws[x].email = e /\ ws[x].superMember = m
        BY <1>3, <4>1, <4>2 DEF IInv, SuperInv, ConstantsAssumption
      <4>4. CASE x = w
        BY <1>1, <1>3, <1>5, <4>1, <4>3, <4>4 DEF Excused
      <4>5. CASE x # w
        <5>1. Two(ws[w].email)
          BY <1>3, <3>1, <4>3, <4>5, TwoOf
        <5> QED
          BY <1>3, <5>1 DEF Excused, Two, OfEmail
      <4> QED
        BY <4>4, <4>5
    <3>2. CASE ws[w].email # e
      <4>1. Excused(w) \/ Verifying(ws[w].email)
        BY VerOfExcused DEF IInv
      <4>2. CASE Excused(w)
        <5>1. \A m \in DOMAIN mem : mem[m].verified => mem'[m].verified
          BY <1>7 DEF Grow, MemGrow
        <5> QED
          BY <1>3, <1>5, <4>2, <5>1 DEF Excused, Two, OfEmail, Unlucky
      <4>3. CASE Verifying(ws[w].email)
        BY <1>1, <1>3, <1>4, <3>2, <4>3 DEF Verifying, MovesOnly
      <4> QED
        BY <4>1, <4>2, <4>3
    <3> QED
      BY <3>1, <3>2
  <2>2. (\A m \in DOMAIN mem : mem[m].verified =>
           \E w \in DOMAIN ws : ws[w].email = mem[m].email /\ ws[w].verified)'
    <3> SUFFICES ASSUME NEW m \in DOMAIN mem, mem'[m].verified
                 PROVE  \E w \in DOMAIN ws : ws[w].email = mem'[m].email /\ ws[w].verified
      BY <1>3, <1>5
    <3>1. mem'[m].email = mem[m].email
      BY <1>7 DEF Grow, MemGrow, SameMember
    <3>2. CASE m \in T
      BY <1>1, <1>3, <3>1, <3>2
    <3>3. CASE m \notin T
      BY <1>5, <3>1, <3>3 DEF IInv, VerInv
    <3> QED
      BY <3>2, <3>3
  <2> QED
    BY <2>1, <2>2 DEF VerInv, Excused, Verifying
<1> QED
  BY <1>5, <1>6, <1>8, <1>10, <1>11, <1>12 DEF IInv

LEMMA SetDevicesKept ==
  ASSUME ConstantsAssumption, IInv, NEW r \in Requests, SetDevices(r)
  PROVE  IInv'
<1>0. CASE Fault("lost") /\ UNCHANGED <<mem, seen>>
  <2>1. pc[r] = "setDevices" /\ ReqOK(pc[r], req[r])
    BY DEF SetDevices, At, IInv, ReqInv
  <2>2. /\ pc' \in [Requests -> PCs] /\ req' \in [Requests -> ReqRec]
        /\ MovesOnly(r) /\ pc'[r] = "saveLogin" /\ req'[r] = req[r]
    BY Stayed DEF SetDevices, PCs, IInv
  <2>3. UNCHANGED <<docs, seen>>
    BY <1>0 DEF SetDevices, docs
  <2>4. ReqOK(pc[r], req[r])'
    BY <2>1, <2>2, <2>3 DEF ReqOK, docs
  <2> QED
    BY <1>0, <2>1, <2>2, <2>3, <2>4, LostKept DEF SetDevices
<1> SUFFICES ASSUME NoFault PROVE IInv'
  BY <1>0 DEF SetDevices
<1>1. PICK payload, T : /\ payload = [devices |-> req[r].devices]
                        /\ T = {m \in DOMAIN mem : mem[m].email = req[r].email}
  OBVIOUS
<1>2. mem' = [x \in DOMAIN mem |-> IF x \in T THEN Set(mem[x], payload) ELSE mem[x]]
  BY <1>1 DEF SetDevices, UpdatePartialByFilter, Match, NoFault, Fault
<1>3. /\ pc[r] = "setDevices" /\ Typed
      /\ UNCHANGED <<ws, inv, codes, task, session, mailed, early, faults>>
  BY DEF IInv, SetDevices, NoFault, At, ghosts
<1>4. /\ pc' \in [Requests -> PCs] /\ req' \in [Requests -> ReqRec]
      /\ MovesOnly(r) /\ pc'[r] = "saveLogin" /\ req'[r] = req[r]
  BY <1>3, Stayed DEF SetDevices, PCs
<1>5. /\ mem' \in [DOMAIN mem' -> MemDoc] /\ DOMAIN mem' = DOMAIN mem
      /\ DOMAIN mem' \subseteq MemIds /\ MemGrow /\ DevicesWereUsed'
      /\ seen' \subseteq Emails \X Devices
      /\ \A m \in DOMAIN mem \ T : mem'[m] = mem[m]
      /\ \A m \in T : mem'[m].verified = mem[m].verified
  <2>1. \A x : Given(payload, "verified", x) = x
    BY <1>1 DEF Given
  <2>2. /\ Len(req[r].devices) <= MaxDevices
        /\ seen' = seen \cup {<<req[r].email, req[r].device>>}
    BY DEF SetDevices, NoFault, Fault
  <2>3. WritesList(r, T, payload)
    BY <1>1, <1>2, <1>3, <2>2 DEF WritesList
  <2>4. /\ mem' \in [DOMAIN mem' -> MemDoc] /\ DOMAIN mem' = DOMAIN mem
        /\ DOMAIN mem' \subseteq MemIds /\ MemGrow /\ DevicesWereUsed'
        /\ seen' \subseteq Emails \X Devices
        /\ \A m \in DOMAIN mem \ T : mem'[m] = mem[m]
        /\ \A m \in T : /\ mem'[m].password = mem[m].password
                        /\ mem'[m].verified = Given(payload, "verified", mem[m].verified)
    BY <2>3, ListWritten
  <2> QED
    BY <2>1, <2>4
<1>6. Typed'
  BY <1>3, <1>4, <1>5, TypedLater
<1>7. Grow
  BY <1>3, <1>5 DEF Grow, WsGrow, InvGrow, SetDevices
<1>8. ReqInv'
  <2>1. ReqOK(pc[r], req[r])
    BY DEF IInv, ReqInv
  <2>2. ReqOK(pc[r], req[r])'
    <3>1. /\ \A m \in DOMAIN mem : mem'[m].email = mem[m].email /\ mem'[m].ws = mem[m].ws
      BY <1>7 DEF Grow, MemGrow, SameMember
    <3> QED
      BY <1>3, <1>4, <1>5, <2>1, <3>1 DEF ReqOK
  <2> QED
    BY <1>4, <1>7, <2>2, ReqKept DEF IInv
<1>9. /\ NoneEnters({"insertMember"}) /\ NoneEnters({"insertWs"})
      /\ NoneEnters({"accept", "createUser", "addMember"})
      /\ NoneLeaves({"insertMember"}) /\ NoneLeaves({"createUser", "addMember"})
      /\ NoneLeaves({"findMember", "setMember"})
  BY <1>3, <1>4 DEF MovesOnly, NoneEnters, NoneLeaves
<1>10. SuperInv' /\ SessionInv'
  BY <1>3, <1>5, <1>6, <1>7, <1>9, SuperKept, SessionKept DEF IInv
<1>11. WorkspacesBound' /\ TaskInv' /\ InviteInv'
  BY <1>3, <1>5, <1>7, <1>9, BoundKept, TaskKept, InviteKept DEF IInv
<1>12. VerInv'
  <2>1. \A m \in DOMAIN mem' : mem'[m].verified => m \in DOMAIN mem /\ mem[m].verified
    BY <1>1, <1>5
  <2> QED
    BY <1>3, <1>6, <1>7, <1>9, <2>1, VerKept DEF IInv
<1> QED
  BY <1>5, <1>6, <1>8, <1>10, <1>11, <1>12 DEF IInv

-------------------------------------------------------------------------------
\* Invites, and the tasks that make them.
TaskRec == [st : {"none", "count", "mail", "create"},
            email : Emails \cup {None}, ws : WsIds \cup {NoDoc}]

\* A step of the queue, or of a worker, that writes no document.
LEMMA QueueStep ==
  ASSUME ConstantsAssumption, IInv, UNCHANGED <<docs, codes, session, pc, req, early, seen>>,
         faults \subseteq faults', faults' \in MayFail, task' \in [Tasks -> TaskRec],
         mailed \subseteq mailed', mailed' \subseteq Emails \X WsIds, TaskInv'
  PROVE  IInv'
<1>1. Typed'
  BY TypedLater DEF IInv, docs, TaskRec
<1>2. Grow /\ Typed
  BY DEF docs, Grow, WsGrow, MemGrow, InvGrow, SameMember, IInv
<1>3. \A S : NoneEnters(S) /\ NoneLeaves(S)
  BY DEF NoneEnters, NoneLeaves
<1>4. UNCHANGED <<ws, mem, inv>>
  BY DEF docs
<1>5. ReqInv' /\ SuperInv' /\ SessionInv'
  BY <1>1, <1>2, <1>3, <1>4, ReqStill, SuperKept, SessionKept DEF IInv
<1>6. VerInv' /\ DevicesWereUsed' /\ WorkspacesBound' /\ InviteInv'
  BY <1>1, <1>2, <1>3, <1>4, VerKept, DevKept, BoundKept, InviteKept DEF IInv
<1> QED
  BY <1>1, <1>5, <1>6 DEF IInv

\* One task moves: it enters the places where it is about to make an invite only
\* when there is none.
LEMMA OneTask ==
  ASSUME ConstantsAssumption, Typed, TaskInv, UNCHANGED docs, mailed \subseteq mailed',
         faults \subseteq faults', NEW t \in Tasks, \A u \in Tasks \ {t} : task'[u] = task[u],
         task'[t].st # "none" => task'[t].email \in Emails /\ task'[t].ws \in DOMAIN ws,
         task'[t].st = "create" =>
           <<task'[t].email, task'[t].ws>> \in mailed' \/ "mail" \in faults',
         task'[t].st \in {"mail", "create"} =>
           \/ Pair(task'[t].email, task'[t].ws) = {}
           \/ task[t].st \in {"mail", "create"}
              /\ task'[t].email = task[t].email /\ task'[t].ws = task[t].ws
  PROVE  TaskInv'
<1>1. UNCHANGED <<ws, mem, inv>>
  BY DEF docs
<1>2. InvitesBound'
  <2> SUFFICES ASSUME NEW e \in Emails, NEW w \in DOMAIN ws
               PROVE  PairBound(e, w)'
    BY <1>1 DEF InvitesBound, PairBound, Pair, Inviting
  <2>1. PairBound(e, w)
    BY BoundOfPairs DEF TaskInv
  <2>2. Pair(e, w)' = Pair(e, w)
    BY <1>1 DEF Pair
  <2>3. IsFiniteSet(Pair(e, w)) /\ IsFiniteSet(Inviting(e, w)) /\ Cardinality(Tasks) \in Nat
    BY PairsFinite
  <2>4. /\ Inviting(e, w) = {u \in Tasks : task[u].st \in {"mail", "create"}
                                           /\ task[u].email = e /\ task[u].ws = w}
        /\ Inviting(e, w)' = {u \in Tasks : task'[u].st \in {"mail", "create"}
                                            /\ task'[u].email = e /\ task'[u].ws = w}
    BY DEF Inviting, Invited
  <2>5. Cardinality(Pair(e, w)) + Cardinality(Inviting(e, w)') <= Cardinality(Tasks)
    <3>1. CASE Pair(e, w) = {}
      <4>1. Inviting(e, w)' \in SUBSET Tasks /\ IsFiniteSet(Tasks)
        BY <2>4 DEF ConstantsAssumption
      <4> QED
        BY <3>1, <4>1, NoneYet
    <3>2. CASE Pair(e, w) # {}
      <4>1. Inviting(e, w)' \in SUBSET Inviting(e, w)
        BY <2>4, <3>2
      <4> QED
        BY <2>1, <2>3, <4>1, BothSmaller DEF PairBound
    <3> QED
      BY <3>1, <3>2
  <2> QED
    BY <2>1, <2>2, <2>5 DEF PairBound
<1>3. (\A i \in DOMAIN inv : inv[i].ws \in DOMAIN ws)'
  BY <1>1 DEF TaskInv
<1>4. (\A u \in Tasks : /\ task[u].st # "none" => task[u].email \in Emails /\ task[u].ws \in DOMAIN ws
                        /\ task[u].st = "create" =>
                             <<task[u].email, task[u].ws>> \in mailed \/ "mail" \in faults)'
  BY <1>1 DEF TaskInv
<1> QED
  BY <1>2, <1>3, <1>4, Zenon DEF TaskInv

\* A task ends, or goes to the next place.
LEMMA TaskMoves ==
  ASSUME Typed, NEW t \in Tasks, NEW st \in {"none", "count", "mail", "create"},
         EndTask(t) \/ StepTask(t, st)
  PROVE  /\ task' \in [Tasks -> TaskRec] /\ \A u \in Tasks \ {t} : task'[u] = task[u]
         /\ EndTask(t) => task'[t].st = "none"
         /\ StepTask(t, st) => task'[t].st = st /\ task'[t].email = task[t].email
                               /\ task'[t].ws = task[t].ws
<1>1. task \in [Tasks -> TaskRec]
  BY DEF Typed, TypeOK, TaskRec
<1>2. NoTask \in TaskRec /\ NoTask.st = "none"
  BY DEF NoTask, TaskRec
<1>3. PICK x : x = task[t] /\ x \in TaskRec
  BY <1>1
<1>4. PICK y : y = [x EXCEPT !.st = st]
  OBVIOUS
<1>5. y \in TaskRec /\ y.st = st /\ y.email = x.email /\ y.ws = x.ws
  BY <1>3, <1>4 DEF TaskRec
<1>6. CASE EndTask(t)
  <2>1. task' = [task EXCEPT ![t] = NoTask]
    BY <1>6 DEF EndTask
  <2>2. task' \in [Tasks -> TaskRec] /\ task'[t] = NoTask /\ \A u \in Tasks \ {t} : task'[u] = task[u]
    BY <1>1, <1>2, <2>1
  <2>3. StepTask(t, st) => task'[t].st = st /\ task'[t].email = task[t].email
                           /\ task'[t].ws = task[t].ws
    BY <1>1, <1>3, <1>4, <1>5 DEF StepTask
  <2> QED
    BY <1>2, <2>2, <2>3
<1>7. CASE StepTask(t, st)
  <2>1. task' = [task EXCEPT ![t] = y]
    BY <1>3, <1>4, <1>7 DEF StepTask
  <2>2. task' \in [Tasks -> TaskRec] /\ task'[t] = y /\ \A u \in Tasks \ {t} : task'[u] = task[u]
    BY <1>1, <1>5, <2>1
  <2>3. EndTask(t) => task'[t].st = "none"
    BY <1>1, <1>2 DEF EndTask
  <2> QED
    BY <1>3, <1>5, <2>2, <2>3
<1> QED
  BY <1>6, <1>7

LEMMA InviteWorkspaceMembersKept ==
  ASSUME ConstantsAssumption, IInv, NEW w \in DOMAIN ws, NEW e \in Emails,
         InviteWorkspaceMembers(w, e)
  PROVE  IInv'
<1>1. PICK t, x : /\ t \in Tasks /\ x = [st |-> "count", email |-> e, ws |-> w]
                   /\ task' = [task EXCEPT ![t] = x]
  BY DEF InviteWorkspaceMembers
<1>2. x \in TaskRec /\ x.st = "count" /\ x.email = e /\ x.ws = w /\ task \in [Tasks -> TaskRec]
  BY <1>1 DEF TaskRec, IInv, Typed, TypeOK
<1>3. task' \in [Tasks -> TaskRec] /\ task'[t] = x /\ \A u \in Tasks \ {t} : task'[u] = task[u]
  BY <1>1, <1>2
<1>4. TaskInv'
  <2>1. UNCHANGED docs /\ mailed \subseteq mailed' /\ faults \subseteq faults'
    BY DEF InviteWorkspaceMembers, Fault, ghosts
  <2> QED
    BY <1>1, <1>2, <1>3, <2>1, OneTask DEF IInv
<1> QED
  BY <1>3, <1>4, QueueStep DEF InviteWorkspaceMembers, ghosts, IInv, Typed, TypeOK

LEMMA CountInvitesKept ==
  ASSUME ConstantsAssumption, IInv, NEW t \in Tasks, CountInvites(t)
  PROVE  IInv'
<1>1. /\ task[t].st = "count" /\ Typed /\ TaskInv /\ UNCHANGED docs
      /\ task[t].email \in Emails /\ task[t].ws \in DOMAIN ws
  BY DEF CountInvites, IInv, TaskInv
<1>2. \/ Pair(task[t].email, task[t].ws) = {} /\ StepTask(t, "mail")
      \/ EndTask(t)
  <2>1. Matching(inv, Invited(t)) = Pair(task[t].email, task[t].ws)
    BY DEF Pair, Invited
  <2>2. IsFiniteSet(Pair(task[t].email, task[t].ws))
    BY <1>1, PairsFinite
  <2>3. Cardinality(Pair(task[t].email, task[t].ws)) = 0 => Pair(task[t].email, task[t].ws) = {}
    BY <2>2, FS_EmptySet
  <2> QED
    BY <2>1, <2>3 DEF CountInvites, CountDocs
<1>3. /\ task' \in [Tasks -> TaskRec] /\ \A u \in Tasks \ {t} : task'[u] = task[u]
      /\ \/ task'[t].st = "none"
         \/ /\ task'[t].st = "mail" /\ task'[t].email = task[t].email /\ task'[t].ws = task[t].ws
            /\ Pair(task'[t].email, task'[t].ws) = {}
  BY <1>1, <1>2, TaskMoves
<1>4. mailed \subseteq mailed' /\ faults \subseteq faults'
  BY DEF CountInvites, ghosts
<1>5. TaskInv'
  BY <1>1, <1>3, <1>4, OneTask
<1> QED
  BY <1>3, <1>5, QueueStep DEF CountInvites, ghosts, IInv, Typed, TypeOK

LEMMA MailInviteKept ==
  ASSUME ConstantsAssumption, IInv, NEW t \in Tasks, MailInvite(t)
  PROVE  IInv'
<1>1. /\ task[t].st = "mail" /\ Typed /\ TaskInv /\ UNCHANGED docs
      /\ task[t].email \in Emails /\ task[t].ws \in DOMAIN ws
      /\ faults \subseteq faults' /\ faults' \in MayFail
      /\ \/ mailed' = mailed \cup {<<task[t].email, task[t].ws>>}
         \/ mailed' = mailed /\ "mail" \in faults'
  BY DEF MailInvite, IInv, TaskInv, NoFault, Fault, Typed, TypeOK
<1>2. /\ task' \in [Tasks -> TaskRec] /\ \A u \in Tasks \ {t} : task'[u] = task[u]
      /\ task'[t].st = "create" /\ task'[t].email = task[t].email /\ task'[t].ws = task[t].ws
  BY <1>1, TaskMoves DEF MailInvite
<1>3. /\ mailed \subseteq mailed'
      /\ <<task'[t].email, task'[t].ws>> \in mailed' \/ "mail" \in faults'
  BY <1>1, <1>2
<1>4. TaskInv'
  BY <1>1, <1>2, <1>3, OneTask
<1>5. mailed' \subseteq Emails \X WsIds
  <2>1. DOMAIN ws \subseteq WsIds /\ mailed \subseteq Emails \X WsIds
    BY <1>1 DEF Typed, TypeOK
  <2> QED
    BY <1>1, <2>1
<1> QED
  BY <1>1, <1>2, <1>3, <1>4, <1>5, QueueStep DEF MailInvite

LEMMA WorkerDiesKept ==
  ASSUME ConstantsAssumption, IInv, NEW t \in Tasks, WorkerDies(t)
  PROVE  IInv'
<1>1. /\ task' \in [Tasks -> TaskRec] /\ \A u \in Tasks \ {t} : task'[u] = task[u]
      /\ task'[t].st = "none"
  BY TaskMoves DEF WorkerDies, IInv
<1>2. TaskInv'
  <2>1. UNCHANGED docs /\ mailed \subseteq mailed' /\ faults \subseteq faults'
    BY DEF WorkerDies, Fault, ghosts
  <2> QED
    BY <1>1, <2>1, OneTask DEF IInv
<1> QED
  BY <1>1, <1>2, QueueStep DEF WorkerDies, Fault, ghosts, IInv, Typed, TypeOK

LEMMA CreateInviteKept ==
  ASSUME ConstantsAssumption, IInv, NEW t \in Tasks, CreateInvite(t)
  PROVE  IInv'
<1>1. PICK e, w, i, doc :
        /\ e = task[t].email /\ w = task[t].ws /\ i \in InvIds \ DOMAIN inv
        /\ doc = [email |-> e, ws |-> w, accepted |-> FALSE, resent |-> FALSE]
        /\ inv' = CreateOne(inv, i, doc)
  BY DEF CreateInvite, Fresh
<1>2. /\ task[t].st = "create" /\ Typed /\ TaskInv /\ e \in Emails /\ w \in DOMAIN ws
      /\ <<e, w>> \in mailed \/ "mail" \in faults
      /\ UNCHANGED <<ws, mem, codes, session, pc, req, mailed, early, seen, faults>>
  BY <1>1 DEF CreateInvite, IInv, TaskInv, ghosts
<1>3. /\ task' \in [Tasks -> TaskRec] /\ \A u \in Tasks \ {t} : task'[u] = task[u]
      /\ task'[t].st = "none"
  BY <1>2, TaskMoves DEF CreateInvite
<1>4. /\ DOMAIN inv' = DOMAIN inv \cup {i} /\ inv'[i] = doc
      /\ \A x \in DOMAIN inv : inv'[x] = inv[x]
      /\ doc \in InvDoc /\ doc.email = e /\ doc.ws = w /\ ~doc.accepted
  <2>1. w \in WsIds
    BY <1>2 DEF Typed, TypeOK
  <2> QED
    BY <1>1, <1>2, <2>1 DEF CreateOne, InvDoc
<1>5. inv' \in [DOMAIN inv' -> InvDoc] /\ DOMAIN inv' \subseteq InvIds
  BY <1>1, <1>2, <1>4 DEF CreateOne, Typed, TypeOK
<1>6. Typed'
  BY <1>2, <1>3, <1>5, TypedLater DEF TaskRec
<1>7. Grow
  BY <1>2, <1>4 DEF Grow, WsGrow, MemGrow, InvGrow, SameMember
<1>8. \A S : NoneEnters(S) /\ NoneLeaves(S)
  BY <1>2 DEF NoneEnters, NoneLeaves
<1>9. ReqInv' /\ SuperInv' /\ SessionInv'
  BY <1>2, <1>6, <1>7, <1>8, ReqStill, SuperKept, SessionKept DEF IInv
<1>10. VerInv' /\ DevicesWereUsed' /\ WorkspacesBound'
  BY <1>2, <1>6, <1>7, <1>8, VerKept, DevKept, BoundKept DEF IInv
<1>11. TaskInv'
  <2>1. InvitesBound'
    <3> SUFFICES ASSUME NEW x \in Emails, NEW y \in DOMAIN ws
                 PROVE  PairBound(x, y)'
      BY <1>2 DEF InvitesBound, PairBound, Pair, Inviting
    <3>1. PairBound(x, y)
      BY <1>2, BoundOfPairs DEF TaskInv
    <3>2. IsFiniteSet(Pair(x, y)) /\ IsFiniteSet(Inviting(x, y)) /\ Cardinality(Tasks) \in Nat
      BY <1>2, PairsFinite
    <3>3. /\ Inviting(x, y) = {u \in Tasks : task[u].st \in {"mail", "create"}
                                             /\ task[u].email = x /\ task[u].ws = y}
          /\ Inviting(x, y)' = {u \in Tasks : task'[u].st \in {"mail", "create"}
                                              /\ task'[u].email = x /\ task'[u].ws = y}
      BY DEF Inviting, Invited
    <3>4. /\ Pair(x, y) = {k \in DOMAIN inv : inv[k].email = x /\ inv[k].ws = y}
          /\ Pair(x, y)' = {k \in DOMAIN inv' : inv'[k].email = x /\ inv'[k].ws = y}
      BY DEF Pair, Matching, Match
    <3>5. CASE x = e /\ y = w
      <4>1. Pair(x, y)' = Pair(x, y) \cup {i}
        BY <1>4, <3>4, <3>5
      <4>2. Inviting(x, y)' = Inviting(x, y) \ {t} /\ t \in Inviting(x, y)
        BY <1>1, <1>2, <1>3, <3>3, <3>5
      <4>3. Cardinality(Pair(x, y)') + Cardinality(Inviting(x, y)') <= Cardinality(Tasks)
        BY <3>1, <3>2, <4>1, <4>2, OneMoves DEF PairBound
      <4> QED
        BY <1>2, <3>5, <4>3 DEF PairBound
    <3>6. CASE ~(x = e /\ y = w)
      <4>1. Pair(x, y)' = Pair(x, y)
        BY <1>4, <3>4, <3>6
      <4>2. Inviting(x, y)' = Inviting(x, y)
        BY <1>1, <1>2, <1>3, <3>3, <3>6
      <4> QED
        BY <1>2, <3>1, <4>1, <4>2 DEF PairBound
    <3> QED
      BY <3>5, <3>6
  <2>2. (\A k \in DOMAIN inv : inv[k].ws \in DOMAIN ws)'
    BY <1>2, <1>4 DEF TaskInv
  <2>3. (\A u \in Tasks : /\ task[u].st # "none" => task[u].email \in Emails /\ task[u].ws \in DOMAIN ws
                          /\ task[u].st = "create" =>
                             <<task[u].email, task[u].ws>> \in mailed \/ "mail" \in faults)'
    BY <1>2, <1>3 DEF TaskInv
  <2> QED
    BY <2>1, <2>2, <2>3, Zenon DEF TaskInv
<1>12. InviteInv'
  <2>1. i # NoDoc /\ i \notin DOMAIN inv
    BY <1>1 DEF ConstantsAssumption, NoDoc
  <2>2. MembersPerInviteBound'
    <3> SUFFICES ASSUME NEW k \in DOMAIN inv'
                 PROVE  Cardinality(MembersOf(k)) + Cardinality(Accepting(k))
                        <= Cardinality(Requests) + Failures("mark")
      BY <1>2 DEF MembersPerInviteBound, MembersOf, Accepting, Failures
    <3>1. CASE k \in DOMAIN inv
      BY <3>1 DEF IInv, InviteInv, MembersPerInviteBound, MembersOf, Accepting
    <3>2. CASE k = i
      <4>1. MembersOf(k) = {}
        BY <2>1, <3>2 DEF MembersOf, IInv, InviteInv
      <4>2. Accepting(k) \in SUBSET Requests /\ IsFiniteSet(Requests)
        BY DEF Accepting, ConstantsAssumption
      <4> QED
        BY <4>1, <4>2, NoneYet, MoreAllowed
    <3> QED
      BY <1>4, <3>1, <3>2
  <2>3. AcceptedHasMember'
    BY <1>2, <1>4 DEF IInv, InviteInv, AcceptedHasMember
  <2>4. (\A m \in DOMAIN mem : mem[m].invite # NoDoc => mem[m].invite \in DOMAIN inv)'
    BY <1>2, <1>4 DEF IInv, InviteInv
  <2>5. (\A k \in DOMAIN inv : OpenBound(k))'
    <3> SUFFICES ASSUME NEW k \in DOMAIN inv' PROVE OpenBound(k)'
      OBVIOUS
    <3>1. MembersOf(k)' = MembersOf(k) /\ Answered(k)' = Answered(k) /\ UNCHANGED faults
      BY <1>2 DEF MembersOf, Answered
    <3>2. CASE k \in DOMAIN inv
      BY <1>4, <3>1, <3>2 DEF IInv, InviteInv, OpenBound, Failures
    <3>3. CASE k = i
      <4>1. MembersOf(k) = {} /\ Answered(k) = {}
        BY <2>1, <3>3 DEF MembersOf, Answered, IInv, InviteInv, ReqInv, ReqOK
      <4> QED
        BY <3>1, <4>1, FS_EmptySet DEF OpenBound, Failures
    <3> QED
      BY <1>4, <3>2, <3>3
  <2> QED
    BY <2>2, <2>3, <2>4, <2>5, Zenon DEF InviteInv
<1> QED
  BY <1>6, <1>9, <1>10, <1>11, <1>12 DEF IInv

\* The reader of an invite: what a step that only moves the request keeps.
LEMMA ReaderMoves ==
  ASSUME ConstantsAssumption, IInv, Typed', Grow, UNCHANGED <<ws, mem, session, task, seen>>,
         DOMAIN inv' = DOMAIN inv, NEW r \in Requests, MovesOnly(r), ReqOK(pc[r], req[r])',
         pc[r] \in {"idle", "accept", "createUser"}, pc'[r] \in {"accept", "createUser", "addMember"},
         InviteInv'
  PROVE  IInv'
<1>1. /\ NoneEnters({"insertWs"}) /\ NoneEnters({"insertMember"}) /\ NoneLeaves({"insertMember"})
      /\ NoneLeaves({"findMember", "setMember"})
  BY DEF MovesOnly, NoneEnters, NoneLeaves
<1>2. ReqInv' /\ SuperInv' /\ SessionInv'
  BY <1>1, ReqKept, SuperKept, SessionKept DEF IInv
<1>3. VerInv' /\ DevicesWereUsed' /\ WorkspacesBound' /\ TaskInv'
  BY <1>1, VerKept, DevKept, BoundKept, TaskKept DEF IInv
<1> QED
  BY <1>2, <1>3 DEF IInv

LEMMA FindInviteKept ==
  ASSUME ConstantsAssumption, IInv, NEW r \in Requests, NEW i \in DOMAIN inv, FindInvite(r, i)
  PROVE  IInv'
<1>1. i \in InvIds /\ ~inv[i].accepted
  BY DEF IInv, Typed, TypeOK, FindInvite
<1>2. /\ pc' \in [Requests -> PCs] /\ req' \in [Requests -> ReqRec]
      /\ MovesOnly(r) /\ pc[r] = "idle" /\ pc'[r] = "accept"
      /\ req'[r] = Local([inv |-> i])
  BY <1>1, LocalInvite, Started DEF IInv, PCs, FindInvite
<1>3. req'[r].inv = i
  BY <1>1, <1>2, LocalInvite
<1>4. Typed'
  BY <1>2, TypedLater DEF IInv, FindInvite, docs, ghosts
<1>5. Grow /\ UNCHANGED <<ws, mem, inv, session, task, seen, faults>>
  BY DEF FindInvite, docs, ghosts, Grow, WsGrow, MemGrow, InvGrow, SameMember
<1>6. ReqOK(pc[r], req[r])'
  BY <1>2, <1>3, <1>5 DEF ReqOK
<1>7. InviteInv'
  <2>0. \A k : MembersOf(k)' = MembersOf(k) /\ Answered(k)' = Answered(k)
               /\ Failures("mark")' = Failures("mark") /\ Failures("mark") \in Nat
    BY <1>2, <1>5 DEF MembersOf, Answered, MovesOnly, Failures
  <2>1. MembersPerInviteBound'
    <3> SUFFICES ASSUME NEW k \in DOMAIN inv
                 PROVE  Cardinality(MembersOf(k)) + Cardinality(Accepting(k)')
                          <= Cardinality(Requests) + Failures("mark")
      BY <1>5 DEF MembersPerInviteBound, MembersOf, Accepting, Failures
    <3>1. CASE k = i
      <4>1. Cardinality(MembersOf(k)) + Cardinality(Answered(k)) <= Failures("mark")
        BY <1>1, <3>1 DEF IInv, InviteInv, OpenBound
      <4>2. PICK W \in SUBSET Requests : Accepting(k)' = Answered(k) \cup W
        <5>1. Accepting(k)' = Answered(k)' \cup {q \in Requests : pc'[q] = "accept" /\ req'[q].inv = k}
          BY DEF Accepting, Answered
        <5> QED
          BY <2>0, <5>1
      <4>3. IsFiniteSet(MembersOf(k)) /\ Answered(k) \in SUBSET Requests /\ IsFiniteSet(Requests)
        <5>1. MembersOf(k) \subseteq DOMAIN mem
          BY DEF MembersOf
        <5> QED
          BY <5>1, Finite, FS_Subset DEF Answered, ConstantsAssumption, IInv
      <4> QED
        BY <2>0, <4>1, <4>2, <4>3, SomeOfMany
    <3>2. CASE k # i
      <4>1. Accepting(k)' = Accepting(k)
        BY <1>2, <1>3, <3>2 DEF Accepting, MovesOnly
      <4> QED
        BY <4>1 DEF IInv, InviteInv, MembersPerInviteBound, MembersOf, Accepting
    <3> QED
      BY <3>1, <3>2
  <2>2. AcceptedHasMember'
    <3>1. \A q \in Requests : pc[q] \in {"createUser", "addMember"} => pc'[q] = pc[q] /\ req'[q] = req[q]
      BY <1>2 DEF MovesOnly
    <3> QED
      BY <1>5, <3>1 DEF IInv, InviteInv, AcceptedHasMember
  <2>3. (\A m \in DOMAIN mem : mem[m].invite # NoDoc => mem[m].invite \in DOMAIN inv)'
    BY <1>5 DEF IInv, InviteInv
  <2>4. (\A k \in DOMAIN inv : OpenBound(k))'
    BY <1>5, <2>0 DEF IInv, InviteInv, OpenBound
  <2> QED
    BY <2>1, <2>2, <2>3, <2>4, Zenon DEF InviteInv
<1> QED
  BY <1>2, <1>4, <1>5, <1>6, <1>7, ReaderMoves

\* The mark is lost: only then do members come from an invite that stays open.
LEMMA AcceptLost ==
  ASSUME ConstantsAssumption, IInv, NEW r \in Requests, Accept(r), Fault("mark"), UNCHANGED inv
  PROVE  IInv'
<1>1. /\ pc[r] = "accept" /\ req[r].inv \in DOMAIN inv /\ Typed
      /\ UNCHANGED <<ws, mem, inv, session, task, seen>> /\ UNCHANGED docs
      /\ faults \subseteq faults' /\ faults' \in MayFail
      /\ Failures("mark") = 0 /\ Failures("mark")' = 1
  BY DEF IInv, ReqInv, ReqOK, Accept, At, docs, Fault, Failures
<1>2. /\ pc' \in [Requests -> PCs] /\ req' \in [Requests -> ReqRec]
      /\ MovesOnly(r) /\ pc'[r] = "createUser" /\ req'[r] = req[r]
  BY <1>1, Stayed DEF Accept, PCs
<1>3. Typed'
  BY <1>1, <1>2, TypedLater DEF Accept, ghosts
<1>4. Grow
  BY <1>1, CalmDocs DEF Accept, ghosts, Calm
<1>5. ReqOK(pc[r], req[r])'
  BY <1>1, <1>2 DEF ReqOK
<1>6. InviteInv'
  <2>1. \A k : /\ MembersOf(k)' = MembersOf(k) /\ Accepting(k)' = Accepting(k)
               /\ Answered(k)' \subseteq Answered(k) \cup {r}
               /\ IsFiniteSet(MembersOf(k)) /\ IsFiniteSet(Accepting(k)) /\ IsFiniteSet(Answered(k))
    <3> TAKE k
    <3>1. MembersOf(k) \subseteq DOMAIN mem /\ Accepting(k) \in SUBSET Requests
          /\ Answered(k) \in SUBSET Requests
      BY DEF MembersOf, Accepting, Answered
    <3>2. IsFiniteSet(MembersOf(k)) /\ IsFiniteSet(Accepting(k)) /\ IsFiniteSet(Answered(k))
      BY <1>1, <3>1, Finite, FS_Subset
    <3>3. MembersOf(k)' = MembersOf(k)
      BY <1>1 DEF MembersOf
    <3>4. Accepting(k)' = Accepting(k)
      BY <1>1, <1>2 DEF Accepting, MovesOnly
    <3>5. Answered(k)' \subseteq Answered(k) \cup {r}
      BY <1>1, <1>2 DEF Answered, MovesOnly
    <3> QED
      BY <3>2, <3>3, <3>4, <3>5
  <2>2. MembersPerInviteBound'
    <3> SUFFICES ASSUME NEW k \in DOMAIN inv
                 PROVE  Cardinality(MembersOf(k)) + Cardinality(Accepting(k)) <= Cardinality(Requests) + 1
      BY <1>1, <2>1 DEF MembersPerInviteBound, MembersOf, Accepting
    <3>1. Cardinality(MembersOf(k)) + Cardinality(Accepting(k)) <= Cardinality(Requests) + 0
      BY <1>1 DEF IInv, InviteInv, MembersPerInviteBound, MembersOf, Accepting
    <3>2. Cardinality(Requests) \in Nat
      BY <1>1, Finite
    <3> QED
      BY <2>1, <3>1, <3>2, FS_CardinalityType
  <2>3. AcceptedHasMember'
    <3>1. \A q \in Requests : pc[q] \in {"createUser", "addMember"} => pc'[q] = pc[q] /\ req'[q] = req[q]
      BY <1>1, <1>2 DEF MovesOnly
    <3> QED
      BY <1>1, <3>1 DEF IInv, InviteInv, AcceptedHasMember
  <2>4. (\A k \in DOMAIN inv : OpenBound(k))'
    <3> SUFFICES ASSUME NEW k \in DOMAIN inv, ~inv[k].accepted
                 PROVE  Cardinality(MembersOf(k)) + Cardinality(Answered(k)') <= 1
      BY <1>1, <2>1 DEF OpenBound
    <3>1. Cardinality(MembersOf(k)) + Cardinality(Answered(k)) <= 0
      BY <1>1 DEF IInv, InviteInv, OpenBound
    <3>2. IsFiniteSet(Answered(k) \cup {r}) /\ Cardinality(Answered(k)) \in Nat
          /\ Cardinality(Answered(k) \cup {r}) <= Cardinality(Answered(k)) + 1
      <4>1. IsFiniteSet(Answered(k))
        BY <2>1
      <4> QED
        BY <4>1, OneMore
    <3>3. Cardinality(Answered(k)') <= Cardinality(Answered(k) \cup {r})
          /\ IsFiniteSet(Answered(k)')
      BY <2>1, <3>2, FS_Subset
    <3> QED
      BY <2>1, <3>1, <3>2, <3>3, FS_CardinalityType
  <2>5. (\A m \in DOMAIN mem : mem[m].invite # NoDoc => mem[m].invite \in DOMAIN inv)'
    BY <1>1 DEF IInv, InviteInv
  <2> QED
    BY <2>2, <2>3, <2>4, <2>5, Zenon DEF InviteInv
<1> QED
  BY <1>1, <1>2, <1>3, <1>4, <1>5, <1>6, ReaderMoves

LEMMA AcceptKept ==
  ASSUME ConstantsAssumption, IInv, NEW r \in Requests, Accept(r)
  PROVE  IInv'
<1>0. CASE Fault("mark") /\ UNCHANGED inv
  BY <1>0, AcceptLost
<1> SUFFICES ASSUME NoFault PROVE IInv'
  BY <1>0 DEF Accept
<1>1. PICK i, new : /\ i = req[r].inv /\ new = Set(inv[i], [accepted |-> TRUE])
                    /\ inv' = [x \in DOMAIN inv |-> IF x = i THEN new ELSE inv[x]]
  BY DEF Accept, UpdatePartialByID, NoFault, Fault
<1>2. /\ pc[r] = "accept" /\ i \in DOMAIN inv /\ Typed /\ \A x \in DOMAIN inv : inv[x] \in InvDoc
      /\ UNCHANGED <<ws, mem, session, task, seen, faults, mailed, early>>
  BY <1>1 DEF IInv, ReqInv, ReqOK, Accept, NoFault, At, Typed, TypeOK, ghosts
<1>3. /\ pc' \in [Requests -> PCs] /\ req' \in [Requests -> ReqRec]
      /\ MovesOnly(r) /\ pc'[r] = "createUser" /\ req'[r] = req[r]
  BY <1>2, Stayed DEF Accept, PCs
<1>4. /\ new \in InvDoc /\ new.email = inv[i].email /\ new.ws = inv[i].ws
      /\ new.accepted = TRUE
  BY <1>1, <1>2, SetInv
<1>5. /\ inv' \in [DOMAIN inv' -> InvDoc] /\ DOMAIN inv' = DOMAIN inv /\ DOMAIN inv' \subseteq InvIds
      /\ InvGrow /\ inv'[i].accepted /\ \A x \in DOMAIN inv \ {i} : inv'[x] = inv[x]
  BY <1>1, <1>2, <1>4 DEF InvGrow, Typed, TypeOK
<1>6. Typed'
  BY <1>2, <1>3, <1>5, TypedLater DEF Accept
<1>7. Grow
  BY <1>2, <1>5 DEF Grow, MemGrow, WsGrow, SameMember
<1>8. ReqOK(pc[r], req[r])'
  BY <1>1, <1>2, <1>3, <1>5 DEF ReqOK
<1>9. InviteInv'
  <2>1. MembersPerInviteBound'
    <3> SUFFICES ASSUME NEW k \in DOMAIN inv
                 PROVE  Cardinality(MembersOf(k)) + Cardinality(Accepting(k)') 
                          <= Cardinality(Requests) + Failures("mark")
      BY <1>2, <1>5 DEF MembersPerInviteBound, MembersOf, Accepting, Failures
    <3>1. Accepting(k)' = Accepting(k)
      BY <1>2, <1>3 DEF Accepting, MovesOnly
    <3> QED
      BY <3>1 DEF IInv, InviteInv, MembersPerInviteBound, MembersOf, Accepting
  <2>2. AcceptedHasMember'
    <3>1. \A x \in DOMAIN inv : inv'[x].ws = inv[x].ws
      BY <1>5 DEF InvGrow
    <3>2. \A q \in Requests : pc[q] \in {"createUser", "addMember"} => pc'[q] = pc[q] /\ req'[q] = req[q]
      BY <1>2, <1>3 DEF MovesOnly
    <3> QED
      BY <1>1, <1>2, <1>3, <1>5, <3>1, <3>2 DEF IInv, InviteInv, AcceptedHasMember
  <2>3. (\A m \in DOMAIN mem : mem[m].invite # NoDoc => mem[m].invite \in DOMAIN inv)'
    BY <1>2, <1>5 DEF IInv, InviteInv, InvGrow
  <2>4. (\A k \in DOMAIN inv : OpenBound(k))'
    <3> SUFFICES ASSUME NEW k \in DOMAIN inv, ~inv'[k].accepted PROVE OpenBound(k)'
      BY <1>5 DEF OpenBound
    <3>1. k # i /\ ~inv[k].accepted
      BY <1>5
    <3>2. MembersOf(k)' = MembersOf(k) /\ Answered(k)' = Answered(k)
      BY <1>1, <1>2, <1>3, <3>1 DEF MembersOf, Answered, MovesOnly
    <3> QED
      BY <1>2, <3>1, <3>2 DEF IInv, InviteInv, OpenBound, Failures
  <2> QED
    BY <2>1, <2>2, <2>3, <2>4, Zenon DEF InviteInv
<1> QED
  BY <1>2, <1>3, <1>5, <1>6, <1>7, <1>8, <1>9, ReaderMoves

LEMMA CreateUserKept ==
  ASSUME ConstantsAssumption, IInv, NEW r \in Requests, CreateUser(r)
  PROVE  IInv'
<1>1. pc[r] = "createUser" /\ Typed
  BY DEF CreateUser, At, IInv
<1>2. UNCHANGED <<ws, mem, inv, session, task, seen>> /\ UNCHANGED docs
  BY DEF CreateUser, docs
<1>3. CASE Fault("createUser") /\ Finish(r)
  BY <1>1, <1>3, LostEnds DEF CreateUser
<1>4. CASE NoFault /\ Goto(r, "addMember") /\ UNCHANGED req
  <2>1. /\ pc' \in [Requests -> PCs] /\ req' \in [Requests -> ReqRec]
        /\ MovesOnly(r) /\ pc'[r] = "addMember" /\ req'[r] = req[r]
    BY <1>1, <1>4, Stayed DEF PCs
  <2>2. Typed'
    BY <1>1, <1>4, <2>1, TypedLater DEF CreateUser, docs, ghosts, NoFault
  <2>3. Grow
    BY <1>4, CalmDocs DEF CreateUser, ghosts, NoFault, Calm
  <2>4. ReqOK(pc[r], req[r])'
    <3>1. ReqOK(pc[r], req[r])
      BY DEF IInv, ReqInv
    <3> QED
      BY <1>1, <1>2, <2>1, <3>1 DEF ReqOK
  <2>5. InviteInv'
    <3>1. MembersPerInviteBound'
      <4> SUFFICES ASSUME NEW k \in DOMAIN inv
                   PROVE  Cardinality(MembersOf(k)) + Cardinality(Accepting(k)')
                            <= Cardinality(Requests) + Failures("mark")
        BY <1>2, <1>4 DEF MembersPerInviteBound, MembersOf, Accepting, Failures, NoFault
      <4>1. Accepting(k)' = Accepting(k)
        BY <1>1, <2>1 DEF Accepting, MovesOnly
      <4> QED
        BY <4>1 DEF IInv, InviteInv, MembersPerInviteBound, MembersOf, Accepting
    <3>2. AcceptedHasMember'
      <4>1. \A q \in Requests : pc[q] \in {"createUser", "addMember"} =>
              pc'[q] \in {"createUser", "addMember"} /\ req'[q] = req[q]
        BY <2>1 DEF MovesOnly
      <4> QED
        BY <1>2, <1>4, <4>1 DEF IInv, InviteInv, AcceptedHasMember, NoFault
    <3>3. (\A m \in DOMAIN mem : mem[m].invite # NoDoc => mem[m].invite \in DOMAIN inv)'
      BY <1>2 DEF IInv, InviteInv
    <3>4. (\A k \in DOMAIN inv : OpenBound(k))'
      <4>1. \A k : MembersOf(k)' = MembersOf(k) /\ Answered(k)' = Answered(k)
        BY <1>1, <1>2, <2>1 DEF MembersOf, Answered, MovesOnly
      <4> QED
        BY <1>2, <1>4, <4>1 DEF IInv, InviteInv, OpenBound, Failures, NoFault
    <3> QED
      BY <3>1, <3>2, <3>3, <3>4, Zenon DEF InviteInv
  <2> QED
    BY <1>1, <1>2, <2>1, <2>2, <2>3, <2>4, <2>5, ReaderMoves
<1> QED
  BY <1>3, <1>4 DEF CreateUser

LEMMA AddMemberKept ==
  ASSUME ConstantsAssumption, IInv, NEW r \in Requests, AddMember(r)
  PROVE  IInv'
<1>0. CASE Fault("member") /\ UNCHANGED mem
  BY <1>0, LostEnds DEF AddMember, At, docs
<1> SUFFICES ASSUME NoFault PROVE IInv'
  BY <1>0 DEF AddMember
<1>1. PICK i, w, m, doc :
        /\ i = req[r].inv /\ w = inv[i].ws /\ m \in MemIds \ MemIdsUsed
        /\ doc = [email |-> None, ws |-> w, name |-> w, verified |-> FALSE, password |-> None,
                  devices |-> <<>>, invite |-> i]
        /\ mem' = CreateOne(mem, m, doc)
  BY DEF AddMember, Fresh, NoFault, Fault
<1>2. /\ pc[r] = "addMember" /\ Typed /\ i \in DOMAIN inv /\ w \in DOMAIN ws
      /\ UNCHANGED <<ws, inv, codes, session, task, mailed, early, seen, faults>>
  BY <1>1 DEF IInv, ReqInv, ReqOK, TaskInv, AddMember, NoFault, At, ghosts
<1>3. /\ pc' \in [Requests -> PCs] /\ req' \in [Requests -> ReqRec]
      /\ MovesOnly(r) /\ pc'[r] = "idle" /\ ReqOK(pc[r], req[r])'
  BY <1>2, Finished DEF AddMember
<1>4. w \in WsIds /\ i \in InvIds /\ m \in MemIds /\ m \notin DOMAIN mem
      /\ \A x \in DOMAIN ws : ws[x].superMember # m
  BY <1>1, <1>2 DEF Typed, TypeOK, MemIdsUsed
<1>5. doc \in MemDoc
  <2>1. <<>> \in DeviceLists
    <3>1. <<>> \in Seq(Devices) /\ Len(<<>>) <= MaxDevices
      BY DEF ConstantsAssumption
    <3> QED
      BY <3>1, ListTypes
  <2> QED
    BY <1>1, <1>4, <2>1 DEF MemDoc, DeviceLists
<1>6. /\ DOMAIN mem' = DOMAIN mem \cup {m} /\ mem'[m] = doc
      /\ \A x \in DOMAIN mem : mem'[x] = mem[x]
      /\ doc.email = None /\ doc.ws = w /\ ~doc.verified /\ doc.devices = <<>> /\ doc.invite = i
  BY <1>1, <1>4 DEF CreateOne
<1>7. mem' \in [DOMAIN mem' -> MemDoc] /\ DOMAIN mem' \subseteq MemIds
  BY <1>1, <1>2, <1>4, <1>5, <1>6 DEF CreateOne, Typed, TypeOK
<1>8. Typed'
  BY <1>2, <1>3, <1>7, TypedLater
<1>9. Grow
  BY <1>2, <1>6 DEF Grow, WsGrow, MemGrow, InvGrow, SameMember
<1>10. ReqInv'
  BY <1>3, <1>9, ReqKept DEF IInv
<1>11. SuperInv'
  <2>1. (\A x, y \in DOMAIN ws : ws[x].superMember = ws[y].superMember => x = y)'
    BY <1>2 DEF IInv, SuperInv
  <2>2. \A q \in Requests : pc'[q] = "insertMember" => pc[q] = "insertMember" /\ req'[q] = req[q]
    BY <1>3 DEF MovesOnly
  <2>3. (\A q \in Requests : At(q, "insertMember") => req[q].mem \notin DOMAIN mem)'
    <3> SUFFICES ASSUME NEW q \in Requests, pc[q] = "insertMember"
                 PROVE  req[q].mem \notin DOMAIN mem'
      BY <2>2 DEF At
    <3>1. req[q].ws \in DOMAIN ws /\ ws[req[q].ws].superMember = req[q].mem
      BY DEF IInv, ReqInv, ReqOK
    <3>2. req[q].mem \notin DOMAIN mem
      BY DEF IInv, SuperInv, At
    <3> QED
      BY <1>4, <1>6, <3>1, <3>2
  <2>4. (\A q, p \in Requests :
           At(q, "insertMember") /\ At(p, "insertMember") /\ req[q].ws = req[p].ws => q = p)'
    BY <2>2 DEF IInv, SuperInv, At
  <2>5. (\A x \in DOMAIN ws : ws[x].superMember \in DOMAIN mem =>
           LET k == mem[ws[x].superMember] IN k.email = ws[x].email /\ k.ws = x)'
    BY <1>2, <1>4, <1>6 DEF IInv, SuperInv
  <2>6. (\A k \in DOMAIN mem :
           /\ mem[k].ws \in DOMAIN ws
           /\ mem[k].email # None => LET x == ws[mem[k].ws] IN
                                     x.email = mem[k].email /\ x.superMember = k)'
    BY <1>2, <1>6 DEF IInv, SuperInv
  <2>7. SuperMemberExists'
    <3>1. \A q \in Requests : pc[q] = "insertMember" => pc'[q] = "insertMember" /\ req'[q] = req[q]
      BY <1>2, <1>3 DEF MovesOnly
    <3> QED
      BY <1>2, <1>6, <3>1 DEF IInv, SuperInv, SuperMemberExists, At
  <2> QED
    BY <2>1, <2>3, <2>4, <2>5, <2>6, <2>7, Zenon DEF SuperInv
<1>12. SessionInv'
  BY <1>2, <1>8, <1>9, SessionKept DEF IInv
<1>13. VerInv'
  <2>1. NoneLeaves({"findMember", "setMember"})
    BY <1>2, <1>3 DEF NoneLeaves, MovesOnly
  <2>2. \A x \in DOMAIN mem' : mem'[x].verified => x \in DOMAIN mem /\ mem[x].verified
    BY <1>6
  <2> QED
    BY <1>2, <1>8, <1>9, <2>1, <2>2, VerKept DEF IInv
<1>14. DevicesWereUsed' /\ TaskInv'
  <2>1. \A x \in DOMAIN mem' : \/ mem'[x].devices = <<>>
                               \/ x \in DOMAIN mem /\ mem'[x].devices = mem[x].devices
    BY <1>6
  <2> QED
    BY <1>2, <1>9, <2>1, DevKept, TaskKept DEF IInv
<1>15. WorkspacesBound'
  <2>1. NoneEnters({"insertWs"})
    BY <1>3 DEF NoneEnters, MovesOnly
  <2> QED
    BY <1>2, <1>9, <2>1, BoundKept DEF IInv
<1>16. InviteInv'
  <2>1. MembersPerInviteBound'
    <3> SUFFICES ASSUME NEW k \in DOMAIN inv
                 PROVE  Cardinality(MembersOf(k)') + Cardinality(Accepting(k)')
                          <= Cardinality(Requests) + Failures("mark")
      BY <1>2 DEF MembersPerInviteBound, MembersOf, Accepting, Failures
    <3>1. Cardinality(MembersOf(k)) + Cardinality(Accepting(k))
            <= Cardinality(Requests) + Failures("mark")
      BY DEF IInv, InviteInv, MembersPerInviteBound, MembersOf, Accepting
    <3>2. IsFiniteSet(MembersOf(k)) /\ IsFiniteSet(Accepting(k))
          /\ Cardinality(Requests) + Failures("mark") \in Nat
      <4>1. MembersOf(k) \subseteq DOMAIN mem /\ Accepting(k) \in SUBSET Requests
        BY DEF MembersOf, Accepting
      <4> QED
        BY <1>2, <4>1, Finite, FS_Subset DEF Failures
    <3>3. CASE k = i
      <4>1. MembersOf(k)' = MembersOf(k) \cup {m}
        BY <1>4, <1>6, <3>3 DEF MembersOf
      <4>2. Accepting(k)' = Accepting(k) \ {r} /\ r \in Accepting(k)
        BY <1>1, <1>2, <1>3, <3>3 DEF Accepting, MovesOnly
      <4> QED
        BY <3>1, <3>2, <4>1, <4>2, OneMoves
    <3>4. CASE k # i
      <4>1. MembersOf(k)' = MembersOf(k)
        BY <1>4, <1>6, <3>4 DEF MembersOf
      <4>2. Accepting(k)' = Accepting(k)
        BY <1>1, <1>3, <3>4 DEF Accepting, MovesOnly
      <4> QED
        BY <3>1, <4>1, <4>2
    <3> QED
      BY <3>3, <3>4
  <2>2. AcceptedHasMember'
    <3> SUFFICES ASSUME NEW k \in DOMAIN inv, inv[k].accepted, faults \cap {"createUser", "member", "died"} = {}
                 PROVE  \/ \E x \in DOMAIN mem' : mem'[x].invite = k /\ mem'[x].ws = inv[k].ws
                        \/ \E q \in Requests : pc'[q] \in {"createUser", "addMember"} /\ req'[q].inv = k
      BY <1>2 DEF AcceptedHasMember
    <3>1. CASE k = i
      BY <1>1, <1>6, <3>1
    <3>2. CASE k # i
      <4>1. \/ \E x \in DOMAIN mem : mem[x].invite = k /\ mem[x].ws = inv[k].ws
            \/ \E q \in Requests : pc[q] \in {"createUser", "addMember"} /\ req[q].inv = k
        BY DEF IInv, InviteInv, AcceptedHasMember
      <4>2. CASE \E x \in DOMAIN mem : mem[x].invite = k /\ mem[x].ws = inv[k].ws
        BY <1>6, <4>2
      <4>3. CASE \E q \in Requests : pc[q] \in {"createUser", "addMember"} /\ req[q].inv = k
        BY <1>1, <1>3, <3>2, <4>3 DEF MovesOnly
      <4> QED
        BY <4>1, <4>2, <4>3
    <3> QED
      BY <3>1, <3>2
  <2>3. (\A x \in DOMAIN mem : mem[x].invite # NoDoc => mem[x].invite \in DOMAIN inv)'
    BY <1>2, <1>6 DEF IInv, InviteInv
  <2>4. (\A k \in DOMAIN inv : OpenBound(k))'
    <3> SUFFICES ASSUME NEW k \in DOMAIN inv, ~inv[k].accepted
                 PROVE  Cardinality(MembersOf(k)') + Cardinality(Answered(k)') <= Failures("mark")
      BY <1>2 DEF OpenBound, Failures
    <3>1. Cardinality(MembersOf(k)) + Cardinality(Answered(k)) <= Failures("mark")
          /\ Failures("mark") \in Nat
      BY DEF IInv, InviteInv, OpenBound, Failures
    <3>2. CASE k = i
      <4>1. MembersOf(k)' = MembersOf(k) \cup {m}
        BY <1>4, <1>6, <3>2 DEF MembersOf
      <4>2. Answered(k)' = Answered(k) \ {r} /\ r \in Answered(k)
        BY <1>1, <1>2, <1>3, <3>2 DEF Answered, MovesOnly
      <4>3. IsFiniteSet(MembersOf(k)) /\ IsFiniteSet(Answered(k))
        <5>1. MembersOf(k) \subseteq DOMAIN mem /\ Answered(k) \in SUBSET Requests
          BY DEF MembersOf, Answered
        <5> QED
          BY <1>2, <5>1, Finite, FS_Subset
      <4> QED
        BY <3>1, <4>1, <4>2, <4>3, OneMoves
    <3>3. CASE k # i
      <4>1. MembersOf(k)' = MembersOf(k)
        BY <1>4, <1>6, <3>3 DEF MembersOf
      <4>2. Answered(k)' = Answered(k)
        BY <1>1, <1>3, <3>3 DEF Answered, MovesOnly
      <4> QED
        BY <3>1, <4>1, <4>2
    <3> QED
      BY <3>2, <3>3
  <2> QED
    BY <2>1, <2>2, <2>3, <2>4, Zenon DEF InviteInv
<1> QED
  BY <1>8, <1>10, <1>11, <1>12, <1>13, <1>14, <1>15, <1>16 DEF IInv

-------------------------------------------------------------------------------
\* The invariant holds at first, and every step keeps it.
LEMMA InitInv ==
  ASSUME ConstantsAssumption, Init
  PROVE  IInv
<1>1. /\ DOMAIN ws = {} /\ DOMAIN mem = {} /\ DOMAIN inv = {} /\ codes = {}
      /\ mailed = {} /\ early = {} /\ seen = {} /\ faults = {}
      /\ \A d \in Devices : session[d] = None
      /\ \A t \in Tasks : task[t] = NoTask
      /\ \A r \in Requests : pc[r] = "idle" /\ req[r] = Idle
  BY DEF Init
<1>2. /\ session \in [Devices -> [mem : MemIds, ws : WsIds] \cup {None}]
      /\ task \in [Tasks -> TaskRec] /\ pc \in [Requests -> PCs] /\ req \in [Requests -> ReqRec]
  BY IdleType DEF Init, TaskRec, NoTask, PCs
<1>3. ws \in [DOMAIN ws -> WsDoc] /\ mem \in [DOMAIN mem -> MemDoc] /\ inv \in [DOMAIN inv -> InvDoc]
  BY <1>1 DEF Init
<1>4. Typed
  <2>1. \A r \in Requests : /\ req[r].ws \in WsIds \cup {NoDoc}
                            /\ req[r].mem \in MemIds \cup {NoDoc}
                            /\ req[r].inv \in InvIds \cup {NoDoc}
    BY <1>2 DEF ReqRec
  <2>2. TypeOK
    BY <1>1, <1>2, <2>1 DEF TypeOK, TaskRec, PCs, ConstantsAssumption
  <2> QED
    BY <1>2, <1>3, <2>2 DEF Typed
<1>5. ReqInv /\ SuperInv /\ SessionInv /\ VerInv /\ DevicesWereUsed
  BY <1>1 DEF ReqInv, ReqOK, SuperInv, SuperMemberExists, SessionInv, VerInv, DevicesWereUsed, At
<1>6. WorkspacesBound
  <2> SUFFICES ASSUME NEW e \in Emails
               PROVE  Cardinality(OfEmail(e)) + Cardinality(Creating(e)) <= Cardinality(Requests)
    <3>1. Failures("lookup") = 0 /\ Cardinality(Requests) \in Nat
      BY <1>1, FS_CardinalityType DEF Init, Failures, ConstantsAssumption
    <3> QED
      BY <3>1 DEF WorkspacesBound, Creating, At
  <2>1. OfEmail(e) = {} /\ Creating(e) \in SUBSET Requests /\ IsFiniteSet(Requests)
    BY <1>1 DEF OfEmail, Matching, Creating, ConstantsAssumption
  <2> QED
    BY <2>1, NoneYet
<1>7. TaskInv
  <2>1. InvitesBound
    BY <1>1 DEF InvitesBound
  <2> QED
    BY <1>1, <2>1 DEF TaskInv, NoTask
<1>8. InviteInv
  BY <1>1 DEF InviteInv, MembersPerInviteBound, AcceptedHasMember
<1> QED
  BY <1>4, <1>5, <1>6, <1>7, <1>8 DEF IInv

LEMMA StutterKept ==
  ASSUME ConstantsAssumption, IInv, UNCHANGED vars
  PROVE  IInv'
<1>1. Typed'
  BY TypedLater DEF vars, docs, ghosts, IInv
<1>2. Calm
  BY CalmDocs DEF vars, ghosts
<1>3. SessionInv'
  BY <1>1, <1>2, SessionKept DEF Calm, IInv, vars
<1> QED
  BY <1>1, <1>2, <1>3, CalmStill DEF vars

LEMMA NextInv ==
  ASSUME ConstantsAssumption, IInv, [Next]_vars
  PROVE  IInv'
<1>1. CASE Accounts
  <2>1. ASSUME NEW r \in Requests, NEW e \in Emails, NEW d \in Devices,
               FindExisting(r, e, d) \/ FindWorkspace(r, e, d) \/ FindMember(r, e, d)
        PROVE  IInv'
    BY <2>1, FindExistingKept, FindWorkspaceKept, FindMemberKept
  <2>2. ASSUME NEW r \in Requests, CreateWorkspaceUseCase(r) \/ RequestDies(r)
        PROVE  IInv'
    BY <2>2, InsertWorkspaceKept, InsertMemberKept, SendCodeKept, RequestDiesKept
       DEF CreateWorkspaceUseCase
  <2>3. ASSUME NEW r \in Requests, VerifyWorkspaceAccount(r)
        PROVE  IInv'
    BY <2>3, SetWorkspaceVerifiedKept, FindSuperAdminKept, SetMemberVerifiedKept, OpenSessionKept
       DEF VerifyWorkspaceAccount
  <2>4. ASSUME NEW r \in Requests, LoginWorkspaceMember(r)
        PROVE  IInv'
    BY <2>4, SetDevicesKept, SaveLoginKept DEF LoginWorkspaceMember
  <2>5. ASSUME NEW e \in Emails, ExpireCode(e)
        PROVE  IInv'
    BY <2>5, ExpireCodeKept
  <2>6. ASSUME NEW d \in Devices, WorkspaceRefreshToken(d)
        PROVE  IInv'
    BY <2>6, WorkspaceRefreshTokenKept
  <2> QED
    BY <1>1, <2>1, <2>2, <2>3, <2>4, <2>5, <2>6 DEF Accounts
<1>2. CASE Details
  <2>1. ASSUME NEW r \in Requests, NEW e \in Emails, NEW p \in Passwords, NEW q \in Passwords,
               CheckPassword(r, e, p, q)
        PROVE  IInv'
    BY <2>1, CheckPasswordKept
  <2>2. ASSUME NEW r \in Requests, NEW w \in DOMAIN ws, NEW n \in Names, UpdateOrgDetails(r, w, n)
        PROVE  IInv'
    BY <2>2, UpdateOrgDetailsKept
  <2>3. ASSUME NEW r \in Requests, SetPassword(r) \/ RenameInMembers(r) \/ RequestDies(r)
        PROVE  IInv'
    BY <2>3, SetPasswordKept, RenameInMembersKept, RequestDiesKept
  <2> QED
    BY <1>2, <2>1, <2>2, <2>3 DEF Details
<1>3. CASE Invites
  <2>1. ASSUME NEW w \in DOMAIN ws, NEW e \in Emails, InviteWorkspaceMembers(w, e)
        PROVE  IInv'
    BY <2>1, InviteWorkspaceMembersKept
  <2>2. ASSUME NEW t \in Tasks, HandleWorkspaceInviteTask(t) \/ WorkerDies(t)
        PROVE  IInv'
    BY <2>2, CountInvitesKept, MailInviteKept, CreateInviteKept, WorkerDiesKept
       DEF HandleWorkspaceInviteTask
  <2>3. ASSUME NEW r \in Requests, NEW i \in DOMAIN inv, FindInvite(r, i) \/ ResendInvite(r, i)
        PROVE  IInv'
    BY <2>3, FindInviteKept, ResendInviteKept
  <2>4. ASSUME NEW r \in Requests, MailAgain(r) \/ AcknowledgeWorkspaceInvite(r) \/ RequestDies(r)
        PROVE  IInv'
    BY <2>4, MailAgainKept, AcceptKept, CreateUserKept, AddMemberKept, RequestDiesKept
       DEF AcknowledgeWorkspaceInvite
  <2> QED
    BY <1>3, <2>1, <2>2, <2>3, <2>4 DEF Invites
<1>4. CASE UNCHANGED vars
  BY <1>4, StutterKept
<1> QED
  BY <1>1, <1>2, <1>3, <1>4 DEF Next

\* Everything below is about the states that the requests, workers and failures of
\* Workspace can reach, whatever their number.
THEOREM Invariance == Spec => []IInv
<1>1. Init => IInv
  BY InitInv, ConstantsAssumption
<1>2. IInv /\ [Next]_vars => IInv'
  BY NextInv, ConstantsAssumption
<1> QED
  BY <1>1, <1>2, PTL DEF Spec

\* Duplicates come from overlaps and failed calls only: an address has at most as many
\* workspaces as requests overlap and lookups fail, a pair at most as many invites as
\* tasks overlap, and an invite at most as many members as requests overlap and marks
\* are lost.
THEOREM Duplicates == Spec => []DuplicatesBound
<1>1. IInv => DuplicatesBound
  BY DEF IInv, TaskInv, InviteInv, DuplicatesBound
<1> QED
  BY <1>1, Invariance, PTL

\* A workspace has its super member, unless its insert is to come or was lost.
THEOREM SuperMembers == Spec => []SuperMemberExists
<1>1. IInv => SuperMemberExists
  BY DEF IInv, SuperInv
<1> QED
  BY <1>1, Invariance, PTL

\* An invite that is accepted has its member, unless it is to come or was lost.
THEOREM InvitesAnswered == Spec => []AcceptedHasMember
<1>1. IInv => AcceptedHasMember
  BY DEF IInv, InviteInv
<1> QED
  BY <1>1, Invariance, PTL

\* With nothing under way, the flags of a workspace and its super member agree.
LEMMA FlagsAgree ==
  ASSUME ConstantsAssumption, IInv
  PROVE  VerifiedTogether
<1> SUFFICES ASSUME \A r \in Requests : pc[r] = "idle", NEW w \in DOMAIN ws,
                    ws[w].superMember \in DOMAIN mem, ~Two(ws[w].email),
                    ~Unlucky, ws[w].email \notin early
             PROVE  ws[w].verified = mem[ws[w].superMember].verified
  BY DEF VerifiedTogether, At, Two, Unlucky
<1>1. PICK m : m = ws[w].superMember
  OBVIOUS
<1>2. m \in DOMAIN mem /\ mem[m].email = ws[w].email
  BY <1>1 DEF IInv, SuperInv
<1>3. ws[w].verified \in BOOLEAN /\ mem[m].verified \in BOOLEAN
  BY <1>2 DEF IInv, Typed, TypeOK, WsDoc, MemDoc
<1>4. ws[w].verified => mem[m].verified
  BY <1>1, VerOfExcused DEF IInv, Excused, Verifying
<1>5. mem[m].verified => ws[w].verified
  <2> SUFFICES ASSUME mem[m].verified PROVE ws[w].verified
    OBVIOUS
  <2>1. PICK x \in DOMAIN ws : ws[x].email = ws[w].email /\ ws[x].verified
    BY <1>2 DEF IInv, VerInv
  <2>2. x = w
    BY <2>1, TwoOf DEF IInv
  <2> QED
    BY <2>1, <2>2
<1> QED
  BY <1>1, <1>3, <1>4, <1>5

\* Workspaces, super members, sessions and lists of devices tell the same story.
THEOREM Agreement == Spec => []AccountsAgree
<1>1. IInv => VerifiedTogether
  BY FlagsAgree, ConstantsAssumption
<1>2. IInv => SessionOfOwnWorkspace
  BY DEF IInv, SessionInv, SessionOfOwnWorkspace, Two
<1>3. IInv => AccountsAgree
  BY <1>1, <1>2 DEF IInv, Typed, AccountsAgree
<1> QED
  BY <1>3, Invariance, PTL

================================================================================
