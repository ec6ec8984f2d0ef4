--------------------------- MODULE Account_proofs ---------------------------
(***************************************************************************)
(* Proofs about Account, for any owners, devices, requests and list        *)
(* lengths, with or without lost writes.  IInv is inductive: what requests *)
(* hold of a document may be out of date, but documents are never removed  *)
(* and keep their address, and the ghost sets only grow, so that what a    *)
(* copy or a token says was true once stays justified.  The last part is   *)
(* about Routes, whose middlewares let in the sessions made here.          *)
(***************************************************************************)
EXTENDS Account, RouteTable, FiniteSetTheorems, TLAPS

\* What the handlers make of a device list is a device list.
LEMMA ListTypes ==
  ASSUME NEW l \in Lists, NEW d \in Devices
  PROVE  /\ Relisted(l, d) \subseteq Lists
         /\ MarkedByPointer(l, d) \subseteq Lists
         /\ MarkedByValue(l, d) \subseteq Lists
<1>1. ASSUME NEW i \in 1..Len(l)
      PROVE  /\ RemoveAt(l, i) \in Lists
             /\ Len(RemoveAt(l, i)) = Len(l) - 1
  <2>1. Len(l) \in Nat
    BY DEF Lists
  <2>2. SubSeq(l, 1, i - 1) \in Seq(Device) /\ SubSeq(l, i + 1, Len(l)) \in Seq(Device)
    BY <2>1 DEF Lists
  <2>3. Len(SubSeq(l, 1, i - 1)) = i - 1 /\ Len(SubSeq(l, i + 1, Len(l))) = Len(l) - i
    BY <2>1 DEF Lists
  <2>4. ASSUME NEW a \in Seq(Device), NEW b \in Seq(Device)
        PROVE  a \o b \in Seq(Device) /\ Len(a \o b) = Len(a) + Len(b)
    OBVIOUS
  <2>5. RemoveAt(l, i) \in Seq(Device)
    BY <2>2, <2>4 DEF RemoveAt
  <2>6. Len(RemoveAt(l, i)) = (i - 1) + (Len(l) - i)
    BY <2>2, <2>3, <2>4 DEF RemoveAt
  <2> QED
    BY <2>1, <2>5, <2>6 DEF Lists
<1>2. First(l, d) \subseteq 1..Len(l)
  BY DEF First
<1>3. ASSUME NEW q \in Lists, NEW e \in Devices \cup {NoId}, NEW v \in BOOLEAN
      PROVE  Append(q, [id |-> e, verified |-> v]) \in Lists
  BY DEF Lists, Device
<1>4. Relisted(l, d) \subseteq Lists
  BY <1>1, <1>2, <1>3 DEF Relisted
<1>5. MarkedByValue(l, d) \subseteq Lists
  BY <1>1, <1>2, <1>3 DEF MarkedByValue
<1>6. MarkedByPointer(l, d) \subseteq Lists
  <2> SUFFICES ASSUME NEW i \in First(l, d)
               PROVE  Append(RemoveAt(l, i),
                        [id |-> (IF i < Len(l) THEN RemoveAt(l, i)[i] ELSE l[i]).id,
                         verified |-> TRUE]) \in Lists
    BY DEF MarkedByPointer
  <2>1. i \in 1..Len(l) /\ RemoveAt(l, i) \in Lists /\ Len(RemoveAt(l, i)) = Len(l) - 1
    BY <1>1, <1>2
  <2>2. l[i] \in Device
    BY <2>1 DEF Lists
  <2>3. i < Len(l) => RemoveAt(l, i)[i] \in Device
    <3> SUFFICES ASSUME i < Len(l) PROVE RemoveAt(l, i)[i] \in Device
      OBVIOUS
    <3>1. i \in 1..Len(RemoveAt(l, i))
      BY <2>1 DEF Lists
    <3> QED
      BY <2>1, <3>1 DEF Lists
  <2>4. (IF i < Len(l) THEN RemoveAt(l, i)[i] ELSE l[i]).id \in Devices \cup {NoId}
    BY <2>2, <2>3 DEF Device
  <2> QED
    BY <1>3, <2>1, <2>4
<1> QED
  BY <1>4, <1>5, <1>6

-----------------------------------------------------------------------------
(***************************************************************************)
(* Framing.                                                                *)
(***************************************************************************)
Actor(r) == Start(r) \/ Step(r)
Same(s)  == /\ pc'[s] = pc[s] /\ dev'[s] = dev[s] /\ key'[s] = key[s]
            /\ who'[s] = who[s] /\ copy'[s] = copy[s] /\ sess'[s] = sess[s]

LEMMA NextSteps ==
  [Next]_vars => \/ \E r \in Requests : Actor(r)
                 \/ UNCHANGED <<doc, pc, dev, key, who, copy, sess, ghostVars>>
BY DEF Next, Actor, ExpireAccess, ExpireRefresh, vars

LEMMA OthersSame ==
  ASSUME TypeOK, NEW r \in Requests, Actor(r), NEW s \in Requests, s # r
  PROVE  Same(s)
<1> USE DEF TypeOK, Same, Goto, Finish
<1>1. CASE Start(r)
  BY <1>1 DEF Start, SetAccountImage, RefreshToken, Authenticate, VerifyUserAccount,
              VeirfyDeviceImage
<1>2. CASE FindLogin(r) \/ Create(r) \/ SaveLogin(r) \/ FindProfile(r) \/ MarkVerified(r)
  BY <1>2 DEF FindLogin, Create, SaveLogin, FindProfile, MarkVerified
<1>3. CASE FindForImage(r) \/ SaveImage(r) \/ FindForDevice(r) \/ SaveDevice(r)
  BY <1>3 DEF FindForImage, SaveImage, FindForDevice, SaveDevice
<1>4. CASE FindForRefresh(r) \/ SaveAccess(r) \/ SaveRefresh(r) \/ Abort(r)
  BY <1>4 DEF FindForRefresh, SaveAccess, SaveRefresh, Abort
<1> QED
  BY <1>1, <1>2, <1>3, <1>4 DEF Actor, Step

(***************************************************************************)
(* Documents stay, with their address; what is justified stays justified.  *)
(***************************************************************************)
Stays(x) == Stands(x) => doc'[x] # None /\ doc'[x].key = doc[x].key
OwnedNext(i, k) == i # None => doc'[i] # None /\ doc'[i].key.who = k.who
Kept     == /\ \A x \in Docs : Stays(x)
            /\ proved \subseteq proved' /\ Granted \subseteq Granted'

LEMMA Records ==
  ASSUME NEW a \in Account, NEW l \in Lists, NEW i \in Docs
  PROVE  /\ [a EXCEPT !.devices = l] \in Account
         /\ [a EXCEPT !.verified = TRUE] \in Account
         /\ [a EXCEPT !.image = i, !.devices = l] \in Account
         /\ a # None
BY ConstantsAssumption DEF Account

\* One document is replaced by another with the same address.
LEMMA Rewrite ==
  ASSUME TypeOK, DocsGood, NEW w \in Docs, Stands(w), NEW a \in Account,
         doc' = [doc EXCEPT ![w] = a], a.key = doc[w].key,
         a.verified => a.key \in proved, Owned(a.image, a.key),
         proved' = proved
  PROVE  /\ doc' \in [Docs -> Account \cup {None}]
         /\ \A x \in Docs : Stays(x)
         /\ DocsGood'
<1>1. doc' \in [Docs -> Account \cup {None}] /\ doc'[w] = a /\ a # None
      /\ \A x \in Docs : x # w => doc'[x] = doc[x]
  BY ConstantsAssumption DEF TypeOK
<1>2. ASSUME NEW x \in Docs PROVE Stays(x)
  <2>1. CASE x = w
    BY <1>1, <2>1 DEF Stays
  <2>2. CASE x # w
    BY <1>1, <2>2 DEF Stays, Stands
  <2> QED
    BY <2>1, <2>2
<1>3. ASSUME NEW i \in Docs \cup {None}, NEW k, Owned(i, k) PROVE OwnedNext(i, k)
  BY <1>2, <1>3 DEF Owned, OwnedNext, Stands, Stays
<1>4. ASSUME NEW x \in Docs, doc'[x] # None
      PROVE  /\ doc'[x].verified => doc'[x].key \in proved
             /\ OwnedNext(doc'[x].image, doc'[x].key)
  <2>1. CASE x = w
    <3>1. a.image \in Docs \cup {None}
      BY DEF Account
    <3> QED
      BY <1>1, <1>3, <2>1, <3>1
  <2>2. CASE x # w
    <3>1. doc'[x] = doc[x] /\ Stands(x) /\ doc[x] \in Account
      BY <1>1, <1>4, <2>2 DEF Stands, TypeOK
    <3>2. doc[x].image \in Docs \cup {None}
      BY <3>1 DEF Account
    <3>3. (doc[x].verified => doc[x].key \in proved) /\ Owned(doc[x].image, doc[x].key)
      BY <3>1 DEF DocsGood
    <3> QED
      BY <1>3, <3>1, <3>2, <3>3
  <2> QED
    BY <2>1, <2>2
<1>5. DocsGood'
  BY <1>4 DEF DocsGood, Stands, Owned, OwnedNext
<1> QED
  BY <1>1, <1>2, <1>5

LEMMA DocStep ==
  ASSUME IInv, [Next]_vars
  PROVE  /\ doc' \in [Docs -> Account \cup {None}]
         /\ DocsGood' /\ Kept
<1> USE DEF IInv
<1>1. CASE UNCHANGED <<doc, ghostVars>>
  BY <1>1 DEF TypeOK, DocsGood, Owned, Stands, Kept, Stays, Granted, ghostVars
<1>2. ASSUME NEW r \in Requests, Create(r) PROVE /\ doc' \in [Docs -> Account \cup {None}]
                                                 /\ DocsGood' /\ Kept
  <2> DEFINE new == [key |-> key[r], verified |-> FALSE, image |-> None,
                     devices |-> <<[id |-> dev[r], verified |-> FALSE]>>]
  <2>1. PICK w \in Docs : doc[w] = None /\ doc' = [doc EXCEPT ![w] = new]
    BY <1>2 DEF Create
  <2>2. key[r] \in Typed /\ dev[r] \in Devices
    BY <1>2 DEF Create, At, RequestGood
  <2>3. new \in Account
    <3>1. <<[id |-> dev[r], verified |-> FALSE]>> \in Seq(Device)
      BY <2>2 DEF Device
    <3> QED
      BY <2>2, <3>1 DEF Account, Lists
  <2>4. new # None /\ ~new.verified /\ new.image = None
    BY <2>3, Records, ConstantsAssumption
  <2> HIDE DEF new
  <2>5. /\ doc' \in [Docs -> Account \cup {None}]
        /\ doc'[w] = new
        /\ \A x \in Docs : x # w => doc'[x] = doc[x]
    BY <2>1, <2>3 DEF TypeOK
  <2>6. UNCHANGED ghostVars
    BY <1>2 DEF Create
  <2>7. Kept
    BY <2>1, <2>5, <2>6 DEF Kept, Stays, Stands, Granted, ghostVars
  <2>8. ASSUME NEW x \in Docs, doc'[x] # None
        PROVE  /\ doc'[x].verified => doc'[x].key \in proved
               /\ OwnedNext(doc'[x].image, doc'[x].key)
    <3>1. CASE x = w
      BY <2>4, <2>5, <3>1 DEF OwnedNext
    <3>2. CASE x # w
      <4>1. doc'[x] = doc[x] /\ Stands(x) /\ doc[x] \in Account
        BY <2>5, <2>8, <3>2 DEF Stands, TypeOK
      <4>2. doc[x].image \in Docs \cup {None}
        BY <4>1 DEF Account
      <4>3. Owned(doc[x].image, doc[x].key) /\ (doc[x].verified => doc[x].key \in proved)
        BY <4>1 DEF DocsGood
      <4> QED
        BY <2>7, <4>1, <4>2, <4>3 DEF Kept, Stays, Stands, Owned, OwnedNext
    <3> QED
      BY <3>1, <3>2
  <2> QED
    BY <2>5, <2>6, <2>7, <2>8 DEF DocsGood, Stands, Owned, OwnedNext, ghostVars
<1>3. ASSUME NEW r \in Requests, SaveLogin(r) \/ SaveImage(r) \/ SaveDevice(r)
      PROVE  /\ doc' \in [Docs -> Account \cup {None}]
             /\ DocsGood' /\ Kept
  <2>1. /\ dev[r] \in Devices /\ who[r] \in Docs /\ copy[r] \in Account
        /\ Stands(who[r]) /\ copy[r].key = doc[who[r]].key
        /\ copy[r].verified => copy[r].key \in proved
        /\ Owned(copy[r].image, copy[r].key)
    BY <1>3 DEF SaveLogin, SaveImage, SaveDevice, At, RequestGood, CopyGood, TypeOK
  <2>2. copy[r].devices \in Lists /\ doc[who[r]] \in Account
    BY <2>1 DEF Account, Stands, TypeOK
  <2>3. PICK a \in Account : /\ doc' = [doc EXCEPT ![who[r]] = a]
                             /\ a.key = doc[who[r]].key
                             /\ a.verified => a.key \in proved
                             /\ Owned(a.image, a.key)
    <3>1. CASE SaveLogin(r)
      <4>1. PICK l \in Lists : doc' = [doc EXCEPT ![who[r]] = [copy[r] EXCEPT !.devices = l]]
        BY <2>1, <2>2, <3>1, ListTypes DEF SaveLogin
      <4>2. [copy[r] EXCEPT !.devices = l] \in Account
        BY <2>1, Records
      <4> QED
        BY <2>1, <4>1, <4>2 DEF Account
    <3>2. CASE SaveImage(r)
      <4>1. PICK l \in Lists :
              doc' = [doc EXCEPT ![who[r]].image = sess[r].user, ![who[r]].devices = l]
        BY <2>1, <2>2, <3>2, ListTypes DEF SaveImage
      <4>2. /\ sess[r] \in Session /\ Stands(sess[r].user)
            /\ doc[sess[r].user].key.who = sess[r].key.who
            /\ sess[r].key.who = copy[r].key.who
        BY <3>2 DEF SaveImage, At, RequestGood, SessionGood, Names, TypeOK
      <4>3. sess[r].user \in Docs
        BY <4>2 DEF Session
      <4> DEFINE a == [doc[who[r]] EXCEPT !.image = sess[r].user, !.devices = l]
      <4>4. a \in Account /\ a.key = doc[who[r]].key /\ a.image = sess[r].user
            /\ a.verified = doc[who[r]].verified
        BY <2>2, <4>3 DEF Account
      <4>5. doc' = [doc EXCEPT ![who[r]] = a]
        BY <2>1, <2>2, <4>1 DEF TypeOK, Account
      <4>6. doc[who[r]].verified => doc[who[r]].key \in proved
        BY <2>1 DEF DocsGood
      <4> HIDE DEF a
      <4> QED
        BY <2>1, <4>2, <4>4, <4>5, <4>6 DEF Owned
    <3>3. CASE SaveDevice(r)
      <4>1. PICK l \in Lists : doc' = [doc EXCEPT ![who[r]].devices = l]
        BY <2>1, <2>2, <3>3, ListTypes DEF SaveDevice
      <4> DEFINE a == [doc[who[r]] EXCEPT !.devices = l]
      <4>2. a \in Account /\ a.key = doc[who[r]].key /\ a.image = doc[who[r]].image
            /\ a.verified = doc[who[r]].verified
        BY <2>2 DEF Account
      <4>3. doc' = [doc EXCEPT ![who[r]] = a]
        BY <2>1, <2>2, <4>1 DEF TypeOK, Account
      <4> HIDE DEF a
      <4> QED
        BY <2>1, <4>2, <4>3 DEF DocsGood
    <3> QED
      BY <1>3, <3>1, <3>2, <3>3
  <2>4. proved' = proved /\ Granted \subseteq Granted'
    BY <1>3 DEF SaveLogin, SaveImage, SaveDevice, Granted, ghostVars
  <2>5. /\ doc' \in [Docs -> Account \cup {None}]
        /\ \A x \in Docs : Stays(x)
        /\ DocsGood'
    BY <2>1, <2>3, <2>4, Rewrite
  <2> QED
    BY <2>4, <2>5 DEF Kept
<1>4. ASSUME NEW r \in Requests, MarkVerified(r)
      PROVE  /\ doc' \in [Docs -> Account \cup {None}]
             /\ DocsGood' /\ Kept
  <2>1. ASSUME NEW x \in Docs
        PROVE  \/ /\ x \in Matching(key[r]) /\ doc'[x] = [doc[x] EXCEPT !.verified = TRUE]
                  /\ doc[x] \in Account
               \/ x \notin Matching(key[r]) /\ doc'[x] = doc[x]
    BY <1>4 DEF MarkVerified, Matching, TypeOK
  <2>2. ASSUME NEW x \in Docs
        PROVE  /\ doc'[x] \in Account \cup {None}
               /\ Stays(x)
               /\ doc'[x] # None => /\ Stands(x)
                                    /\ doc'[x].image = doc[x].image
                                    /\ doc'[x].key = doc[x].key
                                    /\ \/ doc'[x].verified = doc[x].verified
                                       \/ doc'[x].key = key[r]
    <3>1. CASE x \in Matching(key[r])
      <4>1. doc'[x] = [doc[x] EXCEPT !.verified = TRUE] /\ doc[x] \in Account
            /\ Stands(x) /\ doc[x].key = key[r]
        BY <2>1, <3>1 DEF Matching, Stands
      <4>2. doc'[x] \in Account /\ doc'[x] # None /\ doc'[x].key = doc[x].key
            /\ doc'[x].image = doc[x].image
        BY <4>1, ConstantsAssumption DEF Account
      <4> QED
        BY <4>1, <4>2 DEF Stays
    <3>2. CASE x \notin Matching(key[r])
      BY <2>1, <3>2 DEF TypeOK, Stays, Stands
    <3> QED
      BY <3>1, <3>2
  <2>3. proved' = proved \cup {key[r]} /\ Granted' = Granted
    BY <1>4 DEF MarkVerified, Confirmed, Granted
  <2>4. Kept
    BY <2>2, <2>3 DEF Kept
  <2>5. doc' \in [Docs -> Account \cup {None}]
    <3>1. doc' = [x \in Docs |-> doc'[x]]
      BY <1>4 DEF MarkVerified
    <3> QED
      BY <2>2, <3>1
  <2>6. ASSUME NEW x \in Docs, doc'[x] # None
        PROVE  /\ doc'[x].verified => doc'[x].key \in proved'
               /\ OwnedNext(doc'[x].image, doc'[x].key)
    <3>1. /\ Stands(x) /\ doc'[x].image = doc[x].image /\ doc'[x].key = doc[x].key
          /\ doc[x] \in Account
      BY <2>2, <2>6 DEF Stands, TypeOK
    <3>2. doc[x].image \in Docs \cup {None}
      BY <3>1 DEF Account
    <3>3. Owned(doc[x].image, doc[x].key) /\ (doc[x].verified => doc[x].key \in proved)
      BY <3>1 DEF DocsGood
    <3>4. doc'[x].verified => doc'[x].key \in proved'
      BY <2>2, <2>3, <2>6, <3>1, <3>3
    <3> QED
      BY <2>4, <3>1, <3>2, <3>3, <3>4 DEF Kept, Stays, Stands, Owned, OwnedNext
  <2> QED
    BY <2>4, <2>5, <2>6 DEF DocsGood, Stands, Owned, OwnedNext
<1>5. ASSUME NEW r \in Requests, Actor(r), ~Create(r), ~SaveLogin(r), ~SaveImage(r),
             ~SaveDevice(r), ~MarkVerified(r)
      PROVE  UNCHANGED <<doc, ghostVars>>
  BY <1>5 DEF Actor, Start, Step, SetAccountImage, RefreshToken, Authenticate,
     VerifyUserAccount, VeirfyDeviceImage, FindLogin, FindProfile, FindForImage,
     FindForDevice, FindForRefresh, SaveAccess, SaveRefresh, Abort
<1> QED
  BY <1>1, <1>2, <1>3, <1>4, <1>5, NextSteps DEF ghostVars

(***************************************************************************)
(* Tokens, in the cache and in the hands of requests.                      *)
(***************************************************************************)
LEMMA TokenKept ==
  ASSUME TypeOK, Kept, NEW t \in Session, Names(t)
  PROVE  Names(t)' /\ (Backed(t) => Backed(t)')
<1>1. t.user \in Docs
  BY DEF Session
<1> QED
  BY <1>1 DEF Names, Backed, Kept, Stays, Stands

\* A new token, made of a copy of an account that is as good as CopyGood says.
LEMMA FullSessionGood ==
  ASSUME TypeOK, NEW x \in Docs, Stands(x), NEW a \in Account, a.key = doc[x].key,
         a.verified => a.key \in proved
  PROVE  /\ FullSession(x, a) \in Session
         /\ FullSession(x, a).user = x /\ ~FullSession(x, a).face
         /\ Names(FullSession(x, a)) /\ Backed(FullSession(x, a))
<1>1. a.key \in Keys /\ a.verified \in BOOLEAN
  BY DEF Account, Typed
<1>2. Claim(a.key) \in Keys /\ Claim(a.key).who = a.key.who
  BY <1>1 DEF Claim, Keys
<1> QED
  BY <1>1, <1>2 DEF FullSession, Session, Names, Backed

LEMMA CacheStep ==
  ASSUME IInv, [Next]_vars
  PROVE  /\ access' \in [Devices -> Session \cup {None}]
         /\ refresh' \in [Devices -> Session \cup {None}]
         /\ CacheGood'
<1> USE DEF IInv
<1>1. Kept /\ TypeOK
  BY DocStep
<1>2. ASSUME NEW r \in Requests, SaveAccess(r)
      PROVE  \A d \in Devices : \/ access'[d] = access[d]
                                \/ access'[d] = sess[r] /\ sess[r] \in Session
                                   /\ Names(sess[r]) /\ Backed(sess[r])
  BY <1>1, <1>2 DEF SaveAccess, Written, At, RequestGood, SessionGood, TypeOK
<1>3. ASSUME NEW r \in Requests, SaveRefresh(r)
      PROVE  \A d \in Devices : \/ refresh'[d] = refresh[d]
                                \/ refresh'[d] = sess[r] /\ sess[r] \in Session
                                   /\ Names(sess[r]) /\ Backed(sess[r])
                                   /\ <<sess[r].user, d>> \in Granted
  BY <1>1, <1>3 DEF SaveRefresh, Written, At, RequestGood, SessionGood, TypeOK
<1>4. ASSUME NEW r \in Requests, Actor(r)
      PROVE  /\ ~SaveAccess(r) => access' = access
             /\ ~SaveRefresh(r) => refresh' = refresh
  BY <1>4 DEF Actor, Start, Step, SetAccountImage, RefreshToken, Authenticate,
     VerifyUserAccount, VeirfyDeviceImage, FindLogin, Create, SaveLogin, FindProfile,
     MarkVerified, FindForImage, SaveImage, FindForDevice, SaveDevice, FindForRefresh,
     SaveAccess, SaveRefresh, Abort, cacheVars
<1>5. \A d \in Devices :
        \/ access'[d] \in {access[d], None}
        \/ access'[d] \in Session /\ Names(access'[d]) /\ Backed(access'[d])
  BY <1>1, <1>2, <1>4 DEF Next, Actor, ExpireAccess, ExpireRefresh, vars, cacheVars, TypeOK
<1>6. \A d \in Devices :
        \/ refresh'[d] \in {refresh[d], None}
        \/ refresh'[d] \in Session /\ Names(refresh'[d]) /\ Backed(refresh'[d])
           /\ <<refresh'[d].user, d>> \in Granted
  BY <1>1, <1>3, <1>4 DEF Next, Actor, ExpireAccess, ExpireRefresh, vars, cacheVars, TypeOK
<1>7. /\ access' \in [Devices -> Session \cup {None}]
      /\ refresh' \in [Devices -> Session \cup {None}]
  <2>1. ASSUME NEW r \in Requests, SaveAccess(r) \/ SaveRefresh(r)
        PROVE  sess[r] \in Session
    BY <1>1, <2>1 DEF SaveAccess, SaveRefresh, At, RequestGood, SessionGood, TypeOK
  <2>2. ASSUME NEW r \in Requests, SaveAccess(r)
        PROVE  access' \in [Devices -> Session \cup {None}]
    BY <1>1, <2>1, <2>2 DEF SaveAccess, Written, TypeOK
  <2>3. ASSUME NEW r \in Requests, SaveRefresh(r)
        PROVE  refresh' \in [Devices -> Session \cup {None}]
    BY <1>1, <2>1, <2>3 DEF SaveRefresh, Written, TypeOK
  <2> QED
    BY <1>1, <1>4, <2>2, <2>3
    DEF Next, Actor, ExpireAccess, ExpireRefresh, vars, cacheVars, TypeOK
<1>8. ASSUME NEW d \in Devices, access'[d] # None
      PROVE  (Names(access[d]) /\ Backed(access[d]))'
  <2>1. PICK t \in Session : access'[d] = t /\ Names(t) /\ Backed(t)
    BY <1>1, <1>5, <1>8 DEF CacheGood, TypeOK
  <2>2. Names(t)' /\ Backed(t)'
    BY <1>1, <2>1, TokenKept
  <2> QED
    BY <2>1, <2>2 DEF Names, Backed, Stands
<1>9. ASSUME NEW d \in Devices, refresh'[d] # None
      PROVE  (/\ Names(refresh[d]) /\ Backed(refresh[d])
              /\ <<refresh[d].user, d>> \in Granted)'
  <2>1. PICK t \in Session : /\ refresh'[d] = t /\ Names(t) /\ Backed(t)
                             /\ <<t.user, d>> \in Granted
    BY <1>1, <1>6, <1>9 DEF CacheGood, TypeOK
  <2>2. Names(t)' /\ Backed(t)' /\ <<t.user, d>> \in Granted'
    BY <1>1, <2>1, TokenKept DEF Kept
  <2> QED
    BY <2>1, <2>2 DEF Names, Backed, Stands
<1> QED
  BY <1>7, <1>8, <1>9 DEF CacheGood

(***************************************************************************)
(* Requests.                                                               *)
(***************************************************************************)
\* A step of another request leaves what a request holds justified.
LEMMA GoodKept ==
  ASSUME IInv, Kept, NEW s \in Requests, Same(s)
  PROVE  RequestGood(s)'
<1> USE DEF IInv
<1>1. RequestGood(s) /\ TypeOK
  OBVIOUS
<1>2. CopyGood(s)'
  <2> SUFFICES ASSUME pc[s] \in {"saveLogin", "saveImage", "saveDevice"}
               PROVE  (/\ dev[s] \in Devices /\ who[s] \in Docs /\ copy[s] # None
                       /\ Stands(who[s]) /\ copy[s].key = doc[who[s]].key
                       /\ copy[s].verified => copy[s].key \in proved
                       /\ Owned(copy[s].image, copy[s].key))'
    BY DEF CopyGood, Same
  <2>1. /\ dev[s] \in Devices /\ who[s] \in Docs /\ copy[s] \in Account
        /\ Stands(who[s]) /\ copy[s].key = doc[who[s]].key
        /\ copy[s].verified => copy[s].key \in proved
        /\ Owned(copy[s].image, copy[s].key)
    BY <1>1 DEF RequestGood, CopyGood, TypeOK
  <2>2. copy[s].image \in Docs \cup {None} /\ copy[s] # None
    BY <2>1, Records, ConstantsAssumption DEF Account
  <2> QED
    BY <2>1, <2>2 DEF Same, Kept, Stays, Stands, Owned
<1>3. SessionGood(s)'
  <2>1. CASE sess[s] = None
    BY <1>1, <2>1 DEF RequestGood, SessionGood, Same, At
  <2>2. CASE sess[s] # None
    <3>1. PICK t \in Session : sess[s] = t /\ sess'[s] = t
      BY <1>1, <2>2 DEF TypeOK, Same
    <3>2. Names(t) => Names(t)' /\ (Backed(t) => Backed(t)') /\ Stands(t.user)
      BY <1>1, TokenKept DEF Names
    <3>3. t.user \in Docs /\ (Stands(t.user) => doc'[t.user].key = doc[t.user].key)
      BY DEF Session, Kept, Stays
    <3>4. Names(sess[s])' <=> Names(t)'
      BY <3>1 DEF Names
    <3>5. Backed(sess[s])' <=> Backed(t)'
      BY <3>1 DEF Backed
    <3> QED
      BY <1>1, <3>1, <3>2, <3>3, <3>4, <3>5
      DEF RequestGood, SessionGood, Same, At, Kept
  <2> QED
    BY <2>1, <2>2
<1> QED
  BY <1>1, <1>2, <1>3 DEF RequestGood, Same, At

\* A request that is done holds nothing.
LEMMA DoneGood ==
  ASSUME NEW r \in Requests, pc'[r] = "idle"
  PROVE  RequestGood(r)'
BY DEF RequestGood, CopyGood, SessionGood, At

LEMMA FinishDone ==
  ASSUME TypeOK, NEW r \in Requests, Finish(r)
  PROVE  pc'[r] = "idle"
BY DEF TypeOK, Finish, Goto

\* A request stays good through its own steps.
LEMMA RequestStep ==
  ASSUME IInv, [Next]_vars, NEW r \in Requests, Actor(r)
  PROVE  RequestGood(r)'
<1>1. Kept /\ TypeOK /\ RequestGood(r) /\ CacheGood /\ DocsGood
  BY DocStep DEF IInv
<1>2. ASSUME NEW d \in Devices, NEW k \in Keys,
             \/ k \in Typed /\ (Authenticate(r, d, k) \/ VerifyUserAccount(r, d, k))
             \/ VeirfyDeviceImage(r, d, k)
      PROVE  RequestGood(r)'
  <2>1. /\ \/ pc'[r] \in {"findLogin", "findProfile"} /\ k \in Typed
           \/ pc'[r] = "findForDevice"
        /\ dev'[r] = d /\ key'[r] = k
    BY <1>1, <1>2 DEF TypeOK, Authenticate, VerifyUserAccount, VeirfyDeviceImage, Goto
  <2> QED
    BY <2>1 DEF RequestGood, CopyGood, SessionGood, At
<1>3. ASSUME NEW d \in Devices, SetAccountImage(r, d)
      PROVE  RequestGood(r)'
  <2>1. /\ pc'[r] = "findForImage" /\ dev'[r] = d /\ sess'[r] = access[d]
        /\ access[d] # None /\ doc' = doc
    BY <1>1, <1>3 DEF TypeOK, SetAccountImage, Goto
  <2>2. Names(access[d])
    BY <1>1, <2>1 DEF CacheGood
  <2> QED
    BY <2>1, <2>2 DEF RequestGood, CopyGood, SessionGood, At, Names, Stands
<1>4. ASSUME NEW d \in Devices, RefreshToken(r, d)
      PROVE  RequestGood(r)'
  <2>1. /\ pc'[r] = "findForRefresh" /\ dev'[r] = d /\ sess'[r] = refresh[d]
        /\ refresh[d] # None /\ doc' = doc /\ Granted' = Granted
    BY <1>1, <1>4 DEF TypeOK, RefreshToken, Goto, Granted, ghostVars
  <2>2. Names(refresh[d]) /\ <<refresh[d].user, d>> \in Granted
    BY <1>1, <2>1 DEF CacheGood
  <2> QED
    BY <2>1, <2>2 DEF RequestGood, CopyGood, SessionGood, At, Names, Stands
<1>5. CASE FindLogin(r)
  <2>1. dev[r] \in Devices /\ key[r] \in Typed /\ dev' = dev /\ key' = key
        /\ doc' = doc /\ proved' = proved
    BY <1>1, <1>5 DEF FindLogin, RequestGood, At, ghostVars
  <2>2. CASE pc'[r] = "create"
    BY <2>1, <2>2 DEF RequestGood, CopyGood, SessionGood, At
  <2>3. CASE pc'[r] # "create"
    <3>1. PICK x \in Docs : /\ Stands(x) /\ pc'[r] = "saveLogin"
                            /\ who'[r] = x /\ copy'[r] = doc[x]
      BY <1>1, <1>5, <2>3 DEF FindLogin, Goto, Matching, Stands, TypeOK
    <3> QED
      BY <1>1, <2>1, <3>1 DEF RequestGood, CopyGood, SessionGood, At, DocsGood, Stands, Owned
  <2> QED
    BY <2>2, <2>3
<1>6. CASE Create(r) \/ SaveLogin(r) \/ SaveRefresh(r) \/ Abort(r)
  BY <1>1, <1>6, DoneGood, FinishDone DEF Create, SaveLogin, SaveRefresh, Abort
<1>7. CASE FindProfile(r)
  <2>1. dev[r] \in Devices /\ key[r] \in Typed /\ dev' = dev /\ key' = key /\ doc' = doc
    BY <1>1, <1>7 DEF FindProfile, RequestGood, At
  <2>2. PICK x \in Docs :
          /\ Stands(x) /\ doc[x] \in Account /\ doc[x].key = key[r]
          /\ sess'[r] = [user |-> x, key |-> Claim(doc[x].key), verified |-> TRUE,
                         face |-> TRUE]
          /\ pc'[r] = "markVerified"
    BY <1>1, <1>7 DEF FindProfile, Goto, Matching, Stands, TypeOK
  <2>3. Claim(key[r]).who = key[r].who
    BY <2>1 DEF Claim, Typed, Keys
  <2>4. PICK t \in Session : /\ sess'[r] = t /\ t.user = x /\ t.face
                             /\ t.key = Claim(key[r])
    <3>1. Claim(key[r]) \in Keys
      BY <2>1 DEF Claim, Typed, Keys
    <3> QED
      BY <2>2, <3>1 DEF Session
  <2>5. t # None
    BY ConstantsAssumption
  <2> QED
    BY <2>1, <2>2, <2>3, <2>4, <2>5
    DEF RequestGood, CopyGood, SessionGood, At, Names, Stands
<1>8. CASE MarkVerified(r)
  <2>1. PICK t \in Session : /\ sess[r] = t /\ sess'[r] = t /\ Names(t)
                             /\ doc[t.user].key = key[r] /\ t.face
    BY <1>1, <1>8 DEF MarkVerified, RequestGood, SessionGood, At, TypeOK
  <2>2. /\ dev'[r] \in Devices /\ pc'[r] = "saveAccess" /\ key[r] \in proved'
    BY <1>1, <1>8 DEF MarkVerified, Confirmed, RequestGood, At, Goto, TypeOK
  <2>3. Names(t)' /\ doc'[t.user].key = doc[t.user].key
    BY <1>1, <2>1, TokenKept DEF Kept, Stays, Names, Session
  <2>4. Backed(t)'
    BY <2>1, <2>2, <2>3 DEF Backed
  <2>5. Names(sess[r])' /\ Backed(sess[r])' /\ sess'[r] # None
    BY <2>1, <2>3, <2>4, ConstantsAssumption DEF Names, Backed
  <2> QED
    BY <2>1, <2>2, <2>5 DEF RequestGood, CopyGood, SessionGood, At
<1>9. CASE FindForImage(r)
  <2>1. /\ dev[r] \in Devices /\ dev' = dev /\ sess' = sess /\ doc' = doc
        /\ proved' = proved /\ sess[r] \in Session /\ Names(sess[r])
    BY <1>1, <1>9 DEF FindForImage, RequestGood, SessionGood, At, ghostVars, TypeOK
  <2>2. PICK x \in Docs : /\ Stands(x) /\ pc'[r] = "saveImage"
                          /\ who'[r] = x /\ copy'[r] = doc[x]
                          /\ doc[x].key = Filter(sess[r].key)
    BY <1>1, <1>9 DEF FindForImage, Goto, Matching, Stands, TypeOK
  <2>3. Filter(sess[r].key).who = sess[r].key.who /\ sess[r] # None
    <3>1. sess[r].key \in Keys /\ sess[r] # None
      BY <2>1, ConstantsAssumption DEF Session
    <3> QED
      BY <3>1 DEF Filter, Lower, Keys
  <2> QED
    BY <1>1, <2>1, <2>2, <2>3
    DEF RequestGood, CopyGood, SessionGood, At, DocsGood, Stands, Owned, Names
<1>10. CASE SaveImage(r) \/ SaveDevice(r)
  <2>1. /\ dev[r] \in Devices /\ who[r] \in Docs /\ copy[r] \in Account
        /\ Stands(who[r]) /\ copy[r].key = doc[who[r]].key
        /\ copy[r].verified => copy[r].key \in proved
    BY <1>1, <1>10 DEF SaveImage, SaveDevice, RequestGood, CopyGood, At, TypeOK
  <2>2. /\ pc'[r] = "saveAccess" /\ dev'[r] = dev[r]
        /\ sess'[r] = FullSession(who[r], copy[r])
        /\ <<who[r], dev[r]>> \in Granted'
    BY <1>1, <1>10 DEF SaveImage, SaveDevice, Goto, Granted, TypeOK
  <2>3. PICK t \in Session : /\ t = FullSession(who[r], copy[r]) /\ t.user = who[r]
                             /\ Names(t) /\ Backed(t)
    BY <1>1, <2>1, FullSessionGood
  <2>4. Names(t)' /\ Backed(t)'
    BY <1>1, <2>3, TokenKept
  <2>5. Names(sess[r])' /\ Backed(sess[r])' /\ sess'[r] # None
    BY <2>2, <2>3, <2>4, ConstantsAssumption DEF Names, Backed
  <2> QED
    BY <2>1, <2>2, <2>3, <2>5 DEF RequestGood, CopyGood, SessionGood, At
<1>11. CASE FindForDevice(r)
  <2>1. /\ dev[r] \in Devices /\ dev' = dev /\ doc' = doc /\ proved' = proved
    BY <1>1, <1>11 DEF FindForDevice, RequestGood, At, ghostVars
  <2>2. PICK x \in Docs : /\ Stands(x) /\ pc'[r] = "saveDevice"
                          /\ who'[r] = x /\ copy'[r] = doc[x]
    BY <1>1, <1>11 DEF FindForDevice, Goto, Matching, Stands, TypeOK
  <2> QED
    BY <1>1, <2>1, <2>2 DEF RequestGood, CopyGood, SessionGood, At, DocsGood, Stands, Owned
<1>12. CASE FindForRefresh(r)
  <2>1. /\ dev[r] \in Devices /\ dev' = dev /\ sess[r] \in Session
        /\ Stands(sess[r].user) /\ <<sess[r].user, dev[r]>> \in Granted
        /\ pc'[r] = "saveAccess"
        /\ sess'[r] = FullSession(sess[r].user, doc[sess[r].user])
    BY <1>1, <1>12 DEF FindForRefresh, RequestGood, SessionGood, At, Goto, Stands, TypeOK
  <2>2. sess[r].user \in Docs
    BY <2>1 DEF Session
  <2>3. doc[sess[r].user] \in Account
        /\ (doc[sess[r].user].verified => doc[sess[r].user].key \in proved)
    BY <1>1, <2>1, <2>2 DEF Stands, DocsGood, TypeOK
  <2>4. PICK t \in Session : /\ t = FullSession(sess[r].user, doc[sess[r].user])
                             /\ t.user = sess[r].user /\ Names(t) /\ Backed(t)
    BY <1>1, <2>1, <2>2, <2>3, FullSessionGood
  <2>5. Names(t)' /\ Backed(t)'
    BY <1>1, <2>4, TokenKept
  <2>6. Names(sess[r])' /\ Backed(sess[r])' /\ sess'[r] # None
    BY <2>1, <2>4, <2>5, ConstantsAssumption DEF Names, Backed
  <2>7. <<t.user, dev[r]>> \in Granted'
    BY <1>1, <2>1, <2>4 DEF Kept
  <2> QED
    BY <2>1, <2>4, <2>6, <2>7 DEF RequestGood, CopyGood, SessionGood, At
<1>13. CASE SaveAccess(r)
  <2>1. CASE Finish(r)
    BY <1>1, <2>1, DoneGood, FinishDone
  <2>2. CASE ~Finish(r)
    <3>1. /\ pc'[r] = "saveRefresh" /\ dev' = dev /\ sess' = sess /\ doc' = doc
          /\ UNCHANGED ghostVars /\ ~sess[r].face /\ At(r, "saveAccess")
      BY <1>1, <1>13, <2>2 DEF SaveAccess, Goto, TypeOK
    <3> QED
      BY <1>1, <3>1
      DEF RequestGood, CopyGood, SessionGood, At, Names, Backed, Stands, Granted, ghostVars
  <2> QED
    BY <2>1, <2>2
<1> QED
  BY <1>2, <1>3, <1>4, <1>5, <1>6, <1>7, <1>8, <1>9, <1>10, <1>11, <1>12, <1>13
  DEF Actor, Start, Step, Typed, Longer

\* The types of what requests hold, and of the ghosts.
LEMMA LocalTypes ==
  ASSUME IInv, [Next]_vars
  PROVE  /\ pc'   \in [Requests -> PCs]
         /\ dev'  \in [Requests -> Devices \cup {None}]
         /\ key'  \in [Requests -> Keys \cup {None}]
         /\ who'  \in [Requests -> Docs \cup {None}]
         /\ copy' \in [Requests -> Account \cup {None}]
         /\ sess' \in [Requests -> Session \cup {None}]
         /\ proved' \subseteq Typed /\ confirmed' \subseteq Owners \X Devices
         /\ faced' \subseteq Docs \X Devices /\ pictured' \subseteq Docs \X Devices
<1> DEFINE Goal == /\ pc'   \in [Requests -> PCs]
                   /\ dev'  \in [Requests -> Devices \cup {None}]
                   /\ key'  \in [Requests -> Keys \cup {None}]
                   /\ who'  \in [Requests -> Docs \cup {None}]
                   /\ copy' \in [Requests -> Account \cup {None}]
                   /\ sess' \in [Requests -> Session \cup {None}]
                   /\ proved' \subseteq Typed /\ confirmed' \subseteq Owners \X Devices
                   /\ faced' \subseteq Docs \X Devices
                   /\ pictured' \subseteq Docs \X Devices
<1>1. TypeOK /\ \A r \in Requests : RequestGood(r)
  BY DEF IInv
<1>2. CASE UNCHANGED <<pc, dev, key, who, copy, sess, ghostVars>>
  BY <1>1, <1>2 DEF TypeOK, ghostVars
<1>3. ASSUME NEW r \in Requests, Start(r) PROVE Goal
  BY <1>1, <1>3 DEF Start, SetAccountImage, RefreshToken, Authenticate,
     VerifyUserAccount, VeirfyDeviceImage, TypeOK, Goto, PCs, ghostVars, Typed, Longer
<1>4. ASSUME NEW r \in Requests, Finish(r), UNCHANGED ghostVars PROVE Goal
  BY <1>1, <1>4 DEF Finish, Goto, TypeOK, PCs, ghostVars
<1>5. ASSUME NEW r \in Requests, FindLogin(r) \/ FindForImage(r) \/ FindForDevice(r) PROVE Goal
  <2>1. UNCHANGED <<dev, key, sess, ghostVars>>
    BY <1>5 DEF FindLogin, FindForImage, FindForDevice
  <2>2. pc' \in [Requests -> PCs]
    BY <1>1, <1>5 DEF FindLogin, FindForImage, FindForDevice, Goto, PCs, TypeOK
  <2>3. \/ UNCHANGED <<who, copy>>
        \/ \E x \in Docs : /\ doc[x] # None
                           /\ who'  = [who  EXCEPT ![r] = x]
                           /\ copy' = [copy EXCEPT ![r] = doc[x]]
    BY <1>5 DEF FindLogin, FindForImage, FindForDevice, Matching
  <2> QED
    BY <1>1, <2>1, <2>2, <2>3 DEF TypeOK, ghostVars
<1>6. ASSUME NEW r \in Requests, FindProfile(r) PROVE Goal
  <2>1. PICK x \in Docs :
          sess' = [sess EXCEPT ![r] = [user |-> x, key |-> Claim(doc[x].key),
                                       verified |-> TRUE, face |-> TRUE]]
          /\ doc[x] \in Account
    BY <1>1, <1>6 DEF FindProfile, Matching, TypeOK
  <2>2. [user |-> x, key |-> Claim(doc[x].key), verified |-> TRUE, face |-> TRUE] \in Session
    BY <2>1 DEF Session, Claim, Account, Typed, Keys
  <2>3. pc' \in [Requests -> PCs] /\ UNCHANGED <<dev, key, who, copy, ghostVars>>
    BY <1>1, <1>6 DEF FindProfile, Goto, PCs, TypeOK
  <2> QED
    BY <1>1, <2>1, <2>2, <2>3 DEF TypeOK, ghostVars
<1>7. ASSUME NEW r \in Requests, MarkVerified(r) PROVE Goal
  <2>1. key[r] \in Typed /\ dev[r] \in Devices /\ key[r].who \in Owners
    BY <1>1, <1>7 DEF MarkVerified, RequestGood, At, Typed, Keys
  <2> QED
    BY <1>1, <1>7, <2>1 DEF MarkVerified, Confirmed, Goto, PCs, TypeOK
<1>8. ASSUME NEW r \in Requests, SaveImage(r) \/ SaveDevice(r) PROVE Goal
  <2>1. /\ dev[r] \in Devices /\ who[r] \in Docs /\ copy[r] \in Account
        /\ Stands(who[r]) /\ copy[r].key = doc[who[r]].key
        /\ copy[r].verified => copy[r].key \in proved
    BY <1>1, <1>8 DEF SaveImage, SaveDevice, RequestGood, CopyGood, At, TypeOK
  <2>2. FullSession(who[r], copy[r]) \in Session
    BY <1>1, <2>1, FullSessionGood
  <2>3. /\ pc' \in [Requests -> PCs] /\ UNCHANGED <<dev, key, who, copy, proved, confirmed>>
        /\ sess' = [sess EXCEPT ![r] = FullSession(who[r], copy[r])]
        /\ faced' \in {faced, faced \cup {<<who[r], dev[r]>>}}
        /\ pictured' \in {pictured, pictured \cup {<<who[r], dev[r]>>}}
    BY <1>1, <1>8 DEF SaveImage, SaveDevice, Goto, PCs, TypeOK
  <2> QED
    BY <1>1, <2>1, <2>2, <2>3 DEF TypeOK
<1>9. ASSUME NEW r \in Requests, FindForRefresh(r) PROVE Goal
  <2>1. /\ sess[r] \in Session /\ Stands(sess[r].user)
    BY <1>1, <1>9 DEF FindForRefresh, RequestGood, SessionGood, At, Stands, TypeOK
  <2>2. sess[r].user \in Docs
    BY <2>1 DEF Session
  <2>3. doc[sess[r].user] \in Account
        /\ (doc[sess[r].user].verified => doc[sess[r].user].key \in proved)
    BY <2>1, <2>2 DEF IInv, Stands, DocsGood, TypeOK
  <2>4. FullSession(sess[r].user, doc[sess[r].user]) \in Session
    BY <1>1, <2>1, <2>2, <2>3, FullSessionGood
  <2>5. /\ pc' \in [Requests -> PCs] /\ UNCHANGED <<dev, key, who, copy, ghostVars>>
        /\ sess' = [sess EXCEPT ![r] = FullSession(sess[r].user, doc[sess[r].user])]
    BY <1>1, <1>9 DEF FindForRefresh, Goto, PCs, TypeOK
  <2> QED
    BY <1>1, <2>4, <2>5 DEF TypeOK, ghostVars
<1>10. ASSUME NEW r \in Requests, SaveAccess(r), ~Finish(r) PROVE Goal
  BY <1>1, <1>10 DEF SaveAccess, Goto, PCs, TypeOK, ghostVars
<1>11. ASSUME NEW r \in Requests, Step(r) PROVE Goal
  <2>1. Create(r) \/ SaveLogin(r) \/ SaveRefresh(r) \/ Abort(r)
          => Finish(r) /\ UNCHANGED ghostVars
    BY DEF Create, SaveLogin, SaveRefresh, Abort
  <2>2. SaveAccess(r) => UNCHANGED ghostVars
    BY DEF SaveAccess
  <2> HIDE DEF Goal
  <2> QED
    BY <1>4, <1>5, <1>6, <1>7, <1>8, <1>9, <1>10, <1>11, <2>1, <2>2 DEF Step
<1> QED
  BY <1>2, <1>3, <1>11, NextSteps DEF Actor

-----------------------------------------------------------------------------
(***************************************************************************)
(* The inductive invariant, and what follows.                              *)
(***************************************************************************)
LEMMA InitIInv == Init => IInv
<1> SUFFICES ASSUME Init PROVE IInv
  OBVIOUS
<1>1. TypeOK
  BY DEF Init, TypeOK, PCs
<1>2. DocsGood /\ CacheGood /\ \A r \in Requests : RequestGood(r)
  BY DEF Init, DocsGood, Stands, CacheGood, RequestGood, CopyGood, SessionGood, At
<1> QED
  BY <1>1, <1>2 DEF IInv

LEMMA NextIInv == IInv /\ [Next]_vars => IInv'
<1> SUFFICES ASSUME IInv, [Next]_vars PROVE IInv'
  OBVIOUS
<1>1. TypeOK'
  BY DocStep, CacheStep, LocalTypes DEF TypeOK
<1>2. DocsGood' /\ CacheGood' /\ Kept /\ TypeOK
  BY DocStep, CacheStep DEF IInv
<1>3. ASSUME NEW s \in Requests PROVE RequestGood(s)'
  <2>1. CASE \E r \in Requests : Actor(r)
    BY <1>2, <2>1, OthersSame, GoodKept, RequestStep
  <2>2. CASE UNCHANGED <<doc, pc, dev, key, who, copy, sess, ghostVars>>
    BY <1>2, <2>2, GoodKept DEF Same
  <2> QED
    BY <2>1, <2>2, NextSteps
<1> QED
  BY <1>1, <1>2, <1>3 DEF IInv

LEMMA Invariance == Spec => []IInv
BY InitIInv, NextIInv, PTL DEF Spec

\* Documents, tokens and what requests hold are always of their types: device
\* lists stay lists of devices, and tokens name documents.
THEOREM TypeCorrect == Spec => []TypeOK
<1>1. IInv => TypeOK
  BY DEF IInv
<1> QED
  BY <1>1, Invariance, PTL

\* For any number of owners, devices and overlapping requests, an account or a
\* session is only ever verified when its very address confirmed a code.
THEOREM VerifiedProved == Spec => []VerifiedWasProved
<1>1. IInv => VerifiedWasProved
  BY DEF IInv, VerifiedWasProved, DocsGood, CacheGood, Names, Backed
<1> QED
  BY <1>1, Invariance, PTL

\* A picture is set with the session of a confirmed code only: what the session, and the
\* request it lets in, goes back to.
LEMMA ConfirmedStep ==
  ASSUME IInv, ConfirmedGood, [Next]_vars
  PROVE  ConfirmedGood'
<1>1. TypeOK /\ Kept /\ \A r \in Requests : RequestGood(r)
  BY DocStep DEF IInv
<1>2. confirmed \subseteq confirmed'
  BY DEF Next, Start, Step, SetAccountImage, RefreshToken, Authenticate, VerifyUserAccount,
     VeirfyDeviceImage, FindLogin, Create, SaveLogin, FindProfile, MarkVerified, Confirmed,
     FindForImage, SaveImage, FindForDevice, SaveDevice, FindForRefresh, SaveAccess,
     SaveRefresh, Abort, ExpireAccess, ExpireRefresh, ghostVars, vars
<1>3. ASSUME NEW p \in pictured'
      PROVE  doc'[p[1]] # None /\ <<doc'[p[1]].key.who, p[2]>> \in confirmed'
  <2>1. CASE p \in pictured
    <3>1. p[1] \in Docs /\ Stands(p[1]) /\ <<doc[p[1]].key.who, p[2]>> \in confirmed
      BY <1>1, <2>1 DEF ConfirmedGood, TypeOK
    <3> QED
      BY <1>1, <1>2, <3>1 DEF Kept, Stays
  <2>2. CASE p \notin pictured
    <3>1. PICK r \in Requests : SaveImage(r)
      BY <2>2 DEF Next, Start, Step, SetAccountImage, RefreshToken, Authenticate,
         VerifyUserAccount, VeirfyDeviceImage, FindLogin, Create, SaveLogin, FindProfile,
         MarkVerified, FindForImage, FindForDevice, SaveDevice, FindForRefresh, SaveAccess,
         SaveRefresh, Abort, ExpireAccess, ExpireRefresh, ghostVars, vars
    <3>2. p = <<who[r], dev[r]>> /\ At(r, "saveImage")
      BY <2>2, <3>1 DEF SaveImage
    <3>3. /\ who[r] \in Docs /\ Stands(who[r]) /\ sess[r].key.who = doc[who[r]].key.who
          /\ <<sess[r].key.who, dev[r]>> \in confirmed
      BY <1>1, <3>2 DEF RequestGood, CopyGood, SessionGood, ConfirmedGood, At
    <3> QED
      BY <1>1, <1>2, <3>2, <3>3 DEF Kept, Stays
  <2> QED
    BY <2>1, <2>2
<1>4. ASSUME NEW d \in Devices, access'[d] # None, access'[d].face
      PROVE  <<access'[d].key.who, d>> \in confirmed'
  <2>1. CASE access'[d] = access[d]
    BY <1>2, <1>4, <2>1 DEF ConfirmedGood
  <2>2. CASE access'[d] # access[d]
    <3>1. PICK r \in Requests : SaveAccess(r)
      BY <1>4, <2>2, <1>1 DEF Next, Start, Step, SetAccountImage, RefreshToken, Authenticate,
         VerifyUserAccount, VeirfyDeviceImage, FindLogin, Create, SaveLogin, FindProfile,
         MarkVerified, FindForImage, SaveImage, FindForDevice, SaveDevice, FindForRefresh,
         SaveRefresh, Abort, ExpireAccess, ExpireRefresh, cacheVars, vars, TypeOK
    <3>2. d = dev[r] /\ access'[d] = sess[r] /\ At(r, "saveAccess")
      BY <1>1, <2>2, <3>1 DEF SaveAccess, Written, TypeOK
    <3> QED
      BY <1>2, <1>4, <3>2 DEF ConfirmedGood
  <2> QED
    BY <2>1, <2>2
<1>5. ASSUME NEW r \in Requests,
             pc'[r] \in {"findForImage", "saveImage"} \/ (pc'[r] = "saveAccess" /\ sess'[r].face)
      PROVE  <<sess'[r].key.who, dev'[r]>> \in confirmed'
  <2>1. CASE Same(r)
    BY <1>2, <1>5, <2>1 DEF ConfirmedGood, Same, At
  <2>2. CASE ~Same(r)
    <3>1. Actor(r)
      BY <1>1, <2>2, OthersSame, NextSteps DEF Same
    <3>2. CASE \E d \in Devices : SetAccountImage(r, d)
      BY <1>1, <1>2, <3>2 DEF SetAccountImage, ConfirmedGood, TypeOK
    <3>3. CASE MarkVerified(r)
      <4>1. /\ sess' = sess /\ dev' = dev /\ sess[r].key.who = key[r].who
            /\ <<key[r].who, dev[r]>> \in confirmed'
        BY <1>1, <3>3 DEF MarkVerified, Confirmed, RequestGood, SessionGood, Names, At
      <4> QED
        BY <4>1
    <3>4. CASE FindForImage(r)
      BY <1>2, <3>4 DEF FindForImage, ConfirmedGood, At
    <3>5. CASE SaveImage(r) \/ SaveDevice(r) \/ FindForRefresh(r)
      <4>1. pc'[r] = "saveAccess" /\ ~sess'[r].face
        BY <1>1, <3>5 DEF SaveImage, SaveDevice, FindForRefresh, FullSession, Goto, TypeOK
      <4> QED
        BY <1>5, <4>1
    <3>6. CASE ~\E d \in Devices : SetAccountImage(r, d)
      <4>1. ~(MarkVerified(r) \/ FindForImage(r) \/ SaveImage(r) \/ SaveDevice(r)
               \/ FindForRefresh(r))
              => pc'[r] \notin {"findForImage", "saveImage", "saveAccess"}
        BY <1>1, <3>1, <3>6 DEF Actor, Start, Step, RefreshToken, Authenticate,
           VerifyUserAccount, VeirfyDeviceImage, FindLogin, Create, SaveLogin, FindProfile,
           FindForDevice, SaveAccess, SaveRefresh, Abort, Finish, Goto, TypeOK
      <4> QED
        BY <1>5, <3>3, <3>4, <3>5, <4>1
    <3> QED
      BY <3>2, <3>6
  <2> QED
    BY <2>1, <2>2
<1> QED
  BY <1>3, <1>4, <1>5 DEF ConfirmedGood, Stands, At

\* For any number of owners, accounts, devices and overlapping requests: a refresh token
\* goes back to a comparison of faces, or to a picture set after a confirmed code of the
\* account's owner, on its very device.
THEOREM RefreshesEarned == Spec => []RefreshEarned
<1>1. Init => ConfirmedGood
  BY DEF Init, ConfirmedGood, At
<1>2. IInv /\ ConfirmedGood => RefreshEarned
  <2> SUFFICES ASSUME IInv, ConfirmedGood, NEW d \in Devices, refresh[d] # None,
                      <<refresh[d].user, d>> \notin faced
               PROVE  LET x == refresh[d].user
                      IN  /\ <<x, d>> \in pictured /\ Stands(x)
                          /\ <<doc[x].key.who, d>> \in confirmed
    BY DEF RefreshEarned
  <2>1. <<refresh[d].user, d>> \in pictured
    BY DEF IInv, CacheGood, Granted
  <2> QED
    BY <2>1 DEF ConfirmedGood
<1>3. IInv /\ ConfirmedGood /\ [Next]_vars => ConfirmedGood'
  BY ConfirmedStep
<1> QED
  BY <1>1, <1>2, <1>3, Invariance, PTL DEF Spec

\* The same for pictures and the owner of the account.
THEOREM ImagesOfOwners == Spec => []ImageOfOwner
<1>1. IInv => ImageOfOwner
  BY DEF IInv, ImageOfOwner, DocsGood, Owned
<1> QED
  BY <1>1, Invariance, PTL

\* No step but the write of a log-in clears a verification or a picture: the
\* other writers set, of what they may have read long ago, only their own fields.
THEOREM LoginsTakeBack == Spec => OnlyLoginTakesBack
<1> DEFINE ByLogin == \A x \in Docs : TakenBack(x) =>
               \E r \in Requests : At(r, "saveLogin") /\ who[r] = x /\ dev'[r] = None
<1>1. IInv /\ [Next]_vars => [ByLogin]_vars
  <2> SUFFICES ASSUME IInv, [Next]_vars, NEW x \in Docs, TakenBack(x)
               PROVE  \E r \in Requests : /\ At(r, "saveLogin") /\ who[r] = x
                                          /\ dev'[r] = None
    OBVIOUS
  <2>1. TypeOK /\ doc[x] \in Account
    BY DEF IInv, TypeOK, TakenBack, Stands
  <2>2. doc'[x] # doc[x]
    BY <2>1 DEF TakenBack
  <2>3. PICK r \in Requests : Actor(r)
    BY <2>2, NextSteps
  <2>4. CASE SaveLogin(r)
    <3>1. At(r, "saveLogin") /\ Finish(r)
      BY <2>4 DEF SaveLogin
    <3>2. dev'[r] = None
      BY <2>1, <3>1 DEF Finish, TypeOK
    <3>3. PICK a : doc' = [doc EXCEPT ![who[r]] = a]
      BY <2>4 DEF SaveLogin
    <3>4. who[r] = x
      BY <2>1, <2>2, <3>3 DEF TypeOK
    <3> QED
      BY <3>1, <3>2, <3>4
  <2>5. CASE Create(r)
    BY <2>1, <2>2, <2>5 DEF Create, TypeOK, TakenBack, Stands
  <2>6. CASE MarkVerified(r)
    <3>1. doc'[x] = [doc[x] EXCEPT !.verified = TRUE]
      BY <2>1, <2>2, <2>6 DEF MarkVerified, TypeOK
    <3>2. doc'[x].verified /\ doc'[x].image = doc[x].image
      BY <2>1, <3>1 DEF Account
    <3> QED
      BY <3>2 DEF TakenBack
  <2>7. CASE SaveImage(r)
    <3>1. PICK l : doc' = [doc EXCEPT ![who[r]].image = sess[r].user, ![who[r]].devices = l]
      BY <2>7 DEF SaveImage
    <3>2. doc'[x] = [doc[x] EXCEPT !.image = sess[r].user, !.devices = l]
      BY <2>1, <2>2, <3>1 DEF TypeOK
    <3>3. sess[r].user # None
      <4>1. RequestGood(r) /\ pc[r] = "saveImage"
        BY <2>7 DEF IInv, SaveImage, At
      <4>2. sess[r] \in Session
        BY <2>1, <4>1 DEF RequestGood, SessionGood, TypeOK
      <4> QED
        BY <4>2, ConstantsAssumption DEF Session
    <3>4. doc'[x].verified = doc[x].verified /\ doc'[x].image = sess[r].user
      BY <2>1, <3>2 DEF Account
    <3> QED
      BY <3>3, <3>4 DEF TakenBack
  <2>8. CASE SaveDevice(r)
    <3>1. PICK l : doc' = [doc EXCEPT ![who[r]].devices = l]
      BY <2>8 DEF SaveDevice
    <3>2. doc'[x] = [doc[x] EXCEPT !.devices = l]
      BY <2>1, <2>2, <3>1 DEF TypeOK
    <3>3. doc'[x].verified = doc[x].verified /\ doc'[x].image = doc[x].image
      BY <2>1, <3>2 DEF Account
    <3> QED
      BY <3>3 DEF TakenBack
  <2>9. CASE /\ ~Create(r) /\ ~SaveLogin(r) /\ ~SaveImage(r)
             /\ ~SaveDevice(r) /\ ~MarkVerified(r)
    BY <2>2, <2>3, <2>9
    DEF Actor, Start, Step, SetAccountImage, RefreshToken, Authenticate,
        VerifyUserAccount, VeirfyDeviceImage, FindLogin, FindProfile, FindForImage,
        FindForDevice, FindForRefresh, SaveAccess, SaveRefresh, Abort
  <2> QED
    BY <2>4, <2>5, <2>6, <2>7, <2>8, <2>9
<1> QED
  BY <1>1, Invariance, PTL DEF Spec, OnlyLoginTakesBack

-----------------------------------------------------------------------------
(***************************************************************************)
(* How many accounts an address can have.                                  *)
(***************************************************************************)
LEMMA CreatingFinite ==
  ASSUME NEW k
  PROVE  /\ IsFiniteSet(Creating(k)) /\ Cardinality(Creating(k)) \in Nat
         /\ IsFiniteSet(Creating(k))' /\ Cardinality(Creating(k))' \in Nat
         /\ Cardinality(Creating(k))' <= Cardinality(Requests)
         /\ Cardinality(Requests) \in Nat
<1>1. Creating(k) \subseteq Requests /\ Creating(k)' \subseteq Requests
  BY DEF Creating
<1> QED
  BY <1>1, ConstantsAssumption, FS_Subset, FS_CardinalityType

\* Only Create adds a document, and no step changes the address of one.
LEMMA MatchingSame ==
  ASSUME IInv, [Next]_vars, NEW k,
         \A r \in Requests : ~(Create(r) /\ key[r] = k)
  PROVE  Matching(k)' = Matching(k)
<1>1. TypeOK /\ Kept
  BY DocStep DEF IInv
<1> SUFFICES ASSUME NEW x \in Docs, doc'[x] # None, doc'[x].key = k
             PROVE  doc[x] # None /\ doc[x].key = k
  BY <1>1 DEF Matching, Kept, Stays, Stands
<1>2. CASE doc[x] # None
  BY <1>1, <1>2 DEF Kept, Stays, Stands
<1>3. CASE doc[x] = None
  <2>1. PICK r \in Requests : Actor(r)
    BY <1>3, NextSteps
  <2>2. CASE Create(r)
    <3>1. PICK w \in Docs : doc' = [doc EXCEPT ![w] =
            [key |-> key[r], verified |-> FALSE, image |-> None,
             devices |-> <<[id |-> dev[r], verified |-> FALSE]>>]]
      BY <2>2 DEF Create
    <3>2. doc'[x].key = key[r]
      BY <1>1, <1>3, <3>1 DEF TypeOK
    <3> QED
      BY <2>2, <3>2
  <2>3. CASE SaveLogin(r) \/ SaveImage(r) \/ SaveDevice(r)
    <3>1. Stands(who[r])
      BY <2>3 DEF IInv, RequestGood, CopyGood, SaveLogin, SaveImage, SaveDevice, At
    <3>2. \A y \in Docs : y # who[r] => doc'[y] = doc[y]
      BY <1>1, <2>3 DEF SaveLogin, SaveImage, SaveDevice, TypeOK
    <3> QED
      BY <1>3, <3>1, <3>2 DEF Stands
  <2>4. CASE MarkVerified(r)
    BY <1>3, <2>4 DEF MarkVerified, Matching
  <2>5. CASE /\ ~Create(r) /\ ~SaveLogin(r) /\ ~SaveImage(r)
             /\ ~SaveDevice(r) /\ ~MarkVerified(r)
    BY <1>3, <2>1, <2>5
    DEF Actor, Start, Step, SetAccountImage, RefreshToken, Authenticate,
        VerifyUserAccount, VeirfyDeviceImage, FindLogin, FindProfile, FindForImage,
        FindForDevice, FindForRefresh, SaveAccess, SaveRefresh, Abort
  <2> QED
    BY <2>2, <2>3, <2>4, <2>5
<1> QED
  BY <1>2, <1>3

\* A request gets a place only by seeing that there is no account.
LEMMA CreatingGrows ==
  ASSUME IInv, [Next]_vars, NEW k \in Typed, k.plain
  PROVE  Creating(k)' \subseteq Creating(k) \/ Matching(k) = {}
<1>1. TypeOK
  BY DEF IInv
<1> SUFFICES ASSUME NEW s \in Requests, s \in Creating(k)', s \notin Creating(k)
             PROVE  Matching(k) = {}
  BY DEF Creating
<1>2. pc'[s] = "create" /\ key'[s] = k /\ ~(pc[s] = "create" /\ key[s] = k)
  BY DEF Creating, At
<1>3. PICK r \in Requests : Actor(r)
  BY <1>2, NextSteps
<1>4. r = s
  BY <1>1, <1>2, <1>3, OthersSame DEF Same
<1>5. FindLogin(r)
  <2>1. CASE Start(r)
    BY <1>1, <1>2, <1>4, <2>1 DEF Start, SetAccountImage, RefreshToken, Authenticate,
       VerifyUserAccount, VeirfyDeviceImage, Goto, TypeOK
  <2>2. CASE \/ Create(r) \/ SaveLogin(r) \/ SaveRefresh(r) \/ Abort(r)
    BY <1>1, <1>2, <1>4, <2>2, FinishDone DEF Create, SaveLogin, SaveRefresh, Abort
  <2>3. CASE FindProfile(r) \/ MarkVerified(r) \/ FindForImage(r) \/ SaveImage(r)
             \/ FindForDevice(r) \/ SaveDevice(r) \/ FindForRefresh(r)
    BY <1>1, <1>2, <1>4, <2>3 DEF FindProfile, MarkVerified, FindForImage, SaveImage,
       FindForDevice, SaveDevice, FindForRefresh, Goto, TypeOK
  <2>4. CASE SaveAccess(r)
    BY <1>1, <1>2, <1>4, <2>4, FinishDone DEF SaveAccess, Goto, TypeOK
  <2> QED
    BY <1>3, <2>1, <2>2, <2>3, <2>4 DEF Actor, Step
<1>6. Matching(Lower(key[r])) = {} /\ key[r] = k
  BY <1>1, <1>2, <1>4, <1>5 DEF FindLogin, Goto, TypeOK
<1>7. Lower(k) = k
  BY DEF Lower, Typed, Keys
<1> QED
  BY <1>6, <1>7

LEMMA PlacesStep == IInv /\ Places /\ [Next]_vars => Places'
<1> SUFFICES ASSUME IInv, Places, [Next]_vars, NEW k \in Typed, k.plain
             PROVE  (/\ IsFiniteSet(Matching(k))
                     /\ Cardinality(Matching(k)) + Cardinality(Creating(k))
                          <= Cardinality(Requests))'
  BY DEF Places
<1> DEFINE M == Matching(k)  C == Creating(k)  D == Creating(k)'
<1>1. /\ IsFiniteSet(M) /\ Cardinality(M) \in Nat
      /\ Cardinality(M) + Cardinality(C) <= Cardinality(Requests)
  BY FS_CardinalityType DEF Places
<1>2. /\ IsFiniteSet(C) /\ Cardinality(C) \in Nat
      /\ IsFiniteSet(D) /\ Cardinality(D) \in Nat
      /\ Cardinality(D) <= Cardinality(Requests) /\ Cardinality(Requests) \in Nat
  BY CreatingFinite
<1>3. D \subseteq C \/ M = {}
  BY CreatingGrows
<1>4. CASE \A r \in Requests : ~(Create(r) /\ key[r] = k)
  <2>1. Matching(k)' = M
    BY <1>4, MatchingSame
  <2>2. CASE D \subseteq C
    <3>1. Cardinality(D) <= Cardinality(C)
      BY <1>2, <2>2, FS_Subset
    <3> QED
      BY <1>1, <1>2, <2>1, <3>1
  <2>3. CASE M = {}
    <3>1. Cardinality(M) = 0
      BY <2>3, FS_EmptySet
    <3> QED
      BY <1>1, <1>2, <2>1, <3>1
  <2> QED
    BY <1>3, <2>2, <2>3
<1>5. ASSUME NEW r \in Requests, Create(r), key[r] = k
      PROVE  (/\ IsFiniteSet(Matching(k))
              /\ Cardinality(Matching(k)) + Cardinality(Creating(k))
                   <= Cardinality(Requests))'
  <2>1. TypeOK /\ At(r, "create")
    BY <1>5 DEF IInv, Create
  <2>2. PICK x \in Docs : /\ doc[x] = None
                          /\ doc' = [doc EXCEPT ![x] =
                               [key |-> key[r], verified |-> FALSE, image |-> None,
                                devices |-> <<[id |-> dev[r], verified |-> FALSE]>>]]
    BY <1>5 DEF Create
  <2>3. /\ \A y \in Docs : y # x => doc'[y] = doc[y]
        /\ doc'[x].key = k
    BY <1>5, <2>1, <2>2 DEF TypeOK
  <2>4. Matching(k)' \subseteq M \cup {x}
    BY <2>3 DEF Matching
  <2>5. IsFiniteSet(M \cup {x}) /\ Cardinality(M \cup {x}) <= Cardinality(M) + 1
    <3>1. x \notin M
      BY <2>2 DEF Matching
    <3> HIDE DEF M
    <3>2. IsFiniteSet(M) /\ Cardinality(M) \in Nat
      BY <1>1
    <3>3. IsFiniteSet(M \cup {x}) /\ Cardinality(M \cup {x}) = Cardinality(M) + 1
      BY <3>1, <3>2, FS_AddElement
    <3> QED
      BY <3>2, <3>3
  <2>6. IsFiniteSet(Matching(k)') /\ Cardinality(Matching(k)') \in Nat
        /\ Cardinality(Matching(k)') <= Cardinality(M) + 1
    <3>1. IsFiniteSet(Matching(k)') /\ Cardinality(Matching(k)') <= Cardinality(M \cup {x})
      BY <2>4, <2>5, FS_Subset
    <3>2. Cardinality(Matching(k)') \in Nat /\ Cardinality(M \cup {x}) \in Nat
      BY <2>5, <3>1, FS_CardinalityType
    <3> QED
      BY <1>1, <2>5, <3>1, <3>2
  <2>7. r \in C /\ D \subseteq C \ {r}
    <3>1. r \in C
      BY <1>5, <2>1 DEF Creating
    <3>2. pc'[r] = "idle"
      BY <1>5, <2>1, FinishDone DEF Create
    <3>3. ASSUME NEW s \in D PROVE s \in C \ {r}
      <4>1. s \in Requests /\ pc'[s] = "create" /\ key'[s] = k /\ s # r
        BY <3>2, <3>3 DEF Creating, At
      <4>2. Same(s)
        BY <1>5, <2>1, <4>1, OthersSame DEF Actor, Step
      <4> QED
        BY <4>1, <4>2 DEF Same, Creating, At
    <3> QED
      BY <3>1, <3>3
  <2>8. Cardinality(D) <= Cardinality(C) - 1
    <3>1. IsFiniteSet(C \ {r}) /\ Cardinality(C \ {r}) = Cardinality(C) - 1
      BY <1>2, <2>7, FS_RemoveElement
    <3> QED
      BY <2>7, <3>1, FS_Subset
  <2> HIDE DEF M, C, D
  <2>9. Cardinality(Matching(k)') + Cardinality(D) <= Cardinality(Requests)
    BY <1>1, <1>2, <2>6, <2>8
  <2> QED
    BY <2>6, <2>9 DEF D
<1> QED
  BY <1>4, <1>5

LEMMA PlacesInvariant == Spec => []Places
<1>1. Init => Places
  <2> SUFFICES ASSUME Init, NEW k
               PROVE  /\ IsFiniteSet(Matching(k))
                      /\ Cardinality(Matching(k)) + Cardinality(Creating(k))
                           <= Cardinality(Requests)
    BY DEF Places
  <2>1. Matching(k) = {} /\ Creating(k) = {}
    BY DEF Init, Matching, Creating, At
  <2>2. IsFiniteSet({}) /\ Cardinality({}) = 0
    BY FS_EmptySet
  <2>3. Cardinality(Requests) \in Nat
    BY FS_CardinalityType, ConstantsAssumption
  <2> QED
    BY <2>1, <2>2, <2>3
<1> QED
  BY <1>1, PlacesStep, Invariance, PTL DEF Spec

\* However many sign-ups overlap, an address in lower case or a number never has
\* more accounts than there can be requests in flight, although nothing in the
\* database keeps a second account out.
THEOREM AccountsBounded == Spec => []AccountsBound
<1>1. Places => AccountsBound
  <2> SUFFICES ASSUME Places, NEW k \in Typed, k.plain
               PROVE  Cardinality(Matching(k)) <= Cardinality(Requests)
    BY DEF AccountsBound
  <2>1. /\ IsFiniteSet(Matching(k)) /\ Cardinality(Matching(k)) \in Nat
        /\ Cardinality(Matching(k)) + Cardinality(Creating(k)) <= Cardinality(Requests)
    BY FS_CardinalityType DEF Places
  <2> QED
    BY <2>1, CreatingFinite
<1> QED
  BY <1>1, PlacesInvariant, PTL

-----------------------------------------------------------------------------
(***************************************************************************)
(* The sessions Account makes are what the middlewares of Routes let in.   *)
(* The rest is about the steps of that module, taken as an instance over   *)
(* the state of RouteTable: for any requests, devices, accounts,           *)
(* workspaces and permissions, and any handlers served.  RouteInv says of  *)
(* each request where it is in the chain, what its context holds there and *)
(* for which session it was let through; the ghost set of a request only   *)
(* grows, so that a session that was in the cache once stays in it.        *)
(***************************************************************************)
R == INSTANCE Routes

\* The instance has the tables of RouteTable, and what is said of either is the same.
LEMMA SameTables ==
  /\ R!AppRoutes = AppRoutes /\ R!AppPageRoutes = AppPageRoutes
  /\ R!AppUserRoutes = AppUserRoutes /\ R!AuthRoutes = AuthRoutes
  /\ R!UserRoutes = UserRoutes /\ R!WorkspaceRoutes = WorkspaceRoutes
  /\ R!MiscRoutes = MiscRoutes /\ R!BiometricRoutes = BiometricRoutes
<1> USE DEF R!Route, Route, R!ById, ById
<1>1. R!AppRoutes = AppRoutes
  BY DEF R!AppRoutes, AppRoutes
<1>2. R!AppPageRoutes = AppPageRoutes
  BY DEF R!AppPageRoutes, AppPageRoutes
<1>3. R!AppUserRoutes = AppUserRoutes
  BY DEF R!AppUserRoutes, AppUserRoutes
<1>4. R!AuthRoutes = AuthRoutes
  BY DEF R!AuthRoutes, AuthRoutes
<1>5. R!UserRoutes = UserRoutes
  BY DEF R!UserRoutes, UserRoutes
<1>6. R!WorkspaceRoutes = WorkspaceRoutes
  BY DEF R!WorkspaceRoutes, WorkspaceRoutes
<1>7. R!MiscRoutes = MiscRoutes
  BY DEF R!MiscRoutes, MiscRoutes
<1>8. R!BiometricRoutes = BiometricRoutes
  BY DEF R!BiometricRoutes, BiometricRoutes
<1> QED
  BY <1>1, <1>2, <1>3, <1>4, <1>5, <1>6, <1>7, <1>8

LEMMA SameRouter == R!Router = Router /\ R!Handlers = Handlers
<1>1. \A f, g : R!++(f, g) = (f ++ g)
  BY DEF R!++, ++
<1>2. R!Router = Router
  BY <1>1, SameTables DEF R!Router, Router
<1> QED
  BY <1>2 DEF R!Handlers, Handlers

LEMMA SameReads == \A h : R!Reads(h) = Reads(h)
<1> USE DEF R!++, ++
<1>1. R!ApplicationReads = ApplicationReads
  BY DEF R!ApplicationReads, ApplicationReads
<1>2. R!AuthReads = AuthReads
  BY DEF R!AuthReads, AuthReads
<1>3. R!UserReads = UserReads
  BY DEF R!UserReads, UserReads
<1>4. R!WorkspaceReads = WorkspaceReads
  BY DEF R!WorkspaceReads, WorkspaceReads
<1>5. R!MiscReads = MiscReads
  BY DEF R!MiscReads, MiscReads
<1>6. R!AllReads = AllReads
  BY <1>1, <1>2, <1>3, <1>4, <1>5 DEF R!AllReads, AllReads
<1> QED
  BY <1>6 DEF R!Reads, Reads

LEMMA SameGaps == R!Gaps = Gaps
BY DEF R!Gaps, Gaps, R!++, ++

LEMMA ServedRoutes ==
  /\ Served \subseteq R!Handlers /\ None \notin R!Handlers
  /\ Members \subseteq DOMAIN Of \cap DOMAIN Grants /\ None \notin Devices
BY RoutesAssumption, SameRouter

\* What the context of a request holds once its middleware has let it through.
KeysOf(auth) ==
  CASE auth = "user"      -> {"UserID", "Email", "Phone", "Keys.UserAgent", "Keys.DeviceID"}
    [] auth = "workspace" -> {"UserID", "WorkspaceID", "WorkspaceName", "WorkspaceEmail",
                              "Email", "Keys.UserAgent", "Keys.DeviceID"}
    [] auth = "otp"       -> {"OTPToken", "OTPEmail", "OTPPhone"}
    [] auth = "refresh"   -> {"UserID", "Email", "Phone"}
    [] OTHER              -> {}
AgentFields == {"DeviceID", "DeviceName", "UserAgent", "Header"}
FieldsOf(auth) == IF auth = "none" THEN AgentFields ELSE {"Header", "DeviceID"}

\* What the route of a handler hands it.
Handed(h) ==
  LET passes == R!Router[h].passes  auth == R!Router[h].auth IN
  (IF "Keys" \in passes THEN KeysOf(auth) ELSE {})
  \cup (passes \cap FieldsOf(auth))
  \cup (passes \ {"Keys", "DeviceID", "DeviceName", "UserAgent"})

Demands == {R!Router[h].demand : h \in Served}
LogInRecord == [kind : R!Kinds, device : Devices, account : Users \cup Members,
            intent : {None, "face_verification"}]
RequestRecord == [route : Served \cup {None}, device : Devices \cup {None},
            cookie : [R!Kinds -> Nat], otp : Demands \cup {None}]
Labels == AgentFields \cup KeysOf("user") \cup KeysOf("workspace") \cup KeysOf("otp")
ContextRecord == [keys : SUBSET Labels, fields : SUBSET Labels, who : Nat]

RouteTypes ==
  /\ session \in Seq(LogInRecord)
  /\ live \in [R!Kinds -> [R!Types -> [Devices -> 0..Len(session)]]]
  /\ otps \in [given : SUBSET Demands, recorded : Demands \cup {None}, used : SUBSET Demands]
  /\ otps.used \subseteq otps.given
  /\ stage \in [Requests -> {"idle", "agent", "auth", "member", "bind", "handler"}]
  /\ req \in [Requests -> RequestRecord] /\ ctx \in [Requests -> ContextRecord]
  /\ given = [r \in Requests |-> given[r]] /\ held \in [Requests -> SUBSET Nat]

\* A request brings sessions of the kind its cookie is named for, and a token given.
Brought(r) ==
  IF stage[r] = "idle" THEN req[r].route = None
  ELSE /\ req[r].route \in Served
       /\ \A k \in R!Kinds : req[r].cookie[k] # 0 =>
            /\ req[r].cookie[k] \in DOMAIN session
            /\ session[req[r].cookie[k]].kind = k
       /\ req[r].otp \in otps.given \cup {None}

\* What the cache holds for the device of a request is in its ghost set.
Watched(r) ==
  stage[r] \notin {"idle", "agent"} =>
    /\ req[r].device \in Devices
    /\ R!InCache(live, req[r].route, req[r].device) \subseteq held[r] \cup {0}

\* The session is of the device, and was in the cache since the request came.
HeldFor(r, n) ==
  /\ n \in DOMAIN session /\ n \in held[r] /\ session[n].device = req[r].device

\* The caller a request was let through for.
Admitted(r) ==
  LET n == ctx[r].who IN
  /\ R!Auth(r) \in {"user", "workspace", "refresh"} => HeldFor(r, n)
  /\ R!Auth(r) \in {"user", "workspace"} => session[n].kind = R!Auth(r)
  /\ R!Auth(r) = "user" => R!Demand(r) \in {None, session[n].intent}
  /\ R!Auth(r) = "workspace" =>
       \E m \in Members : /\ Of[m] = Of[session[n].account]
                          /\ Grants[m] \cap {R!Demand(r), "super"} # {}
  /\ R!Auth(r) \in {"otp", "none"} => n = 0
  /\ R!Auth(r) = "otp" => req[r].otp = R!Demand(r) /\ req[r].otp \in otps.given

\* The context of a request at each point of the chain.
Contextual(r) ==
  /\ stage[r] \in {"idle", "agent"} => ctx[r] = R!NoCtx
  /\ stage[r] \in {"auth", "member"} =>
       ctx[r] = [keys |-> {}, fields |-> AgentFields, who |-> 0]
  /\ stage[r] \in {"bind", "handler"} =>
       /\ ctx[r].keys = KeysOf(R!Auth(r)) /\ ctx[r].fields = FieldsOf(R!Auth(r))
       /\ Admitted(r)
  /\ stage[r] = "auth" => R!Auth(r) # "none"
  /\ stage[r] = "member" => R!Auth(r) = "workspace" /\ HeldFor(r, req[r].cookie["workspace"])
  /\ stage[r] = "handler" => given[r] = Handed(req[r].route)

Chained(r) == Brought(r) /\ Watched(r) /\ Contextual(r)
RouteInv == RouteTypes /\ \A r \in Requests : Chained(r)

\* The handlers the tables list.
LEMMA RouteNames ==
  /\ DOMAIN R!AppRoutes =
       {"CreateApplication", "UpdateWhiteListedIPs", "UpdateApplication",
        "RefreshAppAPIKey", "RefreshSandboxAppAPIKey", "RefreshAppSigningKey",
        "RefreshSandboxAppSigningKey", "FetchWorkspaceApps"}
  /\ DOMAIN R!AppPageRoutes =
       {"FetchAppDetails", "DeleteApplication", "FetchAppCreationConfigInfo",
        "ApplicationSignUp", "FetchAppUsers", "ToggleMFAProtectionSetting"}
  /\ DOMAIN R!AppUserRoutes =
       {"BlockAccounts", "UnblockAccounts", "UpdateAccessRefreshTokenTTL",
        "GetAppMetrics", "SubmitCustomAppForm", "FetchActivityLogs"}
  /\ DOMAIN R!AuthRoutes =
       {"VerifyOTP", "VerifyUserAccount", "VeirfyDeviceImage", "RefreshToken",
        "WorkspaceRefreshToken", "AuthenticateUser", "ResendOTP"}
  /\ DOMAIN R!UserRoutes =
       {"SetAccountImage", "SetNINDetails", "SetDriversLicenseDetails",
        "VerifyNINDetails", "SetBVNDetails", "VerifyBVNDetails", "SetVoterIDDetails",
        "VerifyVoterIDDetails"}
  /\ DOMAIN R!WorkspaceRoutes =
       {"CreateWorkspace", "InviteWorkspaceMembers", "VerifyWorkspaceAccount",
        "LoginWorkspaceMember", "CreateHelpRequest", "FetchHelpRequests",
        "FetchWorkspaceDetails"}
  /\ DOMAIN R!MiscRoutes =
       {"GeneratedSignedURL", "GetSubscriptionPlans", "GeneratePaymentLink",
        "GenerateLinkToAddCard"}
  /\ DOMAIN R!BiometricRoutes =
       {"CompareFaces", "ImageLivenessCheck", "GenerateChallenge", "VideoLivenessCheck",
        "EnhancedFaceComparison", "EnhancedLivenessCheck", "ImageQualityCheck",
        "SystemHealthCheck"}
BY DEF R!AppRoutes, R!AppPageRoutes, R!AppUserRoutes, R!AuthRoutes, R!UserRoutes,
       R!WorkspaceRoutes, R!MiscRoutes, R!BiometricRoutes

LEMMA ReadNames ==
  /\ DOMAIN R!ApplicationReads =
       {"CreateApplication", "FetchAppDetails", "DeleteApplication",
        "ApplicationSignUp", "SubmitCustomAppForm", "FetchWorkspaceApps",
        "FetchAppUsers", "GetAppMetrics", "UpdateApplication",
        "UpdateAccessRefreshTokenTTL", "BlockAccounts", "UnblockAccounts",
        "UpdateWhiteListedIPs", "ToggleMFAProtectionSetting", "RefreshAppAPIKey",
        "RefreshAppSigningKey", "RefreshSandboxAppAPIKey", "RefreshSandboxAppSigningKey"}
  /\ DOMAIN R!AuthReads =
       {"AuthenticateUser", "VerifyUserAccount", "VerifyWorkspaceAccount",
        "VeirfyDeviceImage", "RefreshToken", "WorkspaceRefreshToken"}
  /\ DOMAIN R!UserReads =
       {"SetAccountImage", "SetDriversLicenseDetails", "SetNINDetails", "SetBVNDetails",
        "SetVoterIDDetails", "VerifyNINDetails", "VerifyBVNDetails",
        "VerifyVoterIDDetails"}
  /\ DOMAIN R!WorkspaceReads =
       {"CreateWorkspace", "LoginWorkspaceMember", "FetchWorkspaceDetails",
        "InviteWorkspaceMembers", "CreateHelpRequest", "FetchHelpRequests",
        "FetchActivityLogs"}
  /\ DOMAIN R!MiscReads =
       {"GeneratedSignedURL", "GeneratePaymentLink", "GenerateLinkToAddCard"}
BY DEF R!ApplicationReads, R!AuthReads, R!UserReads, R!WorkspaceReads, R!MiscReads, R!++

\* The one table holds what the other holds.
Within(whole, part) == \A h \in DOMAIN part : h \in DOMAIN whole /\ whole[h] = part[h]

\* No handler is listed twice: the joined tables hold each of their parts.
LEMMA RouterTables ==
  /\ Within(R!Router, R!AppRoutes)
  /\ Within(R!Router, R!AppPageRoutes)
  /\ Within(R!Router, R!AppUserRoutes)
  /\ Within(R!Router, R!AuthRoutes)
  /\ Within(R!Router, R!UserRoutes)
  /\ Within(R!Router, R!WorkspaceRoutes)
  /\ Within(R!Router, R!MiscRoutes)
  /\ Within(R!Router, R!BiometricRoutes)
  /\ DOMAIN R!Router =
       DOMAIN R!AppRoutes \cup DOMAIN R!AppPageRoutes \cup DOMAIN R!AppUserRoutes
       \cup DOMAIN R!AuthRoutes \cup DOMAIN R!UserRoutes \cup DOMAIN R!WorkspaceRoutes
       \cup DOMAIN R!MiscRoutes \cup DOMAIN R!BiometricRoutes
<1>1. Within(R!Router, R!AppRoutes)
  BY DEF Within, R!Router, R!++
<1>2. Within(R!Router, R!AppPageRoutes)
  <2>1. ASSUME NEW h \in DOMAIN R!AppPageRoutes
        PROVE  h \notin DOMAIN R!AppRoutes
    BY RouteNames
  <2> QED
    BY <2>1, ZenonT(30) DEF Within, R!Router, R!++
<1>3. Within(R!Router, R!AppUserRoutes)
  <2>1. ASSUME NEW h \in DOMAIN R!AppUserRoutes
        PROVE  h \notin DOMAIN R!AppRoutes \cup DOMAIN R!AppPageRoutes
    BY RouteNames
  <2> QED
    BY <2>1, ZenonT(30) DEF Within, R!Router, R!++
<1>4. Within(R!Router, R!AuthRoutes)
  <2>1. ASSUME NEW h \in DOMAIN R!AuthRoutes
        PROVE  h \notin DOMAIN R!AppRoutes \cup DOMAIN R!AppPageRoutes
                       \cup DOMAIN R!AppUserRoutes
    BY RouteNames
  <2> QED
    BY <2>1, ZenonT(30) DEF Within, R!Router, R!++
<1>5. Within(R!Router, R!UserRoutes)
  <2>1. ASSUME NEW h \in DOMAIN R!UserRoutes
        PROVE  h \notin DOMAIN R!AppRoutes \cup DOMAIN R!AppPageRoutes
                       \cup DOMAIN R!AppUserRoutes \cup DOMAIN R!AuthRoutes
    BY RouteNames
  <2> QED
    BY <2>1, ZenonT(30) DEF Within, R!Router, R!++
<1>6. Within(R!Router, R!WorkspaceRoutes)
  <2>1. ASSUME NEW h \in DOMAIN R!WorkspaceRoutes
        PROVE  h \notin DOMAIN R!AppRoutes \cup DOMAIN R!AppPageRoutes
                       \cup DOMAIN R!AppUserRoutes \cup DOMAIN R!AuthRoutes
                       \cup DOMAIN R!UserRoutes
    BY RouteNames
  <2> QED
    BY <2>1, ZenonT(30) DEF Within, R!Router, R!++
<1>7. Within(R!Router, R!MiscRoutes)
  <2>1. ASSUME NEW h \in DOMAIN R!MiscRoutes
        PROVE  h \notin DOMAIN R!AppRoutes \cup DOMAIN R!AppPageRoutes
                       \cup DOMAIN R!AppUserRoutes \cup DOMAIN R!AuthRoutes
                       \cup DOMAIN R!UserRoutes \cup DOMAIN R!WorkspaceRoutes
    BY RouteNames
  <2> QED
    BY <2>1, ZenonT(30) DEF Within, R!Router, R!++
<1>8. Within(R!Router, R!BiometricRoutes)
  <2>1. ASSUME NEW h \in DOMAIN R!BiometricRoutes
        PROVE  h \notin DOMAIN R!AppRoutes \cup DOMAIN R!AppPageRoutes
                       \cup DOMAIN R!AppUserRoutes \cup DOMAIN R!AuthRoutes
                       \cup DOMAIN R!UserRoutes \cup DOMAIN R!WorkspaceRoutes
                       \cup DOMAIN R!MiscRoutes
    BY RouteNames
  <2> QED
    BY <2>1, ZenonT(30) DEF Within, R!Router, R!++
<1>9. DOMAIN R!Router =
         DOMAIN R!AppRoutes \cup DOMAIN R!AppPageRoutes \cup DOMAIN R!AppUserRoutes
         \cup DOMAIN R!AuthRoutes \cup DOMAIN R!UserRoutes \cup DOMAIN R!WorkspaceRoutes
         \cup DOMAIN R!MiscRoutes \cup DOMAIN R!BiometricRoutes
  BY ZenonT(30) DEF R!Router, R!++
<1> QED
  BY <1>1, <1>2, <1>3, <1>4, <1>5, <1>6, <1>7, <1>8, <1>9

LEMMA ReadTables ==
  /\ Within(R!AllReads, R!ApplicationReads)
  /\ Within(R!AllReads, R!AuthReads)
  /\ Within(R!AllReads, R!UserReads)
  /\ Within(R!AllReads, R!WorkspaceReads)
  /\ Within(R!AllReads, R!MiscReads)
  /\ DOMAIN R!AllReads =
       DOMAIN R!ApplicationReads \cup DOMAIN R!AuthReads \cup DOMAIN R!UserReads
       \cup DOMAIN R!WorkspaceReads \cup DOMAIN R!MiscReads
<1>1. Within(R!AllReads, R!ApplicationReads)
  BY DEF Within, R!AllReads, R!++
<1>2. Within(R!AllReads, R!AuthReads)
  <2>1. ASSUME NEW h \in DOMAIN R!AuthReads
        PROVE  h \notin DOMAIN R!ApplicationReads
    BY ReadNames
  <2> QED
    BY <2>1, ZenonT(30) DEF Within, R!AllReads, R!++
<1>3. Within(R!AllReads, R!UserReads)
  <2>1. ASSUME NEW h \in DOMAIN R!UserReads
        PROVE  h \notin DOMAIN R!ApplicationReads \cup DOMAIN R!AuthReads
    BY ReadNames
  <2> QED
    BY <2>1, ZenonT(30) DEF Within, R!AllReads, R!++
<1>4. Within(R!AllReads, R!WorkspaceReads)
  <2>1. ASSUME NEW h \in DOMAIN R!WorkspaceReads
        PROVE  h \notin DOMAIN R!ApplicationReads \cup DOMAIN R!AuthReads
                       \cup DOMAIN R!UserReads
    BY ReadNames
  <2> QED
    BY <2>1, ZenonT(30) DEF Within, R!AllReads, R!++
<1>5. Within(R!AllReads, R!MiscReads)
  <2>1. ASSUME NEW h \in DOMAIN R!MiscReads
        PROVE  h \notin DOMAIN R!ApplicationReads \cup DOMAIN R!AuthReads
                       \cup DOMAIN R!UserReads \cup DOMAIN R!WorkspaceReads
    BY ReadNames
  <2> QED
    BY <2>1, ZenonT(30) DEF Within, R!AllReads, R!++
<1>6. DOMAIN R!AllReads =
         DOMAIN R!ApplicationReads \cup DOMAIN R!AuthReads \cup DOMAIN R!UserReads
         \cup DOMAIN R!WorkspaceReads \cup DOMAIN R!MiscReads
  BY ZenonT(30) DEF R!AllReads, R!++
<1> QED
  BY <1>1, <1>2, <1>3, <1>4, <1>5, <1>6

\* What the routes pass on.
LEMMA AppRoutesPass ==
  /\ \A h \in {"CreateApplication", "UpdateWhiteListedIPs", "FetchWorkspaceApps"} :
       R!Router[h].auth = "workspace" /\ R!Router[h].passes = {"Keys"}
  /\ \A h \in {"UpdateApplication", "RefreshAppAPIKey", "RefreshSandboxAppAPIKey",
            "RefreshAppSigningKey", "RefreshSandboxAppSigningKey"} :
       R!Router[h].auth = "workspace" /\ R!Router[h].passes = {"Keys", "Param.id"}
<1>1. Within(R!Router, R!AppRoutes)
  BY RouterTables
<1> QED
  BY <1>1 DEF Within, R!AppRoutes, R!Route, R!ById

LEMMA AppPageRoutesPass ==
  /\ \A h \in {"FetchAppDetails"} :
       /\ R!Router[h].auth = "none"
       /\ R!Router[h].passes = {"ip", "accessToken", "Param.id", "DeviceID"}
  /\ \A h \in {"DeleteApplication"} :
       R!Router[h].auth = "workspace" /\ R!Router[h].passes = {"Param.id"}
  /\ \A h \in {"FetchAppCreationConfigInfo"} :
       R!Router[h].auth = "workspace" /\ R!Router[h].passes = {}
  /\ \A h \in {"ApplicationSignUp"} :
       R!Router[h].auth = "user" /\ R!Router[h].passes = {"Keys", "ip"}
  /\ \A h \in {"FetchAppUsers", "ToggleMFAProtectionSetting"} :
       R!Router[h].auth = "workspace" /\ R!Router[h].passes = {"Keys"}
<1>1. Within(R!Router, R!AppPageRoutes)
  BY RouterTables
<1> QED
  BY <1>1 DEF Within, R!AppPageRoutes, R!Route

LEMMA AppUserRoutesPass ==
  /\ \A h \in {"BlockAccounts", "UnblockAccounts", "UpdateAccessRefreshTokenTTL"} :
       R!Router[h].auth = "workspace" /\ R!Router[h].passes = {"Keys", "Param.id"}
  /\ \A h \in {"GetAppMetrics", "FetchActivityLogs"} :
       R!Router[h].auth = "workspace" /\ R!Router[h].passes = {"Keys"}
  /\ \A h \in {"SubmitCustomAppForm"} :
       R!Router[h].auth = "user" /\ R!Router[h].passes = {"Keys"}
<1>1. Within(R!Router, R!AppUserRoutes)
  BY RouterTables
<1> QED
  BY <1>1 DEF Within, R!AppUserRoutes, R!Route, R!ById

LEMMA AuthRoutesPass ==
  /\ \A h \in {"VerifyOTP"} :
       R!Router[h].auth = "none" /\ R!Router[h].passes = {"DeviceID"}
  /\ \A h \in {"VerifyUserAccount"} :
       R!Router[h].auth = "otp" /\ R!Router[h].passes = {"Keys", "DeviceID"}
  /\ \A h \in {"VeirfyDeviceImage"} :
       R!Router[h].auth = "none" /\ R!Router[h].passes = {"Keys", "DeviceID"}
  /\ \A h \in {"RefreshToken", "WorkspaceRefreshToken"} :
       R!Router[h].auth = "refresh" /\ R!Router[h].passes = {"Keys", "DeviceID"}
  /\ \A h \in {"AuthenticateUser"} :
       /\ R!Router[h].auth = "none"
       /\ R!Router[h].passes = {"Keys", "DeviceID", "DeviceName", "UserAgent"}
  /\ \A h \in {"ResendOTP"} :
       R!Router[h].auth = "none" /\ R!Router[h].passes = {"Keys"}
<1>1. Within(R!Router, R!AuthRoutes)
  BY RouterTables
<1> QED
  BY <1>1 DEF Within, R!AuthRoutes, R!Route

LEMMA UserRoutesPass ==
  /\ \A h \in {"SetAccountImage", "SetNINDetails", "SetDriversLicenseDetails",
            "SetBVNDetails", "SetVoterIDDetails"} :
       R!Router[h].auth = "user" /\ R!Router[h].passes = {"Keys", "DeviceID"}
  /\ \A h \in {"VerifyNINDetails", "VerifyBVNDetails", "VerifyVoterIDDetails"} :
       R!Router[h].auth = "otp" /\ R!Router[h].passes = {"Keys", "DeviceID"}
<1>1. Within(R!Router, R!UserRoutes)
  BY RouterTables
<1> QED
  BY <1>1 DEF Within, R!UserRoutes, R!Route

LEMMA WorkspaceRoutesPass ==
  /\ \A h \in {"CreateWorkspace"} :
       /\ R!Router[h].auth = "none"
       /\ R!Router[h].passes = {"Keys", "DeviceID", "DeviceName", "UserAgent", "Param.ip"}
  /\ \A h \in {"InviteWorkspaceMembers", "CreateHelpRequest"} :
       R!Router[h].auth = "workspace" /\ R!Router[h].passes = {"Keys"}
  /\ \A h \in {"VerifyWorkspaceAccount"} :
       /\ R!Router[h].auth = "otp"
       /\ R!Router[h].passes = {"Keys", "DeviceID", "DeviceName", "Param.ip"}
  /\ \A h \in {"LoginWorkspaceMember"} :
       R!Router[h].auth = "none" /\ R!Router[h].passes = {"Keys", "DeviceID", "Param.ip"}
  /\ \A h \in {"FetchHelpRequests", "FetchWorkspaceDetails"} :
       R!Router[h].auth = "workspace" /\ R!Router[h].passes = {"Keys", "DeviceID"}
<1>1. Within(R!Router, R!WorkspaceRoutes)
  BY RouterTables
<1> QED
  BY <1>1 DEF Within, R!WorkspaceRoutes, R!Route

LEMMA MiscRoutesPass ==
  /\ \A h \in {"GeneratedSignedURL", "GetSubscriptionPlans"} :
       R!Router[h].auth = "none" /\ R!Router[h].passes = {"Keys"}
  /\ \A h \in {"GeneratePaymentLink", "GenerateLinkToAddCard"} :
       R!Router[h].auth = "workspace" /\ R!Router[h].passes = {"Keys"}
<1>1. Within(R!Router, R!MiscRoutes)
  BY RouterTables
<1> QED
  BY <1>1 DEF Within, R!MiscRoutes, R!Route

LEMMA BiometricRoutesPass ==
  /\ \A h \in {"CompareFaces", "ImageLivenessCheck", "GenerateChallenge",
            "VideoLivenessCheck", "EnhancedFaceComparison", "EnhancedLivenessCheck",
            "ImageQualityCheck", "SystemHealthCheck"} :
       R!Router[h].auth = "none" /\ R!Router[h].passes = {"DeviceID"}
<1>1. Within(R!Router, R!BiometricRoutes)
  BY RouterTables
<1> QED
  BY <1>1 DEF Within, R!BiometricRoutes, R!Route

\* What the handlers read.
LEMMA ApplicationReadsAre ==
  /\ \A h \in {"CreateApplication"} :
       R!Reads(h) = {"WorkspaceID", "UserID", "Email"}
  /\ \A h \in {"FetchAppDetails"} :
       R!Reads(h) = {"Param.id", "ip", "accessToken", "DeviceID"}
  /\ \A h \in {"DeleteApplication", "UpdateApplication", "UpdateAccessRefreshTokenTTL",
            "BlockAccounts", "UnblockAccounts"} :
       R!Reads(h) = {"Param.id", "WorkspaceID"}
  /\ \A h \in {"ApplicationSignUp"} :
       R!Reads(h) = {"ip", "UserID", "UserAgent", "DeviceID"}
  /\ \A h \in {"SubmitCustomAppForm"} :
       R!Reads(h) = {"UserID"}
  /\ \A h \in {"FetchWorkspaceApps", "FetchAppUsers", "GetAppMetrics"} :
       R!Reads(h) = {"WorkspaceID"}
  /\ \A h \in {"UpdateWhiteListedIPs", "ToggleMFAProtectionSetting", "RefreshAppAPIKey",
            "RefreshAppSigningKey", "RefreshSandboxAppAPIKey",
            "RefreshSandboxAppSigningKey"} :
       R!Reads(h) = {"Param.id"}
<1>1. Within(R!AllReads, R!ApplicationReads)
  BY ReadTables
<1> QED
  BY <1>1, ZenonT(30) DEF Within, R!Reads, R!ApplicationReads, R!++

LEMMA AuthReadsAre ==
  /\ \A h \in {"AuthenticateUser"} :
       R!Reads(h) = {"UserAgent", "DeviceID"}
  /\ \A h \in {"VerifyUserAccount"} :
       R!Reads(h) = {"OTPEmail", "OTPPhone", "DeviceID"}
  /\ \A h \in {"VerifyWorkspaceAccount"} :
       R!Reads(h) = {"OTPEmail", "Param.ip", "DeviceID", "DeviceName"}
  /\ \A h \in {"VeirfyDeviceImage", "RefreshToken", "WorkspaceRefreshToken"} :
       R!Reads(h) = {"UserID", "DeviceID"}
<1>1. Within(R!AllReads, R!AuthReads)
  BY ReadTables
<1> QED
  BY <1>1 DEF Within, R!Reads, R!AuthReads, R!++

LEMMA UserReadsAre ==
  /\ \A h \in {"SetAccountImage"} :
       R!Reads(h) = {"UserID", "Email", "Phone", "DeviceID"}
  /\ \A h \in {"SetDriversLicenseDetails"} :
       R!Reads(h) = {"UserID"}
  /\ \A h \in {"SetNINDetails", "SetBVNDetails", "SetVoterIDDetails"} :
       R!Reads(h) = {"UserID", "Phone"}
  /\ \A h \in {"VerifyNINDetails", "VerifyBVNDetails", "VerifyVoterIDDetails"} :
       R!Reads(h) = {"OTPPhone", "UserID", "DeviceID"}
<1>1. Within(R!AllReads, R!UserReads)
  BY ReadTables
<1> QED
  BY <1>1 DEF Within, R!Reads, R!UserReads, R!++

LEMMA WorkspaceReadsAre ==
  /\ \A h \in {"CreateWorkspace"} :
       R!Reads(h) = {"Param.ip", "DeviceID", "DeviceName", "UserAgent"}
  /\ \A h \in {"LoginWorkspaceMember"} :
       R!Reads(h) = {"Param.ip", "DeviceID", "DeviceName"}
  /\ \A h \in {"FetchWorkspaceDetails", "FetchHelpRequests", "FetchActivityLogs"} :
       R!Reads(h) = {"WorkspaceID"}
  /\ \A h \in {"InviteWorkspaceMembers"} :
       R!Reads(h) = {"UserID", "WorkspaceID", "WorkspaceName"}
  /\ \A h \in {"CreateHelpRequest"} :
       R!Reads(h) = {"WorkspaceID", "UserID"}
<1>1. Within(R!AllReads, R!WorkspaceReads)
  BY ReadTables
<1> QED
  BY <1>1 DEF Within, R!Reads, R!WorkspaceReads, R!++

LEMMA MiscReadsAre ==
  /\ \A h \in {"GeneratedSignedURL"} :
       R!Reads(h) = {"UserID"}
  /\ \A h \in {"GeneratePaymentLink"} :
       R!Reads(h) = {"WorkspaceID"}
  /\ \A h \in {"GenerateLinkToAddCard"} :
       R!Reads(h) = {"WorkspaceEmail", "WorkspaceID"}
<1>1. Within(R!AllReads, R!MiscReads)
  BY ReadTables
<1> QED
  BY <1>1 DEF Within, R!Reads, R!MiscReads, R!++

\* What Gaps lists of a handler.
GapOf(h) == IF h \in DOMAIN R!Gaps THEN R!Gaps[h] ELSE {}

LEMMA GapsAre ==
  /\ DOMAIN R!Gaps =
       {"UpdateWhiteListedIPs", "ToggleMFAProtectionSetting", "DeleteApplication",
        "ApplicationSignUp", "VerifyWorkspaceAccount", "LoginWorkspaceMember",
        "GeneratedSignedURL", "VeirfyDeviceImage", "VerifyNINDetails", "VerifyBVNDetails",
        "VerifyVoterIDDetails"}
  /\ \A h \in {"UpdateWhiteListedIPs", "ToggleMFAProtectionSetting"} : GapOf(h) = {"Param.id"}
  /\ GapOf("DeleteApplication") = {"WorkspaceID"}
  /\ GapOf("ApplicationSignUp") = {"UserAgent", "DeviceID"}
  /\ \A h \in {"VerifyWorkspaceAccount", "LoginWorkspaceMember"} : GapOf(h) = {"DeviceName"}
  /\ \A h \in {"GeneratedSignedURL", "VeirfyDeviceImage", "VerifyNINDetails",
               "VerifyBVNDetails", "VerifyVoterIDDetails"} : GapOf(h) = {"UserID"}
BY DEF GapOf, R!Gaps, R!++

LEMMA ReadsNothing ==
  /\ \A h \in {"FetchAppCreationConfigInfo", "VerifyOTP", "ResendOTP", "GetSubscriptionPlans"} :
       R!Reads(h) = {}
  /\ \A h \in DOMAIN R!BiometricRoutes : R!Reads(h) = {}
BY RouteNames, ReadNames, ReadTables DEF R!Reads

\* What a route hands its handler is all the handler reads but the gaps: each
\* table of routes against the tables of reads.
LEMMA Missing ==
  \A h \in R!Handlers : R!Reads(h) \ Handed(h) = GapOf(h)
<1>1. \A h \in DOMAIN R!AppRoutes : R!Reads(h) \ Handed(h) = GapOf(h)
  BY RouteNames, AppRoutesPass, ApplicationReadsAre, GapsAre
     DEF Handed, KeysOf, FieldsOf, GapOf, AgentFields
<1>2. \A h \in DOMAIN R!AppPageRoutes : R!Reads(h) \ Handed(h) = GapOf(h)
  BY RouteNames, AppPageRoutesPass, ApplicationReadsAre, ReadsNothing, GapsAre
     DEF Handed, KeysOf, FieldsOf, GapOf, AgentFields
<1>3. \A h \in DOMAIN R!AppUserRoutes : R!Reads(h) \ Handed(h) = GapOf(h)
  BY RouteNames, AppUserRoutesPass, ApplicationReadsAre, WorkspaceReadsAre, GapsAre
     DEF Handed, KeysOf, FieldsOf, GapOf, AgentFields
<1>4. \A h \in DOMAIN R!AuthRoutes : R!Reads(h) \ Handed(h) = GapOf(h)
  BY RouteNames, AuthRoutesPass, AuthReadsAre, ReadsNothing, GapsAre
     DEF Handed, KeysOf, FieldsOf, GapOf, AgentFields
<1>5. \A h \in DOMAIN R!UserRoutes : R!Reads(h) \ Handed(h) = GapOf(h)
  BY RouteNames, UserRoutesPass, UserReadsAre, GapsAre
     DEF Handed, KeysOf, FieldsOf, GapOf, AgentFields
<1>6. \A h \in DOMAIN R!WorkspaceRoutes : R!Reads(h) \ Handed(h) = GapOf(h)
  BY RouteNames, WorkspaceRoutesPass, WorkspaceReadsAre, AuthReadsAre, GapsAre
     DEF Handed, KeysOf, FieldsOf, GapOf, AgentFields
<1>7. \A h \in DOMAIN R!MiscRoutes : R!Reads(h) \ Handed(h) = GapOf(h)
  BY RouteNames, MiscRoutesPass, MiscReadsAre, ReadsNothing, GapsAre
     DEF Handed, KeysOf, FieldsOf, GapOf, AgentFields
<1>8. \A h \in DOMAIN R!BiometricRoutes : R!Reads(h) \ Handed(h) = GapOf(h)
  BY RouteNames, BiometricRoutesPass, ReadsNothing, GapsAre
     DEF Handed, KeysOf, FieldsOf, GapOf, AgentFields
<1> QED
  BY RouterTables, <1>1, <1>2, <1>3, <1>4, <1>5, <1>6, <1>7, <1>8 DEF R!Handlers

\* The middlewares there are.
LEMMA RouteAuths ==
  \A h \in R!Handlers : R!Router[h].auth \in {"none", "user", "workspace", "refresh", "otp"}
BY RouterTables, RouteNames, AppRoutesPass, AppPageRoutesPass, AppUserRoutesPass,
   AuthRoutesPass, UserRoutesPass, WorkspaceRoutesPass, MiscRoutesPass, BiometricRoutesPass
   DEF R!Handlers

\* At first no request is there and nobody is logged in.
LEMMA RouteInvInit ==
  ASSUME R!Init
  PROVE  RouteInv
<1>1. RouteTypes
  BY ServedRoutes DEF R!Init, RouteTypes, R!NoReq, R!NoCtx, RequestRecord,
         ContextRecord, LogInRecord, R!Kinds, R!Types
<1>2. ASSUME NEW r \in Requests PROVE Chained(r)
  BY DEF R!Init, Chained, Brought, Watched, Contextual, R!NoReq, R!NoCtx
<1> QED
  BY <1>1, <1>2 DEF RouteInv

\* A request a step does not touch, while sessions are only added and what the cache
\* gets for its device goes to its ghost set.
Waits(q) ==
  /\ stage'[q] = stage[q] /\ req'[q] = req[q] /\ ctx'[q] = ctx[q] /\ given'[q] = given[q]

Extends ==
  /\ \A n \in DOMAIN session : n \in DOMAIN session' /\ session'[n] = session[n]
  /\ otps.given \subseteq otps'.given

LEMMA Undisturbed ==
  ASSUME NEW r \in Requests, RouteTypes, Chained(r), Waits(r), Extends,
         held[r] \subseteq held'[r],
         stage[r] \notin {"idle", "agent"} =>
           R!InCache(live', req[r].route, req[r].device) \subseteq held'[r] \cup {0}
  PROVE  Chained(r)'
<1>1. Brought(r)'
  BY DEF Chained, Brought, Waits, Extends
<1>2. Watched(r)'
  BY DEF Chained, Watched, Waits, R!InCache
<1>3. /\ stage'[r] = stage[r] /\ req'[r] = req[r] /\ ctx'[r] = ctx[r]
      /\ otps.given \subseteq otps'.given
      /\ R!Auth(r)' = R!Auth(r) /\ R!Demand(r)' = R!Demand(r)
  BY DEF Waits, Extends, R!Auth, R!Demand
<1>4. ASSUME NEW n, HeldFor(r, n)
      PROVE  /\ session'[n] = session[n] /\ n \in DOMAIN session' /\ n \in held'[r]
             /\ session'[n].device = req'[r].device
  BY <1>3, <1>4 DEF HeldFor, Extends
<1>5. Admitted(r) => Admitted(r)'
  <2> SUFFICES ASSUME Admitted(r) PROVE Admitted(r)'
    OBVIOUS
  <2>1. PICK n : n = ctx[r].who
    OBVIOUS
  <2>2. R!Auth(r) \in {"user", "workspace", "refresh"} =>
          /\ session'[n] = session[n] /\ n \in DOMAIN session' /\ n \in held'[r]
          /\ session'[n].device = req'[r].device
    BY <2>1, <1>4 DEF Admitted
  <2> QED
    BY <1>3, <2>1, <2>2 DEF Admitted, HeldFor
<1>6. stage[r] = "member" => HeldFor(r, req[r].cookie["workspace"])'
  <2> SUFFICES ASSUME stage[r] = "member" PROVE HeldFor(r, req[r].cookie["workspace"])'
    OBVIOUS
  <2>1. HeldFor(r, req[r].cookie["workspace"])
    BY DEF Chained, Contextual
  <2> QED
    BY <1>3, <1>4, <2>1 DEF HeldFor
<1>7. Contextual(r)'
  BY <1>3, <1>5, <1>6 DEF Chained, Contextual, Waits
<1> QED
  BY <1>1, <1>2, <1>7 DEF Chained

\* A step of one request, that leaves the cache and the other requests alone.
LEMMA OneStep ==
  ASSUME NEW r \in Requests, RouteInv, UNCHANGED R!cacheVars,
         \A q \in Requests \ {r} : Waits(q) /\ held'[q] = held[q],
         RouteTypes', Chained(r)'
  PROVE  RouteInv'
<1>1. ASSUME NEW q \in Requests, q # r PROVE Chained(q)'
  <2>1. Waits(q) /\ held'[q] = held[q] /\ Chained(q) /\ RouteTypes
    BY <1>1 DEF RouteInv
  <2>2. Extends /\ live' = live
    BY DEF R!cacheVars, Extends
  <2>3. stage[q] \notin {"idle", "agent"} =>
          R!InCache(live', req[q].route, req[q].device) \subseteq held'[q] \cup {0}
    BY <2>1, <2>2 DEF Chained, Watched
  <2> QED
    BY <2>1, <2>2, <2>3, Undisturbed
<1> QED
  BY <1>1 DEF RouteInv

\* A request that is answered, and one that arrives.
LEMMA FinishKeeps ==
  ASSUME NEW r \in Requests, RouteInv, R!Finish(r), UNCHANGED R!cacheVars
  PROVE  RouteInv'
<1>1. RouteTypes'
  BY DEF RouteInv, RouteTypes, R!Finish, R!cacheVars, R!NoReq, R!NoCtx, RequestRecord,
         ContextRecord, LogInRecord, R!Kinds
<1>2. \A q \in Requests \ {r} : Waits(q) /\ held'[q] = held[q]
  BY DEF RouteInv, RouteTypes, R!Finish, Waits
<1>3. /\ stage'[r] = "idle" /\ req'[r] = R!NoReq /\ ctx'[r] = R!NoCtx
  BY DEF RouteInv, RouteTypes, R!Finish
<1>4. Chained(r)'
  BY <1>3 DEF Chained, Brought, Watched, Contextual, R!NoReq
<1> QED
  BY <1>1, <1>2, <1>4, OneStep

LEMMA ArriveKeeps ==
  ASSUME RouteInv, R!Arrivals(Served, Devices \cup {None})
  PROVE  RouteInv'
<1> PICK r \in Requests, h \in Served, d \in Devices \cup {None} :
      \E u \in R!Cookies("user"), w \in R!Cookies("workspace"), i \in otps.given \cup {None} :
        R!Arrive(r, h, d, [user |-> u, workspace |-> w], i)
  BY DEF R!Arrivals
<1> PICK u \in R!Cookies("user"), w \in R!Cookies("workspace"), i \in otps.given \cup {None} :
      R!Arrive(r, h, d, [user |-> u, workspace |-> w], i)
  OBVIOUS
<1> DEFINE c == [user |-> u, workspace |-> w]
<1>1. /\ \A k \in R!Kinds : c[k] \in Nat
      /\ \A k \in R!Kinds : c[k] # 0 => c[k] \in DOMAIN session /\ session[c[k]].kind = k
      /\ c \in [R!Kinds -> Nat]
  BY DEF R!Cookies, R!Kinds, RouteInv, RouteTypes
<1>2. /\ stage[r] = "idle" /\ UNCHANGED R!cacheVars /\ ctx' = ctx /\ given' = given /\ held' = held
      /\ stage' = [stage EXCEPT ![r] = "agent"]
      /\ req' = [req EXCEPT ![r] = [route |-> h, device |-> d, cookie |-> c, otp |-> i]]
  BY DEF R!Arrive
<1> HIDE DEF c
<1>3. i \in Demands \cup {None}
  BY DEF RouteInv, RouteTypes
<1>4. RouteTypes'
  BY <1>1, <1>2, <1>3 DEF RouteInv, RouteTypes, RequestRecord, R!cacheVars
<1>5. \A q \in Requests \ {r} : Waits(q) /\ held'[q] = held[q]
  BY <1>2 DEF RouteInv, RouteTypes, Waits
<1>6. /\ stage'[r] = "agent" /\ ctx'[r] = ctx[r]
      /\ req'[r] = [route |-> h, device |-> d, cookie |-> c, otp |-> i]
  BY <1>2 DEF RouteInv, RouteTypes
<1>7. Chained(r)'
  <2>1. Brought(r)'
    BY <1>1, <1>2, <1>6 DEF Brought, R!cacheVars
  <2>2. ctx[r] = R!NoCtx
    BY <1>2 DEF RouteInv, Chained, Contextual
  <2> QED
    BY <1>6, <2>1, <2>2 DEF Chained, Watched, Contextual
<1> QED
  BY <1>2, <1>4, <1>5, <1>7, OneStep

\* What a request past its headers knows of itself.
LEMMA Underway ==
  ASSUME NEW r \in Requests, RouteInv, stage[r] # "idle"
  PROVE  /\ req[r].route \in R!Handlers /\ req[r].route # None
         /\ R!Auth(r) \in {"none", "user", "workspace", "refresh", "otp"}
         /\ \A k \in R!Kinds : req[r].cookie[k] # 0 =>
              /\ req[r].cookie[k] \in DOMAIN session
              /\ session[req[r].cookie[k]].kind = k
<1>1. Brought(r)
  BY DEF RouteInv, Chained
<1>2. req[r].route \in R!Handlers /\ req[r].route # None
  BY <1>1, ServedRoutes DEF Brought
<1> QED
  BY <1>1, <1>2, RouteAuths DEF Brought, R!Auth

LEMMA AgentKeeps ==
  ASSUME NEW r \in Requests, RouteInv, R!UserAgentMiddleware(r)
  PROVE  RouteInv'
<1>1. CASE req[r].device = None
  BY <1>1, FinishKeeps DEF R!UserAgentMiddleware
<1>2. CASE req[r].device # None
  <2>1. /\ stage[r] = "agent" /\ UNCHANGED R!cacheVars /\ req' = req /\ given' = given
        /\ stage' = [stage EXCEPT ![r] = IF R!Auth(r) = "none" THEN "bind" ELSE "auth"]
        /\ ctx' = [ctx EXCEPT ![r].fields = AgentFields]
        /\ held' = [held EXCEPT ![r] = R!InCache(live, req[r].route, req[r].device)]
    BY <1>2 DEF R!UserAgentMiddleware, AgentFields
  <2>2. req[r].device \in Devices /\ R!Auth(r) \in {"none", "user", "workspace", "refresh", "otp"}
    <3>1. req[r].device \in Devices
      BY <1>2 DEF RouteInv, RouteTypes, RequestRecord
    <3> QED
      BY <2>1, <3>1, Underway
  <2>3. R!InCache(live, req[r].route, req[r].device) \subseteq Nat
    BY <2>2 DEF R!InCache, R!Slots, R!Kinds, R!Types, RouteInv, RouteTypes
  <2>4. AgentFields \subseteq Labels
    BY DEF Labels
  <2> DEFINE c == [keys |-> {}, fields |-> AgentFields, who |-> 0]
  <2>8. ctx' = [ctx EXCEPT ![r] = c] /\ r \in DOMAIN ctx
    <3>1. ctx[r] = R!NoCtx /\ r \in DOMAIN ctx
      BY <2>1 DEF RouteInv, RouteTypes, Chained, Contextual
    <3>2. ctx' = [ctx EXCEPT ![r] = [ctx[r] EXCEPT !.fields = AgentFields]]
      BY <2>1, <3>1
    <3>3. [ctx[r] EXCEPT !.fields = AgentFields] = c
      BY <3>1 DEF R!NoCtx
    <3> HIDE DEF c
    <3> QED
      BY <3>1, <3>2, <3>3
  <2>9. c \in ContextRecord
    BY <2>4 DEF ContextRecord
  <2>5. RouteTypes'
    <3> HIDE DEF c
    <3>1. ctx' \in [Requests -> ContextRecord]
      BY <2>8, <2>9 DEF RouteInv, RouteTypes
    <3>2. held' \in [Requests -> SUBSET Nat]
      BY <2>1, <2>3 DEF RouteInv, RouteTypes
    <3> QED
      BY <2>1, <3>1, <3>2 DEF RouteInv, RouteTypes, R!cacheVars
  <2>6. \A q \in Requests \ {r} : Waits(q) /\ held'[q] = held[q]
    BY <2>1 DEF RouteInv, RouteTypes, Waits
  <2>7. Chained(r)'
    <3>1. /\ req'[r] = req[r] /\ R!Auth(r)' = R!Auth(r) /\ UNCHANGED R!cacheVars
          /\ stage'[r] = IF R!Auth(r) = "none" THEN "bind" ELSE "auth"
          /\ held'[r] = R!InCache(live, req[r].route, req[r].device)
      BY <2>1 DEF RouteInv, RouteTypes, R!Auth
    <3>3. ctx'[r] = c
      BY <2>8
    <3>4. Brought(r)'
      BY <2>1, <3>1 DEF RouteInv, Chained, Brought, R!cacheVars
    <3>5. Watched(r)'
      BY <2>2, <3>1 DEF Watched, R!cacheVars, R!InCache
    <3>6. R!Auth(r) = "none" => Admitted(r)'
      BY <3>1, <3>3 DEF Admitted
    <3>7. Contextual(r)'
      BY <2>2, <3>1, <3>3, <3>6 DEF Contextual, KeysOf, FieldsOf
    <3> QED
      BY <3>4, <3>5, <3>7 DEF Chained
  <2> QED
    BY <2>1, <2>5, <2>6, <2>7, OneStep
<1> QED
  BY <1>1, <1>2

\* A middleware that lets a request through: the caller it found is admitted.
LEMMA AuthenticatedKeeps ==
  ASSUME NEW r \in Requests, NEW keys \in SUBSET Labels, NEW n \in Nat,
         RouteInv, stage[r] \in {"auth", "member"}, R!Auth(r) # "none",
         R!Authenticated(r, "bind", keys, n), UNCHANGED R!cacheVars,
         keys = KeysOf(R!Auth(r)), Admitted(r)'
  PROVE  RouteInv'
<1>1. /\ req' = req /\ given' = given /\ held' = held
      /\ stage' = [stage EXCEPT ![r] = "bind"]
      /\ ctx' = [ctx EXCEPT ![r] = [keys |-> @.keys \cup keys,
                                    fields |-> {"Header", "DeviceID"}, who |-> n]]
  BY DEF R!Authenticated, R!Rebuilt
<1>2. ctx[r].keys = {} /\ Chained(r) /\ r \in DOMAIN ctx
  BY DEF RouteInv, RouteTypes, Chained, Contextual
<1>3. RouteTypes'
  <2>1. {"Header", "DeviceID"} \subseteq Labels
    BY DEF Labels, AgentFields
  <2>2. ctx' = [ctx EXCEPT ![r] = [keys |-> keys, fields |-> {"Header", "DeviceID"}, who |-> n]]
    BY <1>1, <1>2
  <2> QED
    BY <1>1, <2>1, <2>2 DEF RouteInv, RouteTypes, R!cacheVars, ContextRecord
<1>4. \A q \in Requests \ {r} : Waits(q) /\ held'[q] = held[q]
  BY <1>1 DEF RouteInv, RouteTypes, Waits
<1>5. /\ stage'[r] = "bind" /\ ctx'[r].keys = keys /\ ctx'[r].fields = {"Header", "DeviceID"}
      /\ R!Auth(r)' = R!Auth(r)
  BY <1>1, <1>2 DEF RouteInv, RouteTypes, R!Auth
<1>6. Contextual(r)'
  BY <1>5 DEF Contextual, FieldsOf
<1>7. Brought(r)'
  BY <1>1, <1>2, <1>5 DEF Chained, Brought, R!cacheVars
<1>8. Watched(r)'
  BY <1>1, <1>2, <1>5 DEF Chained, Watched, R!cacheVars, R!InCache
<1> QED
  BY <1>3, <1>4, <1>6, <1>7, <1>8, OneStep DEF Chained

\* A genuine token belongs to a session that the cache held since the request came.
LEMMA GenuineHeld ==
  ASSUME NEW r \in Requests, RouteInv, stage[r] \in {"auth", "member"},
         NEW kind \in R!Kinds, NEW type \in R!Types, R!Genuine(r, kind, type),
         <<kind, type>> \in R!Slots(R!Auth(r))
  PROVE  /\ HeldFor(r, req[r].cookie[kind]) /\ req[r].cookie[kind] \in Nat
         /\ session[req[r].cookie[kind]].kind = kind
<1>1. req[r].cookie[kind] \in DOMAIN session /\ session[req[r].cookie[kind]].kind = kind
  BY Underway DEF R!Genuine
<1>2. live[kind][type][req[r].device] = req[r].cookie[kind] /\ req[r].cookie[kind] # 0
      /\ session[req[r].cookie[kind]].device = req[r].device
  BY DEF R!Genuine
<1>3. live[kind][type][req[r].device] \in R!InCache(live, req[r].route, req[r].device)
  <2>1. <<kind, type>> \in R!Slots(R!Router[req[r].route].auth)
    BY DEF R!Auth
  <2>2. live[kind][type][req[r].device] = live[<<kind, type>>[1]][<<kind, type>>[2]][req[r].device]
    OBVIOUS
  <2> QED
    BY <2>1, <2>2, Zenon DEF R!InCache
<1>4. R!InCache(live, req[r].route, req[r].device) \subseteq held[r] \cup {0}
  BY DEF RouteInv, Chained, Watched
<1> QED
  BY <1>1, <1>2, <1>3, <1>4 DEF HeldFor, RouteInv, RouteTypes

\* The middlewares, the binding of the route and the handler.
LEMMA UserKeeps ==
  ASSUME NEW r \in Requests, RouteInv, R!UserAuthenticationMiddleware(r)
  PROVE  RouteInv'
<1> DEFINE n == req[r].cookie["user"]
<1>1. stage[r] = "auth" /\ R!Auth(r) = "user" /\ UNCHANGED R!cacheVars
  BY DEF R!UserAuthenticationMiddleware
<1>2. CASE R!Genuine(r, "user", "access") /\ R!Demand(r) \in {None, session[n].intent}
  <2>1. R!Authenticated(r, "bind", KeysOf("user"), n)
    BY <1>2 DEF R!UserAuthenticationMiddleware, KeysOf
  <2>2. HeldFor(r, n) /\ n \in Nat /\ session[n].kind = "user"
    BY <1>1, <1>2, GenuineHeld DEF R!Slots, R!Kinds, R!Types
  <2>3. /\ req' = req /\ held' = held /\ UNCHANGED R!cacheVars /\ ctx'[r].who = n
        /\ R!Auth(r)' = R!Auth(r) /\ R!Demand(r)' = R!Demand(r)
    BY <1>1, <2>1 DEF R!Authenticated, R!Rebuilt, RouteInv, RouteTypes, R!Auth, R!Demand
  <2> HIDE DEF n
  <2>4. Admitted(r)'
    BY <1>1, <1>2, <2>2, <2>3 DEF Admitted, HeldFor, R!cacheVars
  <2>5. KeysOf("user") \in SUBSET Labels
    BY DEF Labels
  <2> QED
    BY <1>1, <2>1, <2>2, <2>4, <2>5, AuthenticatedKeeps
<1>3. CASE ~(R!Genuine(r, "user", "access") /\ R!Demand(r) \in {None, session[n].intent})
  BY <1>1, <1>3, FinishKeeps DEF R!UserAuthenticationMiddleware
<1> QED
  BY <1>2, <1>3

LEMMA WorkspaceKeeps ==
  ASSUME NEW r \in Requests, RouteInv,
         R!WorkspaceAuthenticationMiddleware(r)
  PROVE  RouteInv'
<1>1. stage[r] = "auth" /\ R!Auth(r) = "workspace" /\ UNCHANGED R!cacheVars
  BY DEF R!WorkspaceAuthenticationMiddleware
<1>2. CASE R!Genuine(r, "workspace", "access")
  <2>1. stage' = [stage EXCEPT ![r] = "member"] /\ UNCHANGED <<req, ctx, given, held>>
    BY <1>2 DEF R!WorkspaceAuthenticationMiddleware
  <2>2. HeldFor(r, req[r].cookie["workspace"])
    BY <1>1, <1>2, GenuineHeld DEF R!Slots, R!Kinds, R!Types
  <2>3. RouteTypes'
    BY <1>1, <2>1 DEF RouteInv, RouteTypes, R!cacheVars
  <2>4. \A q \in Requests \ {r} : Waits(q) /\ held'[q] = held[q]
    BY <2>1 DEF RouteInv, RouteTypes, Waits
  <2>5. Chained(r)'
    <3>1. stage'[r] = "member" /\ R!Auth(r)' = R!Auth(r) /\ Chained(r)
      BY <2>1 DEF RouteInv, RouteTypes, R!Auth
    <3>2. Brought(r)' /\ Watched(r)'
      BY <1>1, <2>1, <3>1 DEF Chained, Brought, Watched, R!cacheVars, R!InCache
    <3>3. Contextual(r)'
      BY <1>1, <2>1, <2>2, <3>1 DEF Chained, Contextual, HeldFor, R!cacheVars
    <3> QED
      BY <3>2, <3>3 DEF Chained
  <2> QED
    BY <1>1, <2>3, <2>4, <2>5, OneStep
<1>3. CASE ~R!Genuine(r, "workspace", "access")
  BY <1>1, <1>3, FinishKeeps DEF R!WorkspaceAuthenticationMiddleware
<1> QED
  BY <1>2, <1>3

LEMMA MemberKeeps ==
  ASSUME NEW r \in Requests, RouteInv, R!FindMember(r)
  PROVE  RouteInv'
<1> DEFINE n == req[r].cookie["workspace"]
<1>1. /\ stage[r] = "member" /\ UNCHANGED R!cacheVars
      /\ R!Auth(r) = "workspace" /\ HeldFor(r, n)
  BY DEF R!FindMember, RouteInv, Chained, Contextual
<1>2. CASE R!Finish(r)
  BY <1>1, <1>2, FinishKeeps
<1>3. CASE ~R!Finish(r)
  <2>1. PICK m \in Members :
          /\ Of[m] = Of[session[n].account] /\ Grants[m] \cap {R!Demand(r), "super"} # {}
          /\ R!Authenticated(r, "bind", KeysOf("workspace"), n)
    BY <1>3 DEF R!FindMember, KeysOf
  <2>2. n \in Nat /\ session[n].kind = "workspace"
    <3>1. n \in 1..Len(session) /\ Len(session) \in Nat
      BY <1>1 DEF HeldFor, RouteInv, RouteTypes
    <3>2. n # 0 => session[n].kind = "workspace"
      BY <1>1, Underway DEF R!Kinds
    <3> QED
      BY <3>1, <3>2
  <2>3. /\ req' = req /\ held' = held /\ UNCHANGED R!cacheVars /\ ctx'[r].who = n
        /\ R!Auth(r)' = R!Auth(r) /\ R!Demand(r)' = R!Demand(r)
    BY <1>1, <2>1 DEF R!Authenticated, R!Rebuilt, RouteInv, RouteTypes, R!Auth, R!Demand
  <2> HIDE DEF n
  <2>4. Admitted(r)'
    BY <1>1, <2>1, <2>2, <2>3 DEF Admitted, HeldFor, R!cacheVars
  <2>5. KeysOf("workspace") \in SUBSET Labels
    BY DEF Labels
  <2> QED
    BY <1>1, <2>1, <2>2, <2>4, <2>5, AuthenticatedKeeps
<1> QED
  BY <1>2, <1>3

LEMMA OtpKeeps ==
  ASSUME NEW r \in Requests, RouteInv, R!OTPTokenMiddleware(r)
  PROVE  RouteInv'
<1>1. stage[r] = "auth" /\ R!Auth(r) = "otp" /\ UNCHANGED R!cacheVars
  BY DEF R!OTPTokenMiddleware
<1>2. CASE R!Finish(r)
  BY <1>1, <1>2, FinishKeeps
<1>3. CASE ~R!Finish(r)
  <2>1. /\ req[r].otp \in otps.given /\ req[r].otp = R!Demand(r)
        /\ R!Authenticated(r, "bind", KeysOf("otp"), 0)
    BY <1>3 DEF R!OTPTokenMiddleware, KeysOf
  <2>2. /\ req' = req /\ UNCHANGED R!cacheVars /\ ctx'[r].who = 0
        /\ R!Auth(r)' = R!Auth(r) /\ R!Demand(r)' = R!Demand(r)
    BY <1>1, <2>1 DEF R!Authenticated, R!Rebuilt, RouteInv, RouteTypes, R!Auth, R!Demand
  <2>3. Admitted(r)'
    BY <1>1, <2>1, <2>2 DEF Admitted, R!cacheVars
  <2>4. KeysOf("otp") \in SUBSET Labels /\ 0 \in Nat
    BY DEF Labels
  <2> QED
    BY <1>1, <2>1, <2>3, <2>4, AuthenticatedKeeps
<1> QED
  BY <1>2, <1>3

LEMMA RefreshKeeps ==
  ASSUME NEW r \in Requests, RouteInv, R!RefreshTokenMiddleware(r)
  PROVE  RouteInv'
<1>1. stage[r] = "auth" /\ R!Auth(r) = "refresh" /\ UNCHANGED R!cacheVars
  BY DEF R!RefreshTokenMiddleware
<1>2. CASE R!Finish(r)
  BY <1>1, <1>2, FinishKeeps
<1>3. CASE ~R!Finish(r)
  <2>1. PICK kind \in R!Kinds : kind = IF req[r].cookie["user"] # 0 THEN "user" ELSE "workspace"
    BY DEF R!Kinds
  <2> DEFINE n == req[r].cookie[kind]
  <2>2. R!Genuine(r, kind, "refresh") /\ R!Authenticated(r, "bind", KeysOf("refresh"), n)
    BY <1>3, <2>1 DEF R!RefreshTokenMiddleware, KeysOf
  <2>3. HeldFor(r, n) /\ n \in Nat
    BY <1>1, <2>2, GenuineHeld DEF R!Slots, R!Kinds, R!Types
  <2>4. /\ req' = req /\ held' = held /\ UNCHANGED R!cacheVars /\ ctx'[r].who = n
        /\ R!Auth(r)' = R!Auth(r)
    BY <1>1, <2>2 DEF R!Authenticated, R!Rebuilt, RouteInv, RouteTypes, R!Auth
  <2> HIDE DEF n
  <2>5. Admitted(r)'
    BY <1>1, <2>3, <2>4 DEF Admitted, HeldFor, R!cacheVars
  <2>6. KeysOf("refresh") \in SUBSET Labels
    BY DEF Labels, KeysOf
  <2> QED
    BY <1>1, <2>2, <2>3, <2>5, <2>6, AuthenticatedKeeps
<1> QED
  BY <1>2, <1>3

LEMMA BindKeeps ==
  ASSUME NEW r \in Requests, RouteInv, R!Bind(r)
  PROVE  RouteInv'
<1>1. /\ stage[r] = "bind" /\ UNCHANGED <<R!cacheVars, req, ctx, held>>
      /\ stage' = [stage EXCEPT ![r] = "handler"]
  BY DEF R!Bind
<1>2. Chained(r) /\ ctx[r].keys = KeysOf(R!Auth(r)) /\ ctx[r].fields = FieldsOf(R!Auth(r))
  BY <1>1 DEF RouteInv, Chained, Contextual
<1>3. given' = [given EXCEPT ![r] = Handed(req[r].route)]
  BY <1>2 DEF R!Bind, Handed, R!Auth
<1>4. RouteTypes'
  BY <1>1, <1>3 DEF RouteInv, RouteTypes, R!cacheVars
<1>5. \A q \in Requests \ {r} : Waits(q) /\ held'[q] = held[q]
  BY <1>1, <1>3 DEF RouteInv, RouteTypes, Waits
<1>6. /\ stage'[r] = "handler" /\ R!Auth(r)' = R!Auth(r) /\ R!Demand(r)' = R!Demand(r)
      /\ given'[r] = Handed(req[r].route)
  BY <1>1, <1>3 DEF RouteInv, RouteTypes, R!Auth, R!Demand
<1>7. Brought(r)' /\ Watched(r)'
  BY <1>1, <1>2, <1>6 DEF Chained, Brought, Watched, R!cacheVars, R!InCache
<1>8. Admitted(r)'
  BY <1>1, <1>2, <1>6 DEF Chained, Contextual, Admitted, HeldFor, R!cacheVars
<1>9. Contextual(r)'
  BY <1>1, <1>2, <1>6, <1>8 DEF Contextual
<1> QED
  BY <1>1, <1>4, <1>5, <1>7, <1>9, OneStep DEF Chained

\* A log-in or a refresh adds a session, and what it puts in the cache goes to the
\* ghost sets of the requests of the device.
LEMMA OpenedKeeps ==
  ASSUME RouteInv, NEW kind \in R!Kinds, NEW device \in Devices,
         NEW account \in Users \cup Members, NEW intent \in {None, "face_verification"},
         R!Opened(kind, device, account, intent)
  PROVE  /\ session' \in Seq(LogInRecord) /\ Extends /\ otps' = otps
         /\ live' \in [R!Kinds -> [R!Types -> [Devices -> 0..Len(session')]]]
<1> DEFINE e == [kind |-> kind, device |-> device, account |-> account, intent |-> intent]
<1>1. session \in Seq(LogInRecord) /\ e \in LogInRecord
  BY DEF RouteInv, RouteTypes, LogInRecord
<1>2. session' = Append(session, e) /\ otps' = otps
  BY DEF R!Opened
<1> HIDE DEF e
<1>3. /\ session' \in Seq(LogInRecord) /\ Len(session) \in Nat
      /\ Len(session') = Len(session) + 1
      /\ DOMAIN session = 1..Len(session) /\ DOMAIN session' = 1..Len(session')
      /\ \A n \in 1..Len(session) : session'[n] = session[n]
  BY <1>1, <1>2
<1>4. Extends
  BY <1>2, <1>3 DEF Extends
<1>5. live' = [live EXCEPT ![kind] = [t \in R!Types |-> [live[kind][t] EXCEPT ![device] = Len(session')]]]
  <2>1. live' = [live EXCEPT ![kind] = [t \in R!Types |-> [@[t] EXCEPT ![device] = Len(session')]]]
    BY DEF R!Opened
  <2> QED
    BY <2>1 DEF RouteInv, RouteTypes
<1>6. live' \in [R!Kinds -> [R!Types -> [Devices -> 0..Len(session')]]]
  <2>1. live \in [R!Kinds -> [R!Types -> [Devices -> 0..Len(session)]]]
    BY DEF RouteInv, RouteTypes
  <2>2. 0..Len(session) \subseteq 0..Len(session') /\ Len(session') \in 0..Len(session')
    BY <1>3
  <2>3. live \in [R!Kinds -> [R!Types -> [Devices -> 0..Len(session')]]]
    BY <2>1, <2>2
  <2>4. [t \in R!Types |-> [live[kind][t] EXCEPT ![device] = Len(session')]]
          \in [R!Types -> [Devices -> 0..Len(session')]]
    BY <2>2, <2>3
  <2> QED
    BY <1>5, <2>3, <2>4
<1> QED
  BY <1>2, <1>3, <1>4, <1>6

\* What a ghost set gets while the cache changes.
LEMMA HoldKeeps ==
  ASSUME NEW r \in Requests, RouteInv, Extends,
         live' \in [R!Kinds -> [R!Types -> [Devices -> 0..Len(session')]]],
         session' \in Seq(LogInRecord)
  PROVE  /\ held[r] \subseteq R!Hold(r) /\ R!Hold(r) \in SUBSET Nat
         /\ stage[r] \notin {"idle", "agent"} =>
              R!InCache(live', req[r].route, req[r].device) \subseteq R!Hold(r) \cup {0}
<1>1. /\ held[r] \subseteq R!Hold(r)
      /\ stage[r] \notin {"idle", "agent"} =>
              R!InCache(live', req[r].route, req[r].device) \subseteq R!Hold(r) \cup {0}
  BY DEF R!Hold
<1>2. ASSUME stage[r] \notin {"idle", "agent"}
      PROVE R!InCache(live', req[r].route, req[r].device) \in SUBSET Nat
  <2>1. req[r].device \in Devices /\ R!Auth(r) \in {"none", "user", "workspace", "refresh", "otp"}
    BY <1>2, Underway DEF RouteInv, Chained, Watched
  <2>2. Len(session') \in Nat
    OBVIOUS
  <2> QED
    BY <2>1, <2>2 DEF R!InCache, R!Slots, R!Kinds, R!Types, R!Auth
<1>3. R!Hold(r) \in SUBSET Nat
  <2>1. held[r] \in SUBSET Nat
    BY DEF RouteInv, RouteTypes
  <2> QED
    BY <1>2, <2>1 DEF R!Hold
<1> QED
  BY <1>1, <1>3

LEMMA LogInKeeps ==
  ASSUME RouteInv, NEW kind \in R!Kinds, NEW device \in Devices,
         NEW account \in Users \cup Members, NEW intent \in {None, "face_verification"},
         R!LogIn(kind, device, account, intent)
  PROVE  RouteInv'
<1>1. /\ held' = [r \in Requests |-> R!Hold(r)] /\ UNCHANGED <<stage, req, ctx, given>>
      /\ R!Opened(kind, device, account, intent)
  BY DEF R!LogIn
<1>2. /\ session' \in Seq(LogInRecord) /\ Extends /\ otps' = otps
      /\ live' \in [R!Kinds -> [R!Types -> [Devices -> 0..Len(session')]]]
  BY <1>1, OpenedKeeps
<1>3. ASSUME NEW r \in Requests
      PROVE  /\ held[r] \subseteq held'[r] /\ held'[r] \in SUBSET Nat
             /\ stage[r] \notin {"idle", "agent"} =>
                  R!InCache(live', req[r].route, req[r].device) \subseteq held'[r] \cup {0}
  BY <1>1, <1>2, HoldKeeps
<1>4. RouteTypes'
  BY <1>1, <1>2, <1>3 DEF RouteInv, RouteTypes
<1>5. ASSUME NEW r \in Requests PROVE Chained(r)'
  <2>1. Waits(r) /\ RouteTypes /\ Chained(r)
    BY <1>1 DEF Waits, RouteInv
  <2> QED
    BY <2>1, <1>2, <1>3, Undisturbed
<1> QED
  BY <1>4, <1>5 DEF RouteInv

LEMMA ExpireKeeps ==
  ASSUME RouteInv, NEW kind \in R!Kinds, NEW type \in R!Types, NEW device \in Devices,
         R!Expire(kind, type, device)
  PROVE  RouteInv'
<1>1. /\ live' = [live EXCEPT ![kind][type][device] = 0]
      /\ UNCHANGED <<session, otps, stage, req, ctx, given, held>>
  BY DEF R!Expire
<1>2. Len(session) \in Nat /\ live \in [R!Kinds -> [R!Types -> [Devices -> 0..Len(session)]]]
  BY DEF RouteInv, RouteTypes
<1>3. live' \in [R!Kinds -> [R!Types -> [Devices -> 0..Len(session)]]]
  BY <1>1, <1>2
<1>4. \A k \in R!Kinds, t \in R!Types, d \in Devices : live'[k][t][d] \in {0, live[k][t][d]}
  BY <1>1, <1>2
<1>5. RouteTypes'
  BY <1>1, <1>3 DEF RouteInv, RouteTypes
<1>6. ASSUME NEW r \in Requests PROVE Chained(r)'
  <2>1. Waits(r) /\ RouteTypes /\ Chained(r) /\ Extends /\ held'[r] = held[r]
    BY <1>1 DEF Waits, RouteInv, Extends
  <2>2. ASSUME stage[r] \notin {"idle", "agent"}
        PROVE  R!InCache(live', req[r].route, req[r].device) \subseteq held'[r] \cup {0}
    <3>1. /\ req[r].device \in Devices
          /\ R!InCache(live, req[r].route, req[r].device) \subseteq held[r] \cup {0}
      BY <2>1, <2>2 DEF Chained, Watched
    <3>2. \A s \in R!Slots(R!Router[req[r].route].auth) : s[1] \in R!Kinds /\ s[2] \in R!Types
      BY DEF R!Slots, R!Kinds, R!Types
    <3> QED
      BY <1>1, <1>4, <3>1, <3>2 DEF R!InCache
  <2> QED
    BY <2>1, <2>2, Undisturbed
<1> QED
  BY <1>5, <1>6 DEF RouteInv

LEMMA OtpStepKeeps ==
  ASSUME RouteInv, R!OtpStep
  PROVE  RouteInv'
<1>1. UNCHANGED <<session, live, stage, req, ctx, given, held>>
  BY DEF R!OtpStep
<1>2. PICK i \in Demands :
        \/ otps' = [otps EXCEPT !.recorded = i]
        \/ otps' = [otps EXCEPT !.given = otps.given \cup {i}]
        \/ i \in otps.given /\ otps' = [otps EXCEPT !.used = otps.used \cup {i}]
  BY DEF R!OtpStep, Demands
<1>3. /\ otps \in [given : SUBSET Demands, recorded : Demands \cup {None},
                   used : SUBSET Demands] /\ otps.used \subseteq otps.given
  BY DEF RouteInv, RouteTypes
<1>4. /\ otps' \in [given : SUBSET Demands, recorded : Demands \cup {None},
                    used : SUBSET Demands]
      /\ otps'.used \subseteq otps'.given /\ otps.given \subseteq otps'.given
  BY <1>2, <1>3
<1>5. RouteTypes'
  BY <1>1, <1>4 DEF RouteInv, RouteTypes
<1>6. ASSUME NEW r \in Requests PROVE Chained(r)'
  <2>1. Waits(r) /\ RouteTypes /\ Chained(r) /\ Extends /\ held'[r] = held[r]
    BY <1>1, <1>4 DEF Waits, RouteInv, Extends
  <2>2. stage[r] \notin {"idle", "agent"} =>
          R!InCache(live', req[r].route, req[r].device) \subseteq held'[r] \cup {0}
    BY <1>1, <2>1 DEF Chained, Watched
  <2> QED
    BY <2>1, <2>2, Undisturbed
<1> QED
  BY <1>5, <1>6 DEF RouteInv

\* A refresh ends its request and opens a session of the kind it was let through for.
LEMMA HandlerKeeps ==
  ASSUME NEW r \in Requests, RouteInv, R!Handler(r)
  PROVE  RouteInv'
<1>1. CASE R!Finish(r) /\ UNCHANGED R!cacheVars
  BY <1>1, FinishKeeps
<1>2. CASE ~(R!Finish(r) /\ UNCHANGED R!cacheVars)
  <2> DEFINE s == session[ctx[r].who]
  <2>1. /\ stage[r] = "handler" /\ R!Auth(r) = "refresh"
        /\ R!Opened(s.kind, req[r].device, s.account, None)
        /\ stage' = [stage EXCEPT ![r] = "idle"] /\ req' = [req EXCEPT ![r] = R!NoReq]
        /\ ctx' = [ctx EXCEPT ![r] = R!NoCtx] /\ given' = [given EXCEPT ![r] = {}]
        /\ held' = [q \in Requests |-> IF q = r THEN {} ELSE R!Hold(q)]
    BY <1>2 DEF R!Handler
  <2>2. s \in LogInRecord /\ req[r].device \in Devices
    <3>1. HeldFor(r, ctx[r].who) /\ Watched(r)
      BY <2>1 DEF RouteInv, Chained, Contextual, Admitted
    <3> QED
      BY <2>1, <3>1 DEF HeldFor, Watched, RouteInv, RouteTypes
  <2>3. s.kind \in R!Kinds /\ s.account \in Users \cup Members
    BY <2>2 DEF LogInRecord
  <2> HIDE DEF s
  <2>4. /\ session' \in Seq(LogInRecord) /\ Extends /\ otps' = otps
        /\ live' \in [R!Kinds -> [R!Types -> [Devices -> 0..Len(session')]]]
    BY <2>1, <2>2, <2>3, OpenedKeeps
  <2>5. ASSUME NEW q \in Requests, q # r
        PROVE  /\ held[q] \subseteq held'[q] /\ held'[q] \in SUBSET Nat
               /\ stage[q] \notin {"idle", "agent"} =>
                    R!InCache(live', req[q].route, req[q].device) \subseteq held'[q] \cup {0}
    BY <2>1, <2>4, <2>5, HoldKeeps
  <2>6. held'[r] = {}
    BY <2>1
  <2>7. RouteTypes'
    <3>1. held' \in [Requests -> SUBSET Nat]
      BY <2>1, <2>5, <2>6
    <3>2. req' \in [Requests -> RequestRecord] /\ ctx' \in [Requests -> ContextRecord]
      BY <2>1 DEF RouteInv, RouteTypes, R!NoReq, R!NoCtx, RequestRecord, ContextRecord, R!Kinds
    <3> QED
      BY <2>1, <2>4, <3>1, <3>2 DEF RouteInv, RouteTypes
  <2>8. ASSUME NEW q \in Requests, q # r PROVE Chained(q)'
    <3>1. Waits(q) /\ RouteTypes /\ Chained(q)
      BY <2>1, <2>8 DEF Waits, RouteInv, RouteTypes
    <3> QED
      BY <3>1, <2>4, <2>5, <2>8, Undisturbed
  <2>9. /\ stage'[r] = "idle" /\ req'[r] = R!NoReq /\ ctx'[r] = R!NoCtx
    BY <2>1 DEF RouteInv, RouteTypes
  <2>10. Chained(r)'
    BY <2>9 DEF Chained, Brought, Watched, Contextual, R!NoReq
  <2> QED
    BY <2>7, <2>8, <2>10 DEF RouteInv
<1> QED
  BY <1>1, <1>2

\* Every step keeps the invariant; so it always holds.
LEMMA RouteInvStep ==
  ASSUME RouteInv, [R!Next]_R!vars
  PROVE  RouteInv'
<1>1. CASE R!Arrivals(Served, Devices \cup {None})
  BY <1>1, ArriveKeeps
<1>2. CASE R!Sessions(Devices)
  <2> PICK k \in R!Kinds, d \in Devices :
        \/ \E a \in Users \cup Members, i \in {None, "face_verification"} : R!LogIn(k, d, a, i)
        \/ \E t \in R!Types : R!Expire(k, t, d)
    BY <1>2 DEF R!Sessions
  <2> QED
    BY LogInKeeps, ExpireKeeps
<1>3. CASE R!OtpStep
  BY <1>3, OtpStepKeeps
<1>4. ASSUME NEW r \in Requests, R!Chain(r) PROVE RouteInv'
  BY <1>4, AgentKeeps, UserKeeps, WorkspaceKeeps, MemberKeeps, OtpKeeps, RefreshKeeps,
     BindKeeps, HandlerKeeps DEF R!Chain
<1>5. CASE UNCHANGED R!vars
  <2>1. UNCHANGED <<session, live, otps, stage, req, ctx, given, held>>
    BY <1>5 DEF R!vars
  <2>2. RouteTypes'
    BY <2>1 DEF RouteInv, RouteTypes
  <2>3. ASSUME NEW r \in Requests PROVE Chained(r)'
    <3>1. Waits(r) /\ RouteTypes /\ Chained(r) /\ Extends
      BY <2>1 DEF Waits, Extends, RouteInv
    <3>2. stage[r] \notin {"idle", "agent"} =>
            R!InCache(live', req[r].route, req[r].device) \subseteq held'[r] \cup {0}
      BY <2>1, <3>1 DEF Chained, Watched
    <3> QED
      BY <2>1, <3>1, <3>2, Undisturbed
  <2> QED
    BY <2>2, <2>3 DEF RouteInv
<1> QED
  BY <1>1, <1>2, <1>3, <1>4, <1>5 DEF R!Next

LEMMA RouteInvHolds == R!Spec => []RouteInv
<1>1. R!Init => RouteInv
  BY RouteInvInit
<1>2. RouteInv /\ [R!Next]_R!vars => RouteInv'
  BY RouteInvStep
<1> QED
  BY <1>1, <1>2, PTL DEF R!Spec

\* Whatever path a request takes through the chain, while others log in, refresh and
\* expire, its handler misses of what it reads exactly what Gaps lists: of every
\* middleware, with any sessions, members and permissions.
THEOREM ContextIsProvided == R!Spec => []ContextProvided
<1>1. RouteInv => R!ContextProvided
  <2> SUFFICES ASSUME RouteInv, NEW r \in Requests, stage[r] = "handler"
               PROVE  R!Reads(req[r].route) \ given[r] = GapOf(req[r].route)
    BY DEF R!ContextProvided, GapOf
  <2>1. given[r] = Handed(req[r].route)
    BY DEF RouteInv, Chained, Contextual
  <2>2. req[r].route \in R!Handlers
    BY Underway
  <2> QED
    BY <2>1, <2>2, Missing
<1>2. R!ContextProvided => ContextProvided
  BY SameReads, SameGaps DEF R!ContextProvided, ContextProvided
<1> QED
  BY <1>1, <1>2, RouteInvHolds, PTL

\* A handler acts for a session of its device that the cache held at some moment since
\* the request came, with a permission of its workspace or the intent its route asks
\* for, whatever is replaced, refreshed or removed between the middleware and the
\* handler.
THEOREM IdentityIsHeld == R!Spec => []IdentityHeld
<1>1. RouteInv => R!SessionsOK
  <2> SUFFICES ASSUME RouteInv PROVE R!SessionsOK
    OBVIOUS
  <2>1. \A n \in DOMAIN session : session[n] \in LogInRecord
    BY DEF RouteInv, RouteTypes
  <2>2. ASSUME NEW r \in Requests
        PROVE  (req[r].route = None) = (stage[r] = "idle") /\ ctx[r].who \in 0..Len(session)
    <3>1. (req[r].route = None) = (stage[r] = "idle")
      <4>1. stage[r] # "idle" => req[r].route # None
        BY Underway
      <4>2. stage[r] = "idle" => req[r].route = None
        BY DEF RouteInv, Chained, Brought
      <4> QED
        BY <4>1, <4>2
    <3>2. ctx[r].who \in 0..Len(session)
      <4>1. Len(session) \in Nat /\ DOMAIN session = 1..Len(session)
        BY DEF RouteInv, RouteTypes
      <4>2. CASE stage[r] \notin {"bind", "handler"}
        <5>1. stage[r] \in {"idle", "agent", "auth", "member", "bind", "handler"}
          BY DEF RouteInv, RouteTypes
        <5>2. Contextual(r)
          BY DEF RouteInv, Chained
        <5>3. ctx[r].who = 0
          BY <4>2, <5>1, <5>2 DEF Contextual, R!NoCtx
        <5> QED
          BY <4>1, <5>3
      <4>3. CASE stage[r] \in {"bind", "handler"}
        <5>1. R!Auth(r) \in {"none", "user", "workspace", "refresh", "otp"} /\ Admitted(r)
          BY <4>3, Underway DEF RouteInv, Chained, Contextual
        <5> QED
          BY <4>1, <5>1 DEF Admitted, HeldFor
      <4> QED
        BY <4>2, <4>3
    <3> QED
      BY <3>1, <3>2
  <2> QED
    BY <2>1, <2>2 DEF R!SessionsOK, RouteInv, RouteTypes, LogInRecord
<1>2. ASSUME RouteInv, NEW r \in Requests, stage[r] = "handler", NEW n, n = ctx[r].who
      PROVE  /\ R!Auth(r) \in {"user", "workspace", "refresh"} =>
                  /\ n \in held[r] \ {0} /\ session[n].device = req[r].device
                  /\ R!Auth(r) # "refresh" => session[n].kind = R!Auth(r)
             /\ R!Auth(r) = "user" => R!Demand(r) \in {None, session[n].intent}
             /\ R!Auth(r) = "workspace" =>
                  \E m \in Members : /\ Of[m] = Of[session[n].account]
                                     /\ Grants[m] \cap {R!Demand(r), "super"} # {}
             /\ R!Auth(r) = "otp" => req[r].otp = R!Demand(r) /\ req[r].otp \in otps.given
  <2>1. Admitted(r) /\ DOMAIN session = 1..Len(session) /\ Len(session) \in Nat
    BY <1>2 DEF RouteInv, RouteTypes, Chained, Contextual
  <2> QED
    BY <1>2, <2>1 DEF Admitted, HeldFor
<1>3. RouteInv => R!IdentityHeld
  BY <1>1, <1>2 DEF R!IdentityHeld
<1>4. R!IdentityHeld => IdentityHeld
  <2>1. \A r : R!Auth(r) = Auth(r) /\ R!Demand(r) = Demand(r)
    BY SameRouter DEF R!Auth, Auth, R!Demand, Demand
  <2>2. R!SessionsOK => SessionsOK
    BY DEF R!SessionsOK, SessionsOK, R!Kinds, Kinds, R!Types, Types
  <2> QED
    BY <2>1, <2>2 DEF R!IdentityHeld, IdentityHeld
<1> QED
  BY <1>3, <1>4, RouteInvHolds, PTL
=============================================================================
