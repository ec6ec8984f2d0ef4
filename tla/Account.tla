------------------------------ MODULE Account -------------------------------
(***************************************************************************)
(* Accounts of end users, the list of devices in an account, and the       *)
(* sessions of devices: CreateUserUseCase, VerifyUserAccount,              *)
(* SetAccountImage, VeirfyDeviceImage, RefreshToken and the middleware in  *)
(* front of them.                                                          *)
(*                                                                         *)
(* An account is a MongoDB document, found by e-mail address or phone      *)
(* number, with no unique index; a handler reads all of it, edits its copy *)
(* and writes back a part - or, in CreateUserUseCase, the whole.  A        *)
(* session is the token whose hash is under "<device>-access" or           *)
(* "<device>-refresh" in Redis: a device has one of each, whoever used it  *)
(* last.                                                                   *)
(*                                                                         *)
(* The same person is named in two ways.  An e-mail address is "plain"     *)
(* when it is in lower case; a phone number is plain when it is the local  *)
(* number, and not plain with the prefix in front, as in a token.          *)
(***************************************************************************)
EXTENDS Naturals, Sequences, FiniteSets, Clients

CONSTANTS
  Owners,     \* owners of an e-mail address or a phone number
  Phones,     \* those who are known by phone
  Docs,       \* ids of account documents
  MaxDevices, \* bound on the length of a device list
  Fails,      \* may a write to Redis be lost?  the callers go on regardless
  NoId        \* the id of a Device that is the zero value

Keys    == [who : Owners, plain : BOOLEAN]
Typed   == {k \in Keys : k.who \in Phones => k.plain}   \* what a client sends
Longer  == {k \in Keys : k.who \in Phones => ~k.plain}  \* and VerifyDeviceDTO asks for:
                                                       \* eleven characters, not ten
Device  == [id : Devices \cup {NoId}, verified : BOOLEAN]
Lists   == Seq(Device)
Account == [key : Typed, verified : BOOLEAN, image : Docs \cup {None}, devices : Lists]
Session == [user : Docs, key : Keys, verified : BOOLEAN, face : BOOLEAN]

ASSUME ConstantsAssumption ==
  /\ IsFiniteSet(Requests)
  /\ Phones \subseteq Owners
  /\ MaxDevices \in Nat
  /\ Fails \in BOOLEAN
  /\ NoId \notin Devices
  /\ None \notin Docs \cup Devices \cup Keys \cup Account \cup Session

VARIABLES
  doc,        \* the Users collection
  access,     \* "<device>-access": the token it is the hash of
  refresh,    \* "<device>-refresh"
  pc,         \* where each request is
  dev,        \* its device
  key,        \* the address or number it was given
  who,        \* the document it works on
  copy,       \* what it read of that document
  sess,       \* the token it was called with, then the token it makes
  proved,     \* ghost: addresses and numbers that confirmed a code
  confirmed,  \* ghost: owners, with the devices from which they confirmed one
  faced,      \* ghost: account and device whose faces were compared
  pictured    \* ghost: account and device that set the account's picture

cacheVars == <<access, refresh>>
ghostVars == <<proved, confirmed, faced, pictured>>
vars == <<doc, cacheVars, pc, dev, key, who, copy, sess, ghostVars>>

PCs == {"idle", "findLogin", "create", "saveLogin", "findProfile", "markVerified",
        "findForImage", "saveImage", "findForDevice", "saveDevice",
        "findForRefresh", "saveAccess", "saveRefresh"}

TypeOK ==
  /\ doc     \in [Docs -> Account \cup {None}]
  /\ access  \in [Devices -> Session \cup {None}]
  /\ refresh \in [Devices -> Session \cup {None}]
  /\ pc      \in [Requests -> PCs]
  /\ dev     \in [Requests -> Devices \cup {None}]
  /\ key     \in [Requests -> Keys \cup {None}]
  /\ who     \in [Requests -> Docs \cup {None}]
  /\ copy    \in [Requests -> Account \cup {None}]
  /\ sess    \in [Requests -> Session \cup {None}]
  /\ proved  \subseteq Typed
  /\ confirmed \subseteq Owners \X Devices
  /\ faced     \subseteq Docs \X Devices
  /\ pictured  \subseteq Docs \X Devices

Init ==
  /\ doc     = [x \in Docs |-> None]
  /\ access  = [d \in Devices |-> None]
  /\ refresh = [d \in Devices |-> None]
  /\ pc      = [r \in Requests |-> "idle"]
  /\ dev     = [r \in Requests |-> None]
  /\ key     = [r \in Requests |-> None]
  /\ who     = [r \in Requests |-> None]
  /\ copy    = [r \in Requests |-> None]
  /\ sess    = [r \in Requests |-> None]
  /\ proved  = {}
  /\ confirmed = {} /\ faced = {} /\ pictured = {}

-----------------------------------------------------------------------------
At(r, here)    == pc[r] = here
Goto(r, there) == pc' = [pc EXCEPT ![r] = there]

Finish(r) ==
  /\ Goto(r, "idle")
  /\ dev'  = [dev  EXCEPT ![r] = None]
  /\ key'  = [key  EXCEPT ![r] = None]
  /\ who'  = [who  EXCEPT ![r] = None]
  /\ copy' = [copy EXCEPT ![r] = None]
  /\ sess' = [sess EXCEPT ![r] = None]

\* Documents a filter on the address or number finds; FindOne may return any.
Matching(k) == {x \in Docs : doc[x] # None /\ doc[x].key = k}

Lower(k)  == [k EXCEPT !.plain = TRUE]
\* The address or number as a token carries it, and as SetAccountImage turns
\* it into a filter.
Claim(k)  == [k EXCEPT !.plain = @ /\ k.who \notin Phones]
Filter(k) == IF k.who \in Phones THEN k ELSE Lower(k)

Written(f, k, v) == {[f EXCEPT ![k] = v]} \cup IF Fails THEN {f} ELSE {}

(***************************************************************************)
(* Device lists.                                                           *)
(***************************************************************************)
\* Where the loops over account.Devices break, if they do.
First(l, d) ==
  {i \in 1..Len(l) : l[i].id = d /\ \A j \in 1..(i - 1) : l[j].id # d}

RemoveAt(l, i) == SubSeq(l, 1, i - 1) \o SubSeq(l, i + 1, Len(l))

\* CreateUserUseCase: the device moves to the end, as a new one.
Relisted(l, d) ==
  LET added == [id |-> d, verified |-> FALSE]
  IN  IF First(l, d) = {} THEN {Append(l, added)}
      ELSE {Append(RemoveAt(l, i), added) : i \in First(l, d)}

\* SetAccountImage keeps a pointer to element i of the list and then removes
\* that element, which moves the next one, if any, under the pointer.
MarkedByPointer(l, d) ==
  {LET rest == RemoveAt(l, i)
       seen == IF i < Len(l) THEN rest[i] ELSE l[i]
   IN  Append(rest, [id |-> seen.id, verified |-> TRUE]) : i \in First(l, d)}

\* VeirfyDeviceImage copies the element; a device that is not in the list
\* leaves the copy the zero value, and that is appended.
MarkedByValue(l, d) ==
  IF First(l, d) = {} THEN {Append(l, [id |-> NoId, verified |-> TRUE])}
  ELSE {Append(RemoveAt(l, i), [id |-> d, verified |-> TRUE]) : i \in First(l, d)}

(***************************************************************************)
(* Logging in, or signing up: CreateUserUseCase.  The codes it sends are   *)
(* OtpChannel's.                                                           *)
(***************************************************************************)
Authenticate(r, d, k) ==
  /\ At(r, "idle")
  /\ Goto(r, "findLogin")
  /\ dev' = [dev EXCEPT ![r] = d]
  /\ key' = [key EXCEPT ![r] = k]
  /\ UNCHANGED <<doc, cacheVars, who, copy, sess, ghostVars>>

\* Mutant of FindLogin: the filter has the number with its prefix, as a token.
FindLoginByClaim(r) ==
  /\ At(r, "findLogin")
  /\ \/ /\ Matching(Claim(key[r])) = {}
        /\ Goto(r, "create")
        /\ UNCHANGED <<who, copy>>
     \/ \E x \in Matching(Claim(key[r])) :
          /\ Goto(r, "saveLogin")
          /\ who'  = [who  EXCEPT ![r] = x]
          /\ copy' = [copy EXCEPT ![r] = doc[x]]
  /\ UNCHANGED <<doc, cacheVars, dev, key, sess, ghostVars>>

\* The filter has the address in lower case, whatever was stored.
FindLogin(r) ==
  /\ At(r, "findLogin")
  /\ \/ /\ Matching(Lower(key[r])) = {}
        /\ Goto(r, "create")
        /\ UNCHANGED <<who, copy>>
     \/ \E x \in Matching(Lower(key[r])) :
          /\ Goto(r, "saveLogin")
          /\ who'  = [who  EXCEPT ![r] = x]
          /\ copy' = [copy EXCEPT ![r] = doc[x]]
  /\ UNCHANGED <<doc, cacheVars, dev, key, sess, ghostVars>>

\* The new account holds the address as it was typed.
Create(r) ==
  /\ At(r, "create")
  /\ \E x \in Docs :
       /\ doc[x] = None
       /\ doc' = [doc EXCEPT ![x] =
            [key |-> key[r], verified |-> FALSE, image |-> None,
             devices |-> <<[id |-> dev[r], verified |-> FALSE]>>]]
  /\ Finish(r)
  /\ UNCHANGED <<cacheVars, ghostVars>>

\* UpdateByID replaces every field of the document by those of the copy.
SaveLogin(r) ==
  /\ At(r, "saveLogin")
  /\ \E l \in Relisted(copy[r].devices, dev[r]) :
       /\ Len(l) <= MaxDevices
       /\ doc' = [doc EXCEPT ![who[r]] = [copy[r] EXCEPT !.devices = l]]
  /\ Finish(r)
  /\ UNCHANGED <<cacheVars, ghostVars>>

(***************************************************************************)
(* Confirming the address: VerifyUserAccount, behind OTPTokenMiddleware.   *)
(***************************************************************************)
VerifyUserAccount(r, d, k) ==
  /\ At(r, "idle")
  /\ Goto(r, "findProfile")
  /\ dev' = [dev EXCEPT ![r] = d]
  /\ key' = [key EXCEPT ![r] = k]
  /\ UNCHANGED <<doc, cacheVars, who, copy, sess, ghostVars>>

FindProfile(r) ==
  /\ At(r, "findProfile")
  /\ \E x \in Matching(key[r]) :
       sess' = [sess EXCEPT ![r] = [user |-> x, key |-> Claim(doc[x].key),
                                    verified |-> TRUE, face |-> TRUE]]
  /\ Goto(r, "markVerified")
  /\ UNCHANGED <<doc, cacheVars, dev, key, who, copy, ghostVars>>

Confirmed(r) == /\ proved'    = proved \cup {key[r]}
                /\ confirmed' = confirmed \cup {<<key[r].who, dev[r]>>}

\* Mutant of MarkVerified: every account of the owner, however it is spelled.
MarkVerifiedAnySpelling(r) ==
  /\ At(r, "markVerified")
  /\ doc' = [x \in Docs |-> IF doc[x] # None /\ doc[x].key.who = key[r].who
                            THEN [doc[x] EXCEPT !.verified = TRUE] ELSE doc[x]]
  /\ Confirmed(r)
  /\ Goto(r, "saveAccess")
  /\ UNCHANGED <<cacheVars, dev, key, who, copy, sess, faced, pictured>>

\* UpdateMany: every account with that address or number.
MarkVerified(r) ==
  /\ At(r, "markVerified")
  /\ doc' = [x \in Docs |-> IF x \in Matching(key[r])
                            THEN [doc[x] EXCEPT !.verified = TRUE] ELSE doc[x]]
  /\ Confirmed(r)
  /\ Goto(r, "saveAccess")
  /\ UNCHANGED <<cacheVars, dev, key, who, copy, sess, faced, pictured>>

(***************************************************************************)
(* The first picture: SetAccountImage, with a "face_verification" token.   *)
(* No face is looked at: the liveness check is commented out.              *)
(***************************************************************************)
SetAccountImage(r, d) ==
  /\ At(r, "idle")
  /\ access[d] # None /\ access[d].face /\ access[d].verified
  /\ Goto(r, "findForImage")
  /\ dev'  = [dev  EXCEPT ![r] = d]
  /\ sess' = [sess EXCEPT ![r] = access[d]]
  /\ UNCHANGED <<doc, cacheVars, key, who, copy, ghostVars>>

\* Mutant of FindForImage: the account is looked up by the device.
FindForImageByDevice(r) ==
  /\ At(r, "findForImage")
  /\ \E x \in Docs :
       /\ doc[x] # None
       /\ First(doc[x].devices, dev[r]) # {}
       /\ who'  = [who  EXCEPT ![r] = x]
       /\ copy' = [copy EXCEPT ![r] = doc[x]]
  /\ Goto(r, "saveImage")
  /\ UNCHANGED <<doc, cacheVars, dev, key, sess, ghostVars>>

\* A filter that finds nothing ends in a nil dereference, an unlisted device
\* in an error; both are Abort.
FindForImage(r) ==
  /\ At(r, "findForImage")
  /\ \E x \in Matching(Filter(sess[r].key)) :
       /\ First(doc[x].devices, dev[r]) # {}
       /\ who'  = [who  EXCEPT ![r] = x]
       /\ copy' = [copy EXCEPT ![r] = doc[x]]
  /\ Goto(r, "saveImage")
  /\ UNCHANGED <<doc, cacheVars, dev, key, sess, ghostVars>>

\* The token SetAccountImage and VeirfyDeviceImage answer with, made of what they had
\* read before.
FullSession(x, a) == [user |-> x, key |-> Claim(a.key), verified |-> a.verified,
                      face |-> FALSE]

\* Mutant of SaveImage: the whole document is written back, as in a log-in.
SaveImageWhole(r) ==
  /\ At(r, "saveImage")
  /\ \E l \in MarkedByPointer(copy[r].devices, dev[r]) :
       doc' = [doc EXCEPT ![who[r]] =
                 [copy[r] EXCEPT !.image = sess[r].user, !.devices = l]]
  /\ pictured' = pictured \cup {<<who[r], dev[r]>>}
  /\ sess'  = [sess EXCEPT ![r] = FullSession(who[r], copy[r])]
  /\ Goto(r, "saveAccess")
  /\ UNCHANGED <<cacheVars, dev, key, who, copy, proved, confirmed, faced>>

\* The path of the picture is named after the user of the token.
SaveImage(r) ==
  /\ At(r, "saveImage")
  /\ \E l \in MarkedByPointer(copy[r].devices, dev[r]) :
       doc' = [doc EXCEPT ![who[r]].image = sess[r].user, ![who[r]].devices = l]
  /\ pictured' = pictured \cup {<<who[r], dev[r]>>}
  /\ sess'  = [sess EXCEPT ![r] = FullSession(who[r], copy[r])]
  /\ Goto(r, "saveAccess")
  /\ UNCHANGED <<cacheVars, dev, key, who, copy, proved, confirmed, faced>>

(***************************************************************************)
(* A picture from another device: VeirfyDeviceImage.                       *)
(***************************************************************************)
VeirfyDeviceImage(r, d, k) ==
  /\ At(r, "idle")
  /\ Goto(r, "findForDevice")
  /\ dev' = [dev EXCEPT ![r] = d]
  /\ key' = [key EXCEPT ![r] = k]
  /\ UNCHANGED <<doc, cacheVars, who, copy, sess, ghostVars>>

\* Faces can only match when the account has a picture; no match is Abort.
FindForDevice(r) ==
  /\ At(r, "findForDevice")
  /\ \E x \in Matching(key[r]) :
       /\ doc[x].verified
       /\ doc[x].image # None
       /\ who'  = [who  EXCEPT ![r] = x]
       /\ copy' = [copy EXCEPT ![r] = doc[x]]
  /\ Goto(r, "saveDevice")
  /\ UNCHANGED <<doc, cacheVars, dev, key, sess, ghostVars>>

SaveDevice(r) ==
  /\ At(r, "saveDevice")
  /\ \E l \in MarkedByValue(copy[r].devices, dev[r]) :
       /\ Len(l) <= MaxDevices
       /\ doc' = [doc EXCEPT ![who[r]].devices = l]
  /\ faced' = faced \cup {<<who[r], dev[r]>>}
  /\ sess'  = [sess EXCEPT ![r] = FullSession(who[r], copy[r])]
  /\ Goto(r, "saveAccess")
  /\ UNCHANGED <<cacheVars, dev, key, who, copy, proved, confirmed, pictured>>

(***************************************************************************)
(* Sessions.                                                               *)
(***************************************************************************)
RefreshToken(r, d) ==
  /\ At(r, "idle")
  /\ refresh[d] # None /\ refresh[d].verified
  /\ Goto(r, "findForRefresh")
  /\ dev'  = [dev  EXCEPT ![r] = d]
  /\ sess' = [sess EXCEPT ![r] = refresh[d]]
  /\ UNCHANGED <<doc, cacheVars, key, who, copy, ghostVars>>

FindForRefresh(r) ==
  /\ At(r, "findForRefresh")
  /\ doc[sess[r].user] # None
  /\ sess' = [sess EXCEPT ![r] = FullSession(sess[r].user, doc[sess[r].user])]
  /\ Goto(r, "saveAccess")
  /\ UNCHANGED <<doc, cacheVars, dev, key, who, copy, ghostVars>>

\* Mutant of SaveAccess: every handler goes on to store a refresh token.
SaveAccessAlwaysRefresh(r) ==
  /\ At(r, "saveAccess")
  /\ access' \in Written(access, dev[r], sess[r])
  /\ Goto(r, "saveRefresh")
  /\ UNCHANGED <<doc, refresh, dev, key, who, copy, sess, ghostVars>>

\* VerifyUserAccount stores an access token only.
SaveAccess(r) ==
  /\ At(r, "saveAccess")
  /\ access' \in Written(access, dev[r], sess[r])
  /\ \/ sess[r].face /\ Finish(r)
     \/ /\ ~sess[r].face
        /\ Goto(r, "saveRefresh")
        /\ UNCHANGED <<dev, key, who, copy, sess>>
  /\ UNCHANGED <<doc, refresh, ghostVars>>

SaveRefresh(r) ==
  /\ At(r, "saveRefresh")
  /\ refresh' \in Written(refresh, dev[r], sess[r])
  /\ Finish(r)
  /\ UNCHANGED <<doc, access, ghostVars>>

ExpireAccess(d) ==
  /\ access[d] # None
  /\ access' = [access EXCEPT ![d] = None]
  /\ UNCHANGED <<doc, refresh, pc, dev, key, who, copy, sess, ghostVars>>

ExpireRefresh(d) ==
  /\ refresh[d] # None
  /\ refresh' = [refresh EXCEPT ![d] = None]
  /\ UNCHANGED <<doc, access, pc, dev, key, who, copy, sess, ghostVars>>

\* A refusal, an error or a panic of the handler, or the end of its process.
Abort(r) ==
  /\ ~At(r, "idle")
  /\ Finish(r)
  /\ UNCHANGED <<doc, cacheVars, ghostVars>>

-----------------------------------------------------------------------------
Start(r) ==
  \E d \in Devices :
    \/ SetAccountImage(r, d)
    \/ RefreshToken(r, d)
    \/ \E k \in Typed : Authenticate(r, d, k) \/ VerifyUserAccount(r, d, k)
    \/ \E k \in Longer : VeirfyDeviceImage(r, d, k)

Step(r) ==
  \/ FindLogin(r) \/ Create(r) \/ SaveLogin(r)
  \/ FindProfile(r) \/ MarkVerified(r)
  \/ FindForImage(r) \/ SaveImage(r)
  \/ FindForDevice(r) \/ SaveDevice(r)
  \/ FindForRefresh(r) \/ SaveAccess(r) \/ SaveRefresh(r)
  \/ Abort(r)

Next ==
  \/ \E r \in Requests : Start(r) \/ Step(r)
  \/ \E d \in Devices : ExpireAccess(d) \/ ExpireRefresh(d)

Spec == Init /\ [][Next]_vars

-----------------------------------------------------------------------------
(***************************************************************************)
(* Properties.                                                             *)
(***************************************************************************)
Stands(x) == doc[x] # None

\* An account is verified, and a session says so, only when the very address
\* or number of the account confirmed a code: no stale copy, no session of
\* another account on the same device and no refresh brings "verified" about.
VerifiedWasProved ==
  /\ \A x \in Docs : Stands(x) /\ doc[x].verified => doc[x].key \in proved
  /\ \A d \in Devices : \A s \in {access[d], refresh[d]} \ {None} :
       s.verified => Stands(s.user) /\ doc[s.user].key \in proved

\* A refresh token, which lives 180 days and renews itself, goes back to a comparison
\* of faces for that account on that device; or, as SetAccountImage compares none, to a
\* picture set from the device on which a code of the account's owner was confirmed.  No
\* overlap, no session of another account on the device and no refresh gives one to
\* another account or device, and a confirmed code alone gives none.
RefreshEarned ==
  \A d \in Devices : refresh[d] # None =>
    LET x == refresh[d].user
    IN  \/ <<x, d>> \in faced
        \/ /\ <<x, d>> \in pictured
           /\ Stands(x) /\ <<doc[x].key.who, d>> \in confirmed

\* The picture of an account was taken by its owner, although SetAccountImage
\* takes the path from the token and looks the account up by another field.
ImageOfOwner ==
  \A x \in Docs : Stands(x) /\ doc[x].image # None
    => Stands(doc[x].image) /\ doc[doc[x].image].key.who = doc[x].key.who

\* There is no unique index, so concurrent sign-ups with one lower-case address
\* or number make several accounts, but never more than were in flight.
AccountsBound ==
  \A k \in Typed : k.plain => Cardinality(Matching(k)) <= Cardinality(Requests)

TakenBack(x) ==
  Stands(x) /\ \/ doc[x].verified /\ ~doc'[x].verified
               \/ doc[x].image # None /\ doc'[x].image = None

\* Only a log-in, writing back the whole of what it read, takes the verification
\* or the picture of an account back; concurrent face checks, confirmations and
\* refreshes never do, whatever they had read.
OnlyLoginTakesBack ==
  [][\A x \in Docs : TakenBack(x) =>
       \E r \in Requests : At(r, "saveLogin") /\ who[r] = x /\ dev'[r] = None]_vars

-----------------------------------------------------------------------------
(***************************************************************************)
(* What makes the invariants inductive.                                    *)
(***************************************************************************)
Owned(i, k) == i # None => Stands(i) /\ doc[i].key.who = k.who

DocsGood ==
  \A x \in Docs : Stands(x) => /\ doc[x].verified => doc[x].key \in proved
                               /\ Owned(doc[x].image, doc[x].key)

\* A token names an account that exists, and its owner.
Names(s) == Stands(s.user) /\ s.key.who = doc[s.user].key.who
Backed(s) == s.verified => doc[s.user].key \in proved

Granted == faced \cup pictured
CacheGood ==
  \A d \in Devices :
    /\ access[d] # None => Names(access[d]) /\ Backed(access[d])
    /\ refresh[d] # None => /\ Names(refresh[d]) /\ Backed(refresh[d])
                            /\ <<refresh[d].user, d>> \in Granted

\* What a request read of a document may be old, but not its address.
CopyGood(r) ==
  pc[r] \in {"saveLogin", "saveImage", "saveDevice"} =>
    /\ dev[r] \in Devices /\ who[r] \in Docs /\ copy[r] # None
    /\ Stands(who[r]) /\ copy[r].key = doc[who[r]].key
    /\ copy[r].verified => copy[r].key \in proved
    /\ Owned(copy[r].image, copy[r].key)

SessionGood(r) ==
  /\ pc[r] \in {"markVerified", "findForImage", "saveImage", "findForRefresh",
                "saveAccess", "saveRefresh"}
       => dev[r] \in Devices /\ sess[r] # None /\ Names(sess[r])
  /\ At(r, "markVerified") => /\ sess[r].face
                              /\ doc[sess[r].user].key = key[r]
  /\ pc[r] \in {"saveAccess", "saveRefresh"} => Backed(sess[r])
  /\ At(r, "findForRefresh") \/ (At(r, "saveAccess") /\ ~sess[r].face)
       \/ At(r, "saveRefresh") => <<sess[r].user, dev[r]>> \in Granted
  /\ At(r, "saveImage") => sess[r].key.who = copy[r].key.who

RequestGood(r) ==
  /\ pc[r] \in {"findLogin", "create", "findProfile", "markVerified"}
       => dev[r] \in Devices /\ key[r] \in Typed
  /\ At(r, "findForDevice") => dev[r] \in Devices
  /\ CopyGood(r) /\ SessionGood(r)

\* A request that found no account has a place for the one it will create; only
\* while there is none can more requests get a place.
Creating(k) == {r \in Requests : At(r, "create") /\ key[r] = k}
Places ==
  \A k \in Typed : k.plain =>
    /\ IsFiniteSet(Matching(k))
    /\ Cardinality(Matching(k)) + Cardinality(Creating(k)) <= Cardinality(Requests)

\* What an access token for the picture, and a request that was let in with one, goes
\* back to.
ConfirmedGood ==
  /\ \A p \in pictured : Stands(p[1]) /\ <<doc[p[1]].key.who, p[2]>> \in confirmed
  /\ \A d \in Devices : access[d] # None /\ access[d].face
                          => <<access[d].key.who, d>> \in confirmed
  /\ \A r \in Requests :
       pc[r] \in {"findForImage", "saveImage"} \/ (At(r, "saveAccess") /\ sess[r].face)
         => <<sess[r].key.who, dev[r]>> \in confirmed

IInv == TypeOK /\ DocsGood /\ CacheGood /\ \A r \in Requests : RequestGood(r)
=============================================================================
