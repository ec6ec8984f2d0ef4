---------------------------------- MODULE Kyc ----------------------------------
(***************************************************************************)
(* How a user links identity documents - NIN, BVN, voter card and driver's    *)
(* licence - to the account.  A document whose phone number is that of the     *)
(* session is linked at once; otherwise a code is sent to that number, and a   *)
(* second request, with the token the code gave, links what the cache says.   *)
(* One database or cache call per step; requests run between two of them.     *)
(* The results of most calls are dropped: a count that fails is 0, a write    *)
(* that fails leaves things as they were, and the request goes on.           *)
(*                                                                         *)
(* Data is abstracted: a document stands for its hashed number and for the    *)
(* record of the provider; the names, gender and birth date it gives are one  *)
(* value each, which names the document.  The address is left out.           *)
(***************************************************************************)
EXTENDS Integers, FiniteSets

CONSTANTS
  Users, Docs, Phones, Requests,
  KindOf,        \* of a document
  PersonOf,      \* of a document: who holds it
  PhoneOf,       \* of a document: the number the provider has, after "234"
  Digits,        \* of a phone number: how many characters the provider gives
  SessionPhone,  \* of a user: the phone of the session, or None
  IsoDates,      \* kinds whose birth dates the provider writes 2006-01-02
  Fails,         \* whether calls can fail whose result is dropped
  None

CodeKinds == {"nin", "bvn", "voterID"}
Kinds     == CodeKinds \cup {"driverID"}

ASSUME ConstantsAssumption ==
  /\ KindOf \in [Docs -> Kinds] /\ PhoneOf \in [Docs -> Phones]
  /\ DOMAIN PersonOf = Docs /\ Digits \in [Phones -> Nat]
  /\ SessionPhone \in [Users -> Phones \cup {None}] /\ IsoDates \subseteq {"nin", "bvn"}
  /\ Fails \in BOOLEAN
  /\ None \notin Users \cup Docs \cup Phones

VARIABLES
  users,    \* the Users collection: what is linked, and the names and birth date
  cached,   \* cache: the documents whose record is kept, by hashed number
  number,   \* cache: "<phone>-nin" and its like, a document
  owner,    \* cache: "<phone>-nin-user" and its like, a user
  ref,      \* cache: the phones with a code that can be verified
  intent,   \* cache: "<phone>-otp-intent", a kind
  tokens,   \* OTP tokens that have not expired, each with the client that has it
  session,  \* cache: of the device of a client, the user of its access token
  pc, req,  \* of a request: where it is, and its local variables
  linked,   \* ghost: every link there ever was, and those whose update failed
  asked,    \* ghost: the documents each user ever asked to link
  proved,   \* ghost: every token there ever was
  torn,     \* ghost: kinds and phones with a broken, failed or overlapping pair of writes
  crossed   \* ghost: users updated between another request's read and write

cache  == <<cached, number, owner, ref, intent>>
ghosts == <<linked, asked, proved, torn, crossed>>
vars   == <<users, cache, tokens, session, pc, req, ghosts>>

\* A linked number is stored as binary or as text, which a filter tells apart.
Unset   == [doc |-> None, form |-> "none"]
Stored  == [doc : Docs, form : {"bytes", "text"}] \cup {Unset}
NoField == [of |-> None, verified |-> FALSE]
Field   == [of : Docs \cup {None, "1990-01-01"}, verified : BOOLEAN]
Account == [nin : Stored, bvn : Stored, voterID : Stored, driverID : Stored,
            names : Field, dob : Field]
Pairs   == CodeKinds \X Phones
Token   == [by : Users, phone : Phones, kind : CodeKinds]
NoReq   == [client |-> None, user |-> None, doc |-> None, names |-> NoField,
            dob |-> NoField, ok |-> FALSE]
PCs     == {"idle", "count", "fetch", "compare", "read", "link", "putNumber", "putOwner",
            "sms", "saveIntent", "owner", "readByCode", "linkByCode", "forget", "session"}
Links   == [user : Users, doc : Docs, how : {"phone", "code", "licence"}]

TypeOK ==
  /\ users \in [Users -> Account] /\ cached \subseteq Docs
  /\ number \in [Pairs -> Docs \cup {None}] /\ owner \in [Pairs -> Users \cup {None}]
  /\ ref \subseteq Phones /\ intent \in [Phones -> CodeKinds \cup {None}]
  /\ tokens \subseteq Token /\ session \in [Users -> Users \cup {None}]
  /\ pc \in [Requests -> PCs]
  /\ req \in [Requests -> [client : Users \cup {None}, user : Users \cup {None},
                           doc : Docs \cup {None}, names : Field, dob : Field, ok : BOOLEAN]]
  /\ linked \subseteq Links /\ asked \subseteq Users \X Docs /\ proved \subseteq Token
  /\ torn \subseteq Pairs /\ crossed \subseteq Users

Init ==
  /\ users = [u \in Users |-> [nin |-> Unset, bvn |-> Unset, voterID |-> Unset,
                               driverID |-> Unset, names |-> NoField, dob |-> NoField]]
  /\ cached = {} /\ number = [k \in Pairs |-> None] /\ owner = [k \in Pairs |-> None]
  /\ ref = {} /\ intent = [p \in Phones |-> None] /\ tokens = {}
  /\ session = [u \in Users |-> None]
  /\ pc = [r \in Requests |-> "idle"] /\ req = [r \in Requests |-> NoReq]
  /\ linked = {} /\ asked = {} /\ proved = {} /\ torn = {} /\ crossed = {}

Doc(r)  == req[r].doc
Kind(r) == KindOf[Doc(r)]
Pair(r) == <<Kind(r), PhoneOf[Doc(r)]>>

Goto(r, there) == pc' = [pc EXCEPT ![r] = there] /\ UNCHANGED req
\* The value a write leaves, when nobody looks at its result.
Written(new, now) == {new} \cup (IF Fails THEN {now} ELSE {})

Finish(r) == pc' = [pc EXCEPT ![r] = "idle"] /\ req' = [req EXCEPT ![r] = NoReq]

\* Requests between the two writes, or the two reads, of a pair.
InPair(k) == {r \in Requests : pc[r] \in {"putOwner", "owner"} /\ Pair(r) = k}
TornBy(k) == torn' = torn \cup (IF InPair(k) = {} THEN {} ELSE {k})

(***************************************************************************)
(* SetNINDetails, SetBVNDetails, SetVoterIDDetails, SetDriversLicenseDetails.  *)
(***************************************************************************)
StartSet(r, u, d) ==
  /\ pc[r] = "idle" /\ users[u][KindOf[d]] = Unset
  /\ pc' = [pc EXCEPT ![r] = "count"]
  /\ req' = [req EXCEPT ![r] = [NoReq EXCEPT !.user = u, !.doc = d,
                                 !.names = users[u].names, !.dob = users[u].dob]]
  /\ asked' = asked \cup {<<u, d>>}
  /\ UNCHANGED <<users, cache, tokens, session, linked, proved, torn, crossed>>

\* CountDocs with the hash as bytes: what is stored as text does not match; when it
\* fails the count is 0.
AlreadyLinked(d) == \E u \in Users : users[u][KindOf[d]] = [doc |-> d, form |-> "bytes"]

CountLinked(r) ==
  /\ pc[r] = "count" /\ (~AlreadyLinked(Doc(r)) \/ Fails) /\ Goto(r, "fetch")
  /\ UNCHANGED <<users, cache, tokens, session, ghosts>>

\* The record comes from the cache or from the provider.  What follows is decided
\* on it: the lookup of the account was for the number only, so that a phone that
\* differs runs into names that were not read, and the request ends.
Fetch(r) ==
  LET mine == SessionPhone[req[r].user]
      readable == \/ Kind(r) \in IsoDates \cup {"voterID"}
                  \/ Kind(r) = "bvn" /\ mine = None
  IN
  /\ pc[r] = "fetch" /\ cached' \in Written(cached \cup {Doc(r)}, cached)
  /\ \/ Kind(r) = "driverID" /\ Goto(r, "compare")
     \/ readable /\ mine = PhoneOf[Doc(r)] /\ Goto(r, "read")
     \/ readable /\ mine = None /\ Kind(r) # "driverID" /\ Goto(r, "putNumber")
     \/ /\ Kind(r) # "driverID" /\ (~readable \/ mine \notin {None, PhoneOf[Doc(r)]})
        /\ Finish(r)
  /\ UNCHANGED <<users, number, owner, ref, intent, tokens, session, ghosts>>

\* The voter card takes the last name for the first.
NamesOf(d) == <<PersonOf[d], KindOf[d] = "voterID">>

NamesMatch(names, dob, d) ==
  /\ NamesOf(names.of) = NamesOf(d)
  /\ dob.of \in Docs /\ PersonOf[dob.of] = PersonOf[d]

\* The faces may match; else names and birth date decide, if there are any.  A
\* licence that does not match goes on all the same.
CompareFaces(r) ==
  /\ pc[r] = "compare"
  /\ \/ pc' = [pc EXCEPT ![r] = "read"] /\ req' = [req EXCEPT ![r].ok = TRUE]
     \/ /\ req[r].names.of # None /\ pc' = [pc EXCEPT ![r] = "read"]
        /\ NamesOf(req[r].names.of) = NamesOf(Doc(r)) => req[r].dob.of # None
        /\ req' = [req EXCEPT ![r].ok = NamesMatch(req[r].names, req[r].dob, Doc(r))]
  /\ UNCHANGED <<users, cache, tokens, session, ghosts>>

ReadUser(r, here, there) ==
  /\ pc[r] = here /\ pc' = [pc EXCEPT ![r] = there]
  /\ req' = [req EXCEPT ![r].names = users[req[r].user].names, ![r].dob = users[req[r].user].dob]
  /\ UNCHANGED <<users, cache, tokens, session, ghosts>>

\* Mutant of Filled: the payload has the field in any case.
FilledAlways(read, now, value, ok) == [of |-> value, verified |-> ok]

\* A field after the update, which leaves it out if it was verified when read.
Filled(read, now, value, ok) == IF read.verified THEN now ELSE [of |-> value, verified |-> ok]

\* One update by id, of the number and the fields; the answer is the same when it fails.
Link(r, form, birth, ok, how) ==
  LET u == req[r].user
      others == {q \in Requests \ {r} : pc[q] \in {"link", "linkByCode"} /\ req[q].user = u}
  IN
  /\ users' \in Written([users EXCEPT
       ![u][Kind(r)] = [doc |-> Doc(r), form |-> form],
       ![u].names = Filled(req[r].names, @, Doc(r), ok),
       ![u].dob = IF Kind(r) = "voterID" THEN @ ELSE Filled(req[r].dob, @, birth, ok)], users)
  /\ linked' = linked \cup {[user |-> u, doc |-> Doc(r), how |-> how]}
  /\ crossed' = crossed \cup (IF others = {} THEN {} ELSE {u})

LinkNow(r) ==
  /\ pc[r] = "link" /\ Finish(r)
  /\ IF Kind(r) = "driverID" THEN Link(r, "text", Doc(r), req[r].ok, "licence")
     ELSE Link(r, IF Kind(r) = "nin" THEN "bytes" ELSE "text", Doc(r), TRUE, "phone")
  /\ UNCHANGED <<cache, tokens, session, asked, proved, torn>>

\* A code goes to the phone of the document: number, user, code and intent are
\* written one after the other, and each write may be lost.
PutNumber(r) ==
  /\ pc[r] = "putNumber" /\ Goto(r, "putOwner")
  /\ \/ number' = [number EXCEPT ![Pair(r)] = Doc(r)] /\ TornBy(Pair(r))
     \/ Fails /\ UNCHANGED number /\ torn' = torn \cup {Pair(r)}
  /\ UNCHANGED <<users, cached, owner, ref, intent, tokens, session, linked, asked, proved, crossed>>

\* Mutant of PutOwner: the first user of a phone stays.
PutOwnerOnce(r) ==
  /\ pc[r] = "putOwner" /\ Goto(r, "sms")
  /\ owner' = [owner EXCEPT ![Pair(r)] = IF @ = None THEN req[r].user ELSE @]
  /\ UNCHANGED <<users, cached, number, ref, intent, tokens, session, ghosts>>

PutOwner(r) ==
  /\ pc[r] = "putOwner" /\ Goto(r, "sms")
  /\ \/ owner' = [owner EXCEPT ![Pair(r)] = req[r].user] /\ UNCHANGED torn
     \/ Fails /\ UNCHANGED owner /\ torn' = torn \cup {Pair(r)}
  /\ UNCHANGED <<users, cached, number, ref, intent, tokens, session, linked, asked, proved, crossed>>

SendCode(r) ==
  /\ pc[r] = "sms" /\ Goto(r, "saveIntent")
  /\ ref' \in Written(ref \cup {PhoneOf[Doc(r)]}, ref)
  /\ UNCHANGED <<users, cached, number, owner, intent, tokens, session, ghosts>>

SaveIntent(r) ==
  /\ pc[r] = "saveIntent" /\ Finish(r)
  /\ intent' \in Written([intent EXCEPT ![PhoneOf[Doc(r)]] = Kind(r)], intent)
  /\ UNCHANGED <<users, cached, number, owner, ref, tokens, session, ghosts>>

(***************************************************************************)
(* VerifyOTP (module OtpChannel): it takes phones of ten characters, and the   *)
(* number of the provider comes after "234".                                  *)
(***************************************************************************)
Accepted(p) == Digits[p] + 3 = 10

VerifyCode(c, p) ==
  LET t == [by |-> c, phone |-> p, kind |-> intent[p]] IN
  /\ Accepted(p) /\ p \in ref /\ ref' \in Written(ref \ {p}, ref) /\ intent[p] # None
  /\ tokens' = tokens \cup {t} /\ proved' = proved \cup {t}
  /\ UNCHANGED <<users, cached, number, owner, intent, session, pc, req,
                 linked, asked, torn, crossed>>

Expire ==
  /\ \/ \E p \in ref : ref' = ref \ {p} /\ UNCHANGED <<intent, tokens>>
     \/ \E p \in Phones : /\ intent[p] # None /\ intent' = [intent EXCEPT ![p] = None]
                          /\ UNCHANGED <<ref, tokens>>
     \/ \E t \in tokens : tokens' = tokens \ {t} /\ UNCHANGED <<ref, intent>>
  /\ UNCHANGED <<users, cached, number, owner, session, pc, req, ghosts>>

(***************************************************************************)
(* VerifyNINDetails, VerifyBVNDetails, VerifyVoterIDDetails.                  *)
(***************************************************************************)
\* Mutant of StartVerify: the intent of the token is not compared.
StartVerifyAnyIntent(r, t, kind) ==
  LET k == <<kind, t.phone>> IN
  /\ pc[r] = "idle" /\ number[k] # None
  /\ pc' = [pc EXCEPT ![r] = "owner"] /\ TornBy(k)
  /\ req' = [req EXCEPT ![r] = [NoReq EXCEPT !.client = t.by, !.doc = number[k]]]
  /\ UNCHANGED <<users, cache, tokens, session, linked, asked, proved, crossed>>

\* OTPTokenMiddleware, and the read of the number.
StartVerify(r, t, kind) ==
  LET k == <<kind, t.phone>> IN
  /\ pc[r] = "idle" /\ t.kind = kind /\ intent[t.phone] = kind /\ number[k] # None
  /\ pc' = [pc EXCEPT ![r] = "owner"] /\ TornBy(k)
  /\ req' = [req EXCEPT ![r] = [NoReq EXCEPT !.client = t.by, !.doc = number[k]]]
  /\ UNCHANGED <<users, cache, tokens, session, linked, asked, proved, crossed>>

\* The record, then the user.  The birth date of a BVN is read in another format
\* here than in SetBVNDetails.
ReadOwner(r) ==
  /\ pc[r] = "owner" /\ Doc(r) \in cached /\ owner[Pair(r)] # None
  /\ Kind(r) = "bvn" => "bvn" \notin IsoDates
  /\ pc' = [pc EXCEPT ![r] = "readByCode"]
  /\ req' = [req EXCEPT ![r].user = owner[Pair(r)]]
  /\ UNCHANGED <<users, cache, tokens, session, ghosts>>

\* The birth date of a NIN is fixed here.
LinkByCode(r) ==
  /\ pc[r] = "linkByCode" /\ Goto(r, "forget")
  /\ Link(r, "text", IF Kind(r) = "nin" THEN "1990-01-01" ELSE Doc(r), TRUE, "code")
  /\ UNCHANGED <<cache, tokens, session, asked, proved, torn>>

\* The other key that is deleted, by user instead of phone, never exists; for a
\* voter card the record itself is taken for the key.
ForgetRecord(r) ==
  /\ pc[r] = "forget" /\ Goto(r, "session")
  /\ cached' \in Written(cached \ (IF Kind(r) = "voterID" THEN {} ELSE {Doc(r)}), cached)
  /\ UNCHANGED <<users, number, owner, ref, intent, tokens, session, ghosts>>

SaveSession(r) ==
  /\ pc[r] = "session" /\ Finish(r)
  /\ session' \in Written([session EXCEPT ![req[r].client] = req[r].user], session)
  /\ UNCHANGED <<users, cache, tokens, ghosts>>

\* The request ends early: a refusal, a failing provider or SMS, a panic, a crash.
Ends(r) ==
  /\ pc[r] # "idle" /\ Finish(r)
  /\ torn' = torn \cup (IF pc[r] = "putOwner" THEN {Pair(r)} ELSE {})
  /\ UNCHANGED <<users, cache, tokens, session, linked, asked, proved, crossed>>

--------------------------------------------------------------------------------
SetSteps(r) ==
  \/ CountLinked(r) \/ Fetch(r) \/ ReadUser(r, "read", "link") \/ LinkNow(r)
  \/ PutNumber(r) \/ PutOwner(r) \/ SendCode(r) \/ SaveIntent(r)

VerifySteps(r) ==
  \/ ReadOwner(r) \/ ReadUser(r, "readByCode", "linkByCode") \/ LinkByCode(r)
  \/ ForgetRecord(r) \/ SaveSession(r)

Handles(r, kind) == pc[r] # "idle" /\ Kind(r) = kind

SetNINDetails(r)            == Handles(r, "nin") /\ SetSteps(r)
SetBVNDetails(r)            == Handles(r, "bvn") /\ SetSteps(r)
SetVoterIDDetails(r)        == Handles(r, "voterID") /\ SetSteps(r)
SetDriversLicenseDetails(r) == Handles(r, "driverID") /\ (SetSteps(r) \/ CompareFaces(r))
VerifyNINDetails(r)         == Handles(r, "nin") /\ VerifySteps(r)
VerifyBVNDetails(r)         == Handles(r, "bvn") /\ VerifySteps(r)
VerifyVoterIDDetails(r)     == Handles(r, "voterID") /\ VerifySteps(r)

Step(r) ==
  \/ SetNINDetails(r) \/ SetBVNDetails(r) \/ SetVoterIDDetails(r)
  \/ SetDriversLicenseDetails(r)
  \/ VerifyNINDetails(r) \/ VerifyBVNDetails(r) \/ VerifyVoterIDDetails(r)

Next ==
  \/ \E r \in Requests : \/ \E u \in Users, d \in Docs : StartSet(r, u, d)
                         \/ \E t \in tokens, k \in CodeKinds : StartVerify(r, t, k)
                         \/ Step(r) \/ Ends(r)
  \/ \E c \in Users, p \in Phones : VerifyCode(c, p)
  \/ Expire

Spec == Init /\ [][Next]_vars

(***************************************************************************)
(* Properties.                                                               *)
(***************************************************************************)
\* The two cache entries of a phone name a document and a user apart from each
\* other, and other users may ask about the same phone in between: still, what is
\* linked to an account is what its user asked for, unless two requests met
\* between the two entries, one ended there, or the write of one of them was lost.
LinkedAsAsked ==
  \A l \in linked :
    <<l.user, l.doc>> \in asked \/ <<KindOf[l.doc], PhoneOf[l.doc]>> \in torn

\* Every link rests on the phone of the document: it is that of the session, or
\* somebody verified a code that was sent to it for this kind of document.
LinksAreProved ==
  \A l \in linked :
    \/ l.how = "phone" /\ SessionPhone[l.user] = PhoneOf[l.doc]
    \/ l.how = "code" /\ \E t \in proved :
         t.phone = PhoneOf[l.doc] /\ t.kind = KindOf[l.doc]
    \/ l.how = "licence" /\ KindOf[l.doc] = "driverID"

\* A client that is given a session by a verification verified a code of a
\* document that was linked to the user of that session just before.
SessionFollowsCode ==
  \A c \in Users : session[c] # None =>
    \E l \in linked :
      /\ l.user = session[c] /\ l.how = "code"
      /\ [by |-> c, phone |-> PhoneOf[l.doc], kind |-> KindOf[l.doc]] \in proved

\* Whatever documents come later, by whichever of the paths, a verified name or
\* birth date stays as it is, unless the user was updated between the read and
\* the write of another request.
VerifiedFieldsKept ==
  [][\A u \in Users : \A f \in {"names", "dob"} :
       users[u][f].verified => users'[u][f] = users[u][f] \/ u \in crossed']_vars

\* "This NIN is already linked to another Gateman account.": a document that is
\* linked is not looked up for another account.
LinkedIsRefused ==
  [][\A r \in Requests : pc[r] = "count" /\ pc'[r] = "fetch" =>
       \A u \in Users \ {req[r].user} : users[u][Kind(r)].doc # Doc(r)]_vars

\* A document is linked, and a session given for it, on proof of its phone only.
PhonesWereProved == TypeOK /\ LinksAreProved /\ SessionFollowsCode

================================================================================
