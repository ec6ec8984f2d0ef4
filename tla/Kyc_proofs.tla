------------------------------ MODULE Kyc_proofs ------------------------------
(***************************************************************************)
(* Proofs about Kyc, for any users, documents, phones and requests.  IInv   *)
(* is inductive: it says of every request what its place in the handler    *)
(* rests on - a document that was asked for, a phone that is that of the   *)
(* session, a code that was verified - and of every pair of cache entries  *)
(* that it names a user with a document this user asked for, outside the   *)
(* pairs whose two writes were broken or met another request.              *)
(***************************************************************************)
EXTENDS Kyc, TLAPS

SetPCs    == {"count", "fetch", "compare", "read", "link", "putNumber", "putOwner",
              "sms", "saveIntent"}
OwnedPCs  == {"readByCode", "linkByCode", "forget", "session"}
VerifyPCs == OwnedPCs \cup {"owner"}
Request   == [client : Users \cup {None}, user : Users \cup {None},
              doc : Docs \cup {None}, names : Field, dob : Field, ok : BOOLEAN]

\* The token that a client has for the phone and the kind of its document.
TokenOf(r) == [by |-> req[r].client, phone |-> PhoneOf[Doc(r)], kind |-> Kind(r)]

\* A request works for a user that asked for its document.
SetOk(r) ==
  pc[r] \in SetPCs =>
    Doc(r) \in Docs /\ req[r].user \in Users /\ <<req[r].user, Doc(r)>> \in asked

\* How it came to where it is: by the kind of the document, and by its phone.
PathOk(r) ==
  /\ pc[r] = "compare" => Kind(r) = "driverID"
  /\ pc[r] \in {"read", "link"} =>
       Kind(r) = "driverID" \/ SessionPhone[req[r].user] = PhoneOf[Doc(r)]
  /\ pc[r] \in {"putNumber", "putOwner", "sms", "saveIntent"} => Kind(r) \in CodeKinds

\* A request with a token works for a client that verified a code.
VerifyOk(r) ==
  pc[r] \in VerifyPCs =>
    /\ Doc(r) \in Docs /\ Kind(r) \in CodeKinds
    /\ req[r].client \in Users /\ TokenOf(r) \in proved

\* What it read of the pair fits together, and it links before it gives a session.
OwnedOk(r) ==
  /\ pc[r] \in OwnedPCs =>
       req[r].user \in Users /\ (<<req[r].user, Doc(r)>> \in asked \/ Pair(r) \in torn)
  /\ pc[r] \in {"forget", "session"} =>
       [user |-> req[r].user, doc |-> Doc(r), how |-> "code"] \in linked

\* A request that is about to write has the names and the birth date as they are.
FieldsOk(r) ==
  pc[r] \in {"link", "linkByCode"} =>
    \/ req[r].names = users[req[r].user].names /\ req[r].dob = users[req[r].user].dob
    \/ req[r].user \in crossed

\* A pair of entries names a document of its kind and phone; while it is whole, at
\* most one request is between its two halves, with that document, and unless this
\* one writes, the user of the pair asked for the document.
NumberInv ==
  \A k \in Pairs : number[k] # None => <<KindOf[number[k]], PhoneOf[number[k]]>> = k
AloneInv ==
  \A k \in Pairs \ torn : \A r, s \in InPair(k) : r = s
HalfInv ==
  \A k \in Pairs \ torn : \A r \in InPair(k) : Doc(r) = number[k]
WholeInv ==
  \A k \in Pairs \ torn :
    \/ number[k] = None \/ owner[k] = None \/ <<owner[k], number[k]>> \in asked
    \/ \E r \in InPair(k) : pc[r] = "putOwner"

ReqOk(r)  == SetOk(r) /\ PathOk(r) /\ VerifyOk(r) /\ OwnedOk(r)
ReqInv    == \A r \in Requests : ReqOk(r)
FieldsInv == \A r \in Requests : FieldsOk(r)
TokensInv == tokens \subseteq proved
PairInv   == NumberInv /\ AloneInv /\ HalfInv /\ WholeInv
LinksInv  == LinksAreProved /\ SessionFollowsCode /\ LinkedAsAsked
IInv      == TypeOK /\ ReqInv /\ FieldsInv /\ TokensInv /\ PairInv /\ LinksInv

-------------------------------------------------------------------------------
\* A write leaves the new value, or what was there.
LEMMA WrittenIs ==
  ASSUME NEW new, NEW now, NEW x \in Written(new, now)
  PROVE  x = new \/ x = now
BY DEF Written

\* What one request does: the others stay where they are.
Moves(r) == \A q \in Requests \ {r} : pc'[q] = pc[q] /\ req'[q] = req[q]

\* What was linked, asked, proved, torn or crossed stays so.
Grows ==
  /\ linked \subseteq linked' /\ asked \subseteq asked' /\ proved \subseteq proved'
  /\ torn \subseteq torn' /\ crossed \subseteq crossed'

\* The place of a request that does not move rests on what it rested on.
LEMMA ReqKept ==
  ASSUME ReqInv, Grows, NEW r \in Requests, pc'[r] = pc[r], req'[r] = req[r]
  PROVE  ReqOk(r)'
<1>1. Doc(r)' = Doc(r) /\ Kind(r)' = Kind(r) /\ Pair(r)' = Pair(r) /\ TokenOf(r)' = TokenOf(r)
  BY DEF Doc, Kind, Pair, TokenOf
<1>2. SetOk(r)'
  BY <1>1 DEF ReqInv, ReqOk, SetOk, Grows
<1>3. PathOk(r)'
  BY <1>1 DEF ReqInv, ReqOk, PathOk, Doc
<1>4. VerifyOk(r)'
  BY <1>1 DEF ReqInv, ReqOk, VerifyOk, Grows
<1>5. OwnedOk(r)'
  BY <1>1 DEF ReqInv, ReqOk, OwnedOk, Grows
<1> QED
  BY <1>2, <1>3, <1>4, <1>5 DEF ReqOk

\* Fields that were read stay as they are while no account changes.
LEMMA FieldsKept ==
  ASSUME FieldsInv, crossed \subseteq crossed', UNCHANGED users, NEW r \in Requests, Moves(r),
         FieldsOk(r)'
  PROVE  FieldsInv'
BY DEF FieldsInv, FieldsOk, Moves

\* Links and sessions rest on what only grows.
LEMMA LinksKept ==
  ASSUME LinksInv, UNCHANGED <<linked, session>>, Grows
  PROVE  LinksInv'
<1>1. LinksAreProved'
  BY DEF LinksInv, LinksAreProved, Grows
<1>2. SessionFollowsCode'
  BY DEF LinksInv, SessionFollowsCode, Grows
<1>3. LinkedAsAsked'
  BY DEF LinksInv, LinkedAsAsked, Grows
<1> QED
  BY <1>1, <1>2, <1>3 DEF LinksInv

\* A pair is untouched by a request that neither enters it nor leaves it half written;
\* a torn pair does not matter.
LEMMA PairKept ==
  ASSUME PairInv, Grows, UNCHANGED <<number, owner>>, NEW r \in Requests, Moves(r),
         pc'[r] \in {"putOwner", "owner"} => Pair(r)' \in torn',
         pc[r] = "putOwner" => Pair(r) \in torn'
  PROVE  PairInv'
<1>1. ASSUME NEW k \in Pairs, k \notin torn'
      PROVE  InPair(k)' = InPair(k) \ {r}
  BY <1>1 DEF InPair, Pair, Kind, Doc, Moves
<1>2. ASSUME NEW q \in Requests \ {r}
      PROVE  Doc(q)' = Doc(q) /\ pc'[q] = pc[q]
  BY <1>2 DEF Doc, Moves
<1>3. NumberInv'
  BY DEF PairInv, NumberInv
<1>4. AloneInv'
  BY <1>1 DEF PairInv, AloneInv, Grows
<1>5. HalfInv'
  BY <1>1, <1>2 DEF PairInv, HalfInv, Grows, InPair
<1>6. WholeInv'
  <2> SUFFICES ASSUME NEW k \in Pairs, k \notin torn', number[k] # None, owner[k] # None,
                      <<owner[k], number[k]>> \notin asked
               PROVE  \E q \in InPair(k)' : pc'[q] = "putOwner"
    BY DEF WholeInv, Grows
  <2>1. PICK q \in InPair(k) : pc[q] = "putOwner"
    BY DEF PairInv, WholeInv, Grows
  <2>2. q \in Requests /\ q # r
    BY <2>1 DEF InPair
  <2> QED
    BY <1>1, <1>2, <2>1, <2>2
<1> QED
  BY <1>3, <1>4, <1>5, <1>6 DEF PairInv

\* A step that leaves accounts, sessions and pairs alone has to justify only the new
\* place of its own request.
LEMMA StepKept ==
  ASSUME IInv, TypeOK', Grows, UNCHANGED <<users, session, linked, number, owner>>,
         NEW r \in Requests, Moves(r), ReqOk(r)', FieldsOk(r)', tokens' \subseteq proved',
         pc'[r] \notin {"putOwner", "owner"}, pc[r] = "putOwner" => Pair(r) \in torn'
  PROVE  IInv'
<1>1. ReqInv'
  <2> SUFFICES ASSUME NEW q \in Requests, q # r PROVE ReqOk(q)'
    BY DEF ReqInv
  <2> QED
    BY ReqKept DEF IInv, Moves
<1>2. FieldsInv'
  BY FieldsKept DEF IInv, Grows
<1>3. PairInv'
  BY PairKept DEF IInv
<1>4. LinksInv'
  BY LinksKept DEF IInv
<1> QED
  BY <1>1, <1>2, <1>3, <1>4 DEF IInv, TokensInv

\* What Goto and Finish do to the places of the requests.
LEMMA Places ==
  ASSUME TypeOK, NEW r \in Requests
  PROVE  /\ \A there \in PCs : Goto(r, there) =>
              /\ pc' \in [Requests -> PCs] /\ pc'[r] = there
              /\ req' \in [Requests -> Request] /\ req' = req /\ Moves(r)
         /\ Finish(r) =>
              /\ pc' \in [Requests -> PCs] /\ pc'[r] = "idle"
              /\ req' \in [Requests -> Request] /\ Moves(r)
<1>1. NoReq \in Request
  BY DEF NoReq, Request, NoField, Field
<1>2. pc \in [Requests -> PCs] /\ req \in [Requests -> Request]
  BY DEF TypeOK, Request
<1>3. ASSUME NEW there \in PCs, Goto(r, there)
      PROVE  /\ pc' \in [Requests -> PCs] /\ pc'[r] = there
             /\ req' \in [Requests -> Request] /\ req' = req /\ Moves(r)
  BY <1>2, <1>3 DEF Goto, Moves
<1>4. ASSUME Finish(r)
      PROVE  /\ pc' \in [Requests -> PCs] /\ pc'[r] = "idle"
             /\ req' \in [Requests -> Request] /\ Moves(r)
  <2>1. pc' = [pc EXCEPT ![r] = "idle"] /\ req' = [req EXCEPT ![r] = NoReq] /\ "idle" \in PCs
    BY <1>4 DEF Finish, PCs
  <2> QED
    BY <1>1, <1>2, <2>1 DEF Moves
<1> QED
  BY <1>3, <1>4

\* A request that is over owes nothing.
LEMMA IdleOk ==
  ASSUME NEW r \in Requests, pc'[r] = "idle"
  PROVE  ReqOk(r)' /\ FieldsOk(r)'
BY DEF ReqOk, SetOk, PathOk, VerifyOk, OwnedOk, FieldsOk, SetPCs, OwnedPCs, VerifyPCs

\* A request that goes on with the same data.
LEMMA SameData ==
  ASSUME req' = req, NEW r \in Requests
  PROVE  Doc(r)' = Doc(r) /\ Kind(r)' = Kind(r) /\ Pair(r)' = Pair(r) /\ TokenOf(r)' = TokenOf(r)
BY DEF Doc, Kind, Pair, TokenOf

-------------------------------------------------------------------------------
LEMMA StartSetKept ==
  ASSUME ConstantsAssumption, IInv, NEW r \in Requests, NEW u \in Users, NEW d \in Docs,
         StartSet(r, u, d)
  PROVE  IInv'
<1> DEFINE new == [NoReq EXCEPT !.user = u, !.doc = d, !.names = users[u].names,
                                !.dob = users[u].dob]
<1>1. /\ pc' = [pc EXCEPT ![r] = "count"] /\ req' = [req EXCEPT ![r] = new]
      /\ asked' = asked \cup {<<u, d>>} /\ pc[r] = "idle"
      /\ UNCHANGED <<users, cache, tokens, session, linked, proved, torn, crossed>>
  BY DEF StartSet
<1>2. TypeOK /\ users[u] \in Account
  BY DEF IInv, TypeOK
<1>3. new \in Request /\ new.user = u /\ new.doc = d
  BY <1>2 DEF NoReq, Request, NoField, Field, Account
<1> HIDE DEF new
<1>4. TypeOK'
  BY <1>1, <1>2, <1>3 DEF TypeOK, Request, PCs, cache
<1>5. Moves(r) /\ Grows /\ pc'[r] = "count" /\ req'[r] = new
  BY <1>1, <1>2 DEF Moves, Grows, TypeOK
<1>6. ReqOk(r)'
  BY <1>1, <1>3, <1>5 DEF ReqOk, SetOk, PathOk, VerifyOk, OwnedOk, SetPCs, OwnedPCs, VerifyPCs, Doc
<1>7. FieldsOk(r)'
  BY <1>5 DEF FieldsOk
<1> QED
  BY <1>1, <1>4, <1>5, <1>6, <1>7, StepKept DEF cache, IInv, TokensInv

LEMMA CountLinkedKept ==
  ASSUME IInv, NEW r \in Requests, CountLinked(r)
  PROVE  IInv'
<1>1. /\ pc[r] = "count" /\ Goto(r, "fetch") /\ "fetch" \in PCs /\ TypeOK
      /\ UNCHANGED <<users, cache, tokens, session, ghosts>>
  BY DEF CountLinked, IInv, PCs
<1>2. /\ pc' \in [Requests -> PCs] /\ pc'[r] = "fetch"
      /\ req' \in [Requests -> Request] /\ req' = req /\ Moves(r)
  BY <1>1, Places
<1>3. TypeOK' /\ Grows
  BY <1>1, <1>2 DEF TypeOK, Request, cache, ghosts, Grows
<1>4. ReqOk(r)' /\ FieldsOk(r)'
  BY <1>1, <1>2, SameData DEF IInv, ReqInv, ReqOk, SetOk, PathOk, VerifyOk, OwnedOk, SetPCs,
     OwnedPCs, VerifyPCs, FieldsOk, ghosts
<1> QED
  BY <1>1, <1>2, <1>3, <1>4, StepKept DEF cache, ghosts, IInv, TokensInv

LEMMA FetchKept ==
  ASSUME ConstantsAssumption, IInv, NEW r \in Requests, Fetch(r)
  PROVE  IInv'
<1>1. /\ pc[r] = "fetch" /\ TypeOK /\ (cached' = cached \cup {Doc(r)} \/ cached' = cached)
      /\ {"compare", "read", "putNumber"} \subseteq PCs
      /\ UNCHANGED <<users, number, owner, ref, intent, tokens, session, ghosts>>
  BY WrittenIs DEF Fetch, IInv, PCs
<1>2. Doc(r) \in Docs /\ req[r].user \in Users /\ <<req[r].user, Doc(r)>> \in asked
  BY <1>1 DEF IInv, ReqInv, ReqOk, SetOk, SetPCs
<1>3. \/ Kind(r) = "driverID" /\ Goto(r, "compare")
      \/ SessionPhone[req[r].user] = PhoneOf[Doc(r)] /\ Goto(r, "read")
      \/ Kind(r) # "driverID" /\ Goto(r, "putNumber")
      \/ Finish(r)
  BY DEF Fetch
<1>4. Kind(r) \in Kinds
  BY <1>2 DEF Kind, ConstantsAssumption
<1>5. /\ pc' \in [Requests -> PCs] /\ req' \in [Requests -> Request] /\ Moves(r)
      /\ pc'[r] \in {"compare", "read", "putNumber", "idle"}
  BY <1>1, <1>3, Places
<1>6. TypeOK' /\ Grows
  BY <1>1, <1>2, <1>5 DEF TypeOK, Request, ghosts, Grows
<1>7. ReqOk(r)' /\ FieldsOk(r)'
  <2>1. CASE Finish(r)
    BY <1>1, <2>1, Places, IdleOk
  <2>2. CASE ~Finish(r)
    <3>1. req' = req
      BY <1>1, <1>3, <2>2, Places
    <3>2. SetOk(r)'
      BY <1>1, <1>2, <3>1, SameData DEF SetOk, ghosts
    <3>3. PathOk(r)'
      BY <1>1, <1>3, <1>4, <2>2, <3>1, Places, SameData DEF PathOk, Kinds
    <3>4. VerifyOk(r)' /\ OwnedOk(r)' /\ FieldsOk(r)'
      BY <1>1, <1>3, <2>2, Places DEF VerifyOk, OwnedOk, FieldsOk, OwnedPCs, VerifyPCs
    <3> QED
      BY <3>2, <3>3, <3>4 DEF ReqOk
  <2> QED
    BY <2>1, <2>2
<1> QED
  BY <1>1, <1>5, <1>6, <1>7, StepKept DEF ghosts, IInv, TokensInv

LEMMA CompareFacesKept ==
  ASSUME IInv, NEW r \in Requests, CompareFaces(r)
  PROVE  IInv'
<1>1. /\ pc[r] = "compare" /\ TypeOK /\ pc' = [pc EXCEPT ![r] = "read"]
      /\ UNCHANGED <<users, cache, tokens, session, ghosts>>
  BY DEF CompareFaces, IInv
<1>2. PICK ok \in BOOLEAN : req' = [req EXCEPT ![r].ok = ok]
  <2>1. NamesMatch(req[r].names, req[r].dob, Doc(r)) \in BOOLEAN
    BY DEF NamesMatch
  <2> QED
    BY <2>1 DEF CompareFaces
<1>3. req \in [Requests -> Request] /\ pc \in [Requests -> PCs]
  BY <1>1 DEF TypeOK, Request
<1>4. /\ req' \in [Requests -> Request] /\ pc' \in [Requests -> PCs] /\ Moves(r)
      /\ pc'[r] = "read" /\ req'[r].user = req[r].user /\ req'[r].doc = req[r].doc
  BY <1>1, <1>2, <1>3 DEF Request, PCs, Moves
<1>5. TypeOK' /\ Grows
  BY <1>1, <1>4 DEF TypeOK, Request, cache, ghosts, Grows
<1>6. ReqOk(r)' /\ FieldsOk(r)'
  <2>1. Doc(r)' = Doc(r) /\ Kind(r)' = Kind(r)
    BY <1>4 DEF Doc, Kind
  <2>2. ReqOk(r)
    BY DEF IInv, ReqInv
  <2> QED
    BY <1>1, <1>4, <2>1, <2>2 DEF ReqOk, SetOk, PathOk, VerifyOk, OwnedOk, SetPCs,
       OwnedPCs, VerifyPCs, FieldsOk, ghosts
<1> QED
  BY <1>1, <1>4, <1>5, <1>6, StepKept DEF cache, ghosts, IInv, TokensInv

LEMMA ReadUserKept ==
  ASSUME IInv, NEW r \in Requests,
         ReadUser(r, "read", "link") \/ ReadUser(r, "readByCode", "linkByCode")
  PROVE  IInv'
<1> DEFINE u == req[r].user
<1>0. PICK here, there :
        /\ ReadUser(r, here, there)
        /\ (here = "read" /\ there = "link") \/ (here = "readByCode" /\ there = "linkByCode")
  <2>1. CASE ReadUser(r, "read", "link")
    BY <2>1
  <2>2. CASE ReadUser(r, "readByCode", "linkByCode")
    BY <2>2
  <2> QED
    BY <2>1, <2>2
<1>1. /\ pc[r] = here /\ TypeOK /\ pc' = [pc EXCEPT ![r] = there]
      /\ req' = [req EXCEPT ![r].names = users[u].names, ![r].dob = users[u].dob]
      /\ UNCHANGED <<users, cache, tokens, session, ghosts>>
  BY <1>0 DEF ReadUser, IInv
<1>2. u \in Users /\ users[u] \in Account
  BY <1>0, <1>1 DEF IInv, TypeOK, ReqInv, ReqOk, SetOk, OwnedOk, SetPCs, OwnedPCs
<1>3. req \in [Requests -> Request] /\ pc \in [Requests -> PCs]
  BY <1>1 DEF TypeOK, Request
<1>4. users[u].names \in Field /\ users[u].dob \in Field
  BY <1>2 DEF Account
<1>5. req' = [req EXCEPT ![r] = [@ EXCEPT !.names = users[u].names, !.dob = users[u].dob]]
  BY <1>1, <1>3 DEF Request
<1>6. /\ req' \in [Requests -> Request] /\ pc' \in [Requests -> PCs] /\ Moves(r) /\ pc'[r] = there
      /\ req'[r].user = u /\ req'[r].doc = req[r].doc /\ req'[r].client = req[r].client
      /\ req'[r].names = users[u].names /\ req'[r].dob = users[u].dob
  <2>1. req[r] \in Request
    BY <1>3
  <2>2. [req[r] EXCEPT !.names = users[u].names, !.dob = users[u].dob] \in Request
    BY <1>4, <2>1 DEF Request
  <2> QED
    BY <1>0, <1>1, <1>3, <1>5, <2>1, <2>2 DEF Request, PCs, Moves
<1>7. TypeOK' /\ Grows
  BY <1>1, <1>6 DEF TypeOK, Request, cache, ghosts, Grows
<1>8. ReqOk(r)'
  <2>1. Doc(r)' = Doc(r) /\ Kind(r)' = Kind(r) /\ Pair(r)' = Pair(r) /\ TokenOf(r)' = TokenOf(r)
    BY <1>6 DEF Doc, Kind, Pair, TokenOf
  <2>2. ReqOk(r)
    BY DEF IInv, ReqInv
  <2> QED
    BY <1>0, <1>1, <1>6, <2>1, <2>2 DEF ReqOk, SetOk, PathOk, VerifyOk, OwnedOk, SetPCs,
       OwnedPCs, VerifyPCs, ghosts
<1>9. FieldsOk(r)'
  BY <1>1, <1>6 DEF FieldsOk
<1> QED
  BY <1>0, <1>1, <1>6, <1>7, <1>8, <1>9, StepKept DEF cache, ghosts, IInv, TokensInv

-------------------------------------------------------------------------------
Updated(a, kind, s, n, b) == [a EXCEPT ![kind] = s, !.names = n, !.dob = b]

\* An account after the update of one number and the fields.
LEMMA AccountUpdated ==
  ASSUME NEW a \in Account, NEW kind \in Kinds, NEW s \in Stored, NEW n \in Field, NEW b \in Field
  PROVE  /\ Updated(a, kind, s, n, b) \in Account
         /\ Updated(a, kind, s, n, b).names = n
         /\ Updated(a, kind, s, n, b).dob = b
<1>1. CASE kind = "nin"
  BY <1>1 DEF Account, Updated
<1>2. CASE kind = "bvn"
  BY <1>2 DEF Account, Updated
<1>3. CASE kind = "voterID"
  BY <1>3 DEF Account, Updated
<1>4. CASE kind = "driverID"
  BY <1>4 DEF Account, Updated
<1> QED
  BY <1>1, <1>2, <1>3, <1>4 DEF Kinds, CodeKinds

\* The update of an account: it stays an account; no other account changes; a field
\* that was verified when it was read has the value it had at the write.
LEMMA LinkUpdates ==
  ASSUME TypeOK, NEW r \in Requests, Doc(r) \in Docs, Kind(r) \in Kinds, req[r].user \in Users,
         NEW form \in {"bytes", "text"}, NEW birth \in Docs \cup {"1990-01-01"},
         NEW ok \in BOOLEAN, NEW how, Link(r, form, birth, ok, how)
  PROVE  LET u == req[r].user IN
         /\ users' \in [Users -> Account]
         /\ \A w \in Users \ {u} : users'[w] = users[w]
         /\ req[r].names.verified => users'[u].names = users[u].names
         /\ req[r].dob.verified => users'[u].dob = users[u].dob
<1> DEFINE u == req[r].user
           s == [doc |-> Doc(r), form |-> form]
           n == Filled(req[r].names, users[u].names, Doc(r), ok)
           b == IF Kind(r) = "voterID" THEN users[u].dob ELSE Filled(req[r].dob, users[u].dob, birth, ok)
           new == Updated(users[u], Kind(r), s, n, b)
<1>1. users \in [Users -> Account] /\ users[u] \in Account /\ req[r] \in Request
  BY DEF TypeOK, Request
<1>2. s \in Stored
  BY DEF Stored
<1>3. n \in Field /\ b \in Field
  <2>1. users[u].names \in Field /\ users[u].dob \in Field
    BY <1>1 DEF Account, Updated
  <2>2. [of |-> Doc(r), verified |-> ok] \in Field /\ [of |-> birth, verified |-> ok] \in Field
    BY DEF Field
  <2> QED
    BY <2>1, <2>2 DEF Filled
<1>4. new \in Account /\ new.names = n /\ new.dob = b
  <2> HIDE DEF s, n, b
  <2> QED
    BY <1>1, <1>2, <1>3, AccountUpdated
<1>5. users' = [users EXCEPT ![u] = new] \/ users' = users
  <2> DEFINE w == [users EXCEPT ![u][Kind(r)] = s, ![u].names = n, ![u].dob = b]
  <2>1. users' = w \/ users' = users
    <3>1. users' \in Written(w, users)
      BY DEF Link
    <3> HIDE DEF w
    <3> QED
      BY <3>1, WrittenIs
  <2>2. w = [users EXCEPT ![u] = [users[u] EXCEPT ![Kind(r)] = s, !.names = n, !.dob = b]]
    <3> HIDE DEF s, n, b
    <3> QED
      BY <1>1
  <2> HIDE DEF s, n, b, w
  <2> QED
    BY <2>1, <2>2 DEF Updated
<1>6. /\ req[r].names.verified => n = users[u].names
      /\ req[r].dob.verified => b = users[u].dob
  BY DEF Filled
<1> QED
  BY <1>1, <1>4, <1>5, <1>6

\* An update of an account: the requests that hold its fields are told apart by
\* crossed; the pairs stand; the fields were verified and stay, or the user crossed.
LEMMA LinkKept ==
  ASSUME IInv, TypeOK', NEW r \in Requests, Doc(r) \in Docs, Kind(r) \in Kinds,
         req[r].user \in Users, pc[r] \in {"link", "linkByCode"}, pc'[r] \in {"idle", "forget"},
         NEW form \in {"bytes", "text"}, NEW birth \in Docs \cup {"1990-01-01"},
         NEW ok \in BOOLEAN, NEW how, Link(r, form, birth, ok, how), Moves(r), ReqOk(r)',
         UNCHANGED <<number, owner, tokens, session, asked, proved, torn>>
  PROVE  /\ Grows /\ ReqInv' /\ FieldsInv' /\ TokensInv' /\ PairInv'
         /\ \A w \in Users : \A f \in {"names", "dob"} :
              users[w][f].verified => users'[w][f] = users[w][f] \/ w \in crossed'
<1> DEFINE u == req[r].user
<1>1. linked' = linked \cup {[user |-> u, doc |-> Doc(r), how |-> how]}
  BY DEF Link
<1>2. /\ crossed \subseteq crossed'
      /\ \A q \in Requests \ {r} :
           pc[q] \in {"link", "linkByCode"} /\ req[q].user = u => u \in crossed'
  BY DEF Link
<1>3. Grows
  BY <1>1, <1>2 DEF Grows
<1>4. ReqInv'
  <2> SUFFICES ASSUME NEW q \in Requests, q # r PROVE ReqOk(q)'
    BY DEF ReqInv
  <2> QED
    BY <1>3, ReqKept DEF IInv, Moves
<1>5. /\ \A w \in Users \ {u} : users'[w] = users[w]
      /\ req[r].names.verified => users'[u].names = users[u].names
      /\ req[r].dob.verified => users'[u].dob = users[u].dob
  BY LinkUpdates DEF IInv
<1>6. FieldsInv'
  <2> SUFFICES ASSUME NEW q \in Requests \ {r}, pc[q] \in {"link", "linkByCode"}
               PROVE  FieldsOk(q)'
    BY DEF FieldsInv, FieldsOk, Moves
  <2>1. FieldsOk(q) /\ pc'[q] = pc[q] /\ req'[q] = req[q] /\ req[q].user \in Users
    BY DEF IInv, FieldsInv, Moves, ReqInv, ReqOk, SetOk, OwnedOk, SetPCs, OwnedPCs
  <2>2. CASE req[q].user = u
    BY <1>2, <2>1, <2>2 DEF FieldsOk
  <2>3. CASE req[q].user # u
    BY <1>2, <1>5, <2>1, <2>3 DEF FieldsOk
  <2> QED
    BY <2>2, <2>3
<1>7. PairInv'
  BY <1>3, PairKept DEF IInv
<1>8. ASSUME NEW w \in Users, w \notin crossed'
      PROVE  /\ users[w].names.verified => users'[w].names = users[w].names
             /\ users[w].dob.verified => users'[w].dob = users[w].dob
  <2>1. CASE w = u
    BY <1>2, <1>5, <1>8, <2>1 DEF IInv, FieldsInv, FieldsOk
  <2>2. CASE w # u
    BY <1>5, <2>2
  <2> QED
    BY <2>1, <2>2
<1> QED
  BY <1>3, <1>4, <1>6, <1>7, <1>8 DEF IInv, TokensInv

\* What a link that was made rests on.
LinkIsJustified(l) ==
  /\ <<l.user, l.doc>> \in asked \/ <<KindOf[l.doc], PhoneOf[l.doc]>> \in torn
  /\ \/ l.how = "phone" /\ SessionPhone[l.user] = PhoneOf[l.doc]
     \/ l.how = "code" /\ \E t \in proved : t.phone = PhoneOf[l.doc] /\ t.kind = KindOf[l.doc]
     \/ l.how = "licence" /\ KindOf[l.doc] = "driverID"

LEMMA LinksAdded ==
  ASSUME LinksInv, NEW l, LinkIsJustified(l), linked' = linked \cup {l},
         UNCHANGED <<session, asked, proved, torn>>
  PROVE  LinksInv'
<1>1. LinksAreProved' /\ LinkedAsAsked'
  BY DEF LinksInv, LinksAreProved, LinkedAsAsked, LinkIsJustified
<1>2. SessionFollowsCode'
  BY DEF LinksInv, SessionFollowsCode
<1> QED
  BY <1>1, <1>2 DEF LinksInv

FieldsStay ==
  \A u \in Users : \A f \in {"names", "dob"} :
    users[u][f].verified => users'[u][f] = users[u][f] \/ u \in crossed'

LEMMA LinkNowKept ==
  ASSUME ConstantsAssumption, IInv, NEW r \in Requests, LinkNow(r)
  PROVE  IInv' /\ FieldsStay
<1>1. /\ pc[r] = "link" /\ Finish(r) /\ TypeOK
      /\ UNCHANGED <<cache, tokens, session, asked, proved, torn>>
  BY DEF LinkNow, IInv
<1>2. Doc(r) \in Docs /\ req[r].user \in Users /\ <<req[r].user, Doc(r)>> \in asked
  BY <1>1 DEF IInv, ReqInv, ReqOk, SetOk, SetPCs
<1>3. Kind(r) = "driverID" \/ SessionPhone[req[r].user] = PhoneOf[Doc(r)]
  BY <1>1 DEF IInv, ReqInv, ReqOk, PathOk
<1>4. PICK form \in {"bytes", "text"}, ok \in BOOLEAN, how \in {"licence", "phone"} :
        /\ Link(r, form, Doc(r), ok, how)
        /\ how = "licence" <=> Kind(r) = "driverID"
  <2>1. req[r].ok \in BOOLEAN
    BY <1>1 DEF TypeOK
  <2>2. CASE Kind(r) = "driverID"
    <3>1. Link(r, "text", Doc(r), req[r].ok, "licence")
      BY <2>2 DEF LinkNow
    <3> QED
      BY <2>1, <2>2, <3>1
  <2>3. CASE Kind(r) # "driverID"
    <3>1. Link(r, IF Kind(r) = "nin" THEN "bytes" ELSE "text", Doc(r), TRUE, "phone")
      BY <2>3 DEF LinkNow
    <3> QED
      BY <2>3, <3>1
  <2> QED
    BY <2>2, <2>3
<1>5. Kind(r) \in Kinds
  BY <1>2 DEF Kind, ConstantsAssumption
<1>6. /\ pc' \in [Requests -> PCs] /\ pc'[r] = "idle"
      /\ req' \in [Requests -> Request] /\ Moves(r) /\ ReqOk(r)'
  BY <1>1, Places, IdleOk
<1> DEFINE l == [user |-> req[r].user, doc |-> Doc(r), how |-> how]
<1>7. /\ linked' = linked \cup {l} /\ l \in Links
      /\ crossed' \in {crossed, crossed \cup {req[r].user}}
  BY <1>2, <1>4 DEF Link, Links
<1>8. users' \in [Users -> Account]
  BY <1>1, <1>2, <1>4, <1>5, LinkUpdates
<1>9. TypeOK'
  BY <1>1, <1>2, <1>6, <1>7, <1>8 DEF TypeOK, Request, cache
<1>10. LinkIsJustified(l)
  BY <1>2, <1>3, <1>4 DEF LinkIsJustified, Kind
<1>11. LinksInv'
  <2> HIDE DEF l
  <2> QED
    BY <1>1, <1>7, <1>10, LinksAdded DEF IInv
<1>12. ReqInv' /\ FieldsInv' /\ TokensInv' /\ PairInv' /\ FieldsStay
  <2> HIDE DEF l
  <2> QED
    BY <1>1, <1>2, <1>4, <1>5, <1>6, <1>9, LinkKept DEF cache, FieldsStay
<1> QED
  BY <1>9, <1>11, <1>12 DEF IInv

LEMMA LinkByCodeKept ==
  ASSUME ConstantsAssumption, IInv, NEW r \in Requests, LinkByCode(r)
  PROVE  IInv' /\ FieldsStay
<1> DEFINE birth == IF Kind(r) = "nin" THEN "1990-01-01" ELSE Doc(r)
<1>1. /\ pc[r] = "linkByCode" /\ Goto(r, "forget") /\ TypeOK /\ "forget" \in PCs
      /\ Link(r, "text", birth, TRUE, "code")
      /\ UNCHANGED <<cache, tokens, session, asked, proved, torn>>
  BY DEF LinkByCode, IInv, PCs
<1>2. /\ Doc(r) \in Docs /\ req[r].user \in Users
      /\ <<req[r].user, Doc(r)>> \in asked \/ Pair(r) \in torn
      /\ Kind(r) \in CodeKinds /\ req[r].client \in Users /\ TokenOf(r) \in proved
  BY <1>1 DEF IInv, ReqInv, ReqOk, VerifyOk, OwnedOk, VerifyPCs, OwnedPCs
<1>3. Kind(r) \in Kinds /\ birth \in Docs \cup {"1990-01-01"}
  BY <1>2 DEF Kinds
<1> HIDE DEF birth
<1> DEFINE l == [user |-> req[r].user, doc |-> Doc(r), how |-> "code"]
<1>4. /\ linked' = linked \cup {l} /\ l \in Links
      /\ crossed' \in {crossed, crossed \cup {req[r].user}}
  BY <1>1, <1>2 DEF Link, Links
<1>5. /\ pc' \in [Requests -> PCs] /\ pc'[r] = "forget"
      /\ req' \in [Requests -> Request] /\ req' = req /\ Moves(r)
  BY <1>1, Places
<1>6. ReqOk(r)'
  <2>1. Doc(r)' = Doc(r) /\ Kind(r)' = Kind(r) /\ Pair(r)' = Pair(r) /\ TokenOf(r)' = TokenOf(r)
    BY <1>5, SameData
  <2>2. VerifyOk(r)' /\ SetOk(r)' /\ PathOk(r)'
    BY <1>1, <1>2, <1>5, <2>1 DEF VerifyOk, SetOk, PathOk, SetPCs
  <2>3. OwnedOk(r)'
    BY <1>1, <1>2, <1>4, <1>5, <2>1 DEF OwnedOk
  <2> QED
    BY <2>2, <2>3 DEF ReqOk
<1>7. users' \in [Users -> Account]
  BY <1>1, <1>2, <1>3, LinkUpdates
<1>8. TypeOK'
  BY <1>1, <1>2, <1>4, <1>5, <1>7 DEF TypeOK, Request, cache
<1>9. LinkIsJustified(l)
  <2>1. /\ l.how = "code"
        /\ <<l.user, l.doc>> \in asked \/ <<KindOf[l.doc], PhoneOf[l.doc]>> \in torn
    BY <1>2 DEF Kind, Pair
  <2>2. TokenOf(r).phone = PhoneOf[l.doc] /\ TokenOf(r).kind = KindOf[l.doc]
    BY DEF TokenOf, Kind
  <2> QED
    BY <1>2, <2>1, <2>2 DEF LinkIsJustified
<1> HIDE DEF l
<1>10. LinksInv'
  BY <1>1, <1>4, <1>9, LinksAdded DEF IInv
<1>11. ReqInv' /\ FieldsInv' /\ TokensInv' /\ PairInv' /\ FieldsStay
  BY <1>1, <1>2, <1>3, <1>5, <1>6, <1>8, LinkKept DEF cache, FieldsStay
<1> QED
  BY <1>8, <1>10, <1>11 DEF IInv

-------------------------------------------------------------------------------
\* The pair of a document that has one.
LEMMA PairOfDoc ==
  ASSUME ConstantsAssumption, NEW r \in Requests, Doc(r) \in Docs, Kind(r) \in CodeKinds
  PROVE  Pair(r) \in Pairs /\ PhoneOf[Doc(r)] \in Phones
BY DEF ConstantsAssumption, Pair, Kind, Pairs

\* A request that enters a pair alone leaves it whole; otherwise the pair is torn.
LEMMA PairEntered ==
  ASSUME PairInv, Grows, NEW r \in Requests, Moves(r), NEW k \in Pairs,
         pc[r] \notin {"putOwner", "owner"}, pc'[r] \in {"putOwner", "owner"},
         Pair(r)' = k, TornBy(k), number'[k] = Doc(r)', Doc(r)' # None,
         UNCHANGED owner, <<KindOf[number'[k]], PhoneOf[number'[k]]>> = k,
         \A j \in Pairs \ {k} : number'[j] = number[j],
         pc'[r] = "putOwner" \/ number'[k] = number[k]
  PROVE  PairInv'
<1>1. ASSUME NEW j \in Pairs, j # k
      PROVE  InPair(j)' = InPair(j)
  BY <1>1 DEF InPair, Pair, Kind, Doc, Moves
<1>2. InPair(k)' = InPair(k) \cup {r}
  BY DEF InPair, Pair, Kind, Doc, Moves
<1>3. k \notin torn' => InPair(k)' = {r}
  BY <1>2 DEF TornBy
<1>4. ASSUME NEW q \in Requests \ {r}
      PROVE  Doc(q)' = Doc(q) /\ pc'[q] = pc[q]
  BY <1>4 DEF Doc, Moves
<1>5. \A j \in Pairs : r \notin InPair(j)
  BY DEF InPair
<1>6. NumberInv'
  BY DEF PairInv, NumberInv
<1>7. AloneInv'
  BY <1>1, <1>3 DEF PairInv, AloneInv, Grows
<1>8. HalfInv'
  <2> SUFFICES ASSUME NEW j \in Pairs, j \notin torn', NEW q \in InPair(j)'
               PROVE  Doc(q)' = number'[j]
    BY DEF HalfInv
  <2>1. CASE j = k
    BY <1>3, <2>1
  <2>2. CASE j # k
    BY <1>1, <1>4, <1>5, <2>2 DEF PairInv, HalfInv, Grows, InPair
  <2> QED
    BY <2>1, <2>2
<1>9. WholeInv'
  <2> SUFFICES ASSUME NEW j \in Pairs, j \notin torn', number'[j] # None, owner[j] # None,
                      <<owner[j], number'[j]>> \notin asked
               PROVE  \E q \in InPair(j)' : pc'[q] = "putOwner"
    BY DEF WholeInv, Grows
  <2>1. CASE j = k /\ pc'[r] = "putOwner"
    BY <1>2, <2>1
  <2>2. CASE j # k \/ pc'[r] # "putOwner"
    <3>1. number'[j] = number[j] /\ j \notin torn
      BY <2>2 DEF Grows
    <3>2. PICK q \in InPair(j) : pc[q] = "putOwner"
      BY <3>1 DEF PairInv, WholeInv
    <3>3. q \in Requests \ {r}
      BY <3>2 DEF InPair
    <3> QED
      BY <1>1, <1>2, <1>4, <3>2, <3>3
  <2> QED
    BY <2>1, <2>2
<1> QED
  BY <1>6, <1>7, <1>8, <1>9 DEF PairInv

LEMMA PutNumberKept ==
  ASSUME ConstantsAssumption, IInv, NEW r \in Requests, PutNumber(r)
  PROVE  IInv'
<1> DEFINE k == Pair(r)
<1>1. /\ pc[r] = "putNumber" /\ Goto(r, "putOwner") /\ TypeOK /\ "putOwner" \in PCs
      /\ \/ number' = [number EXCEPT ![k] = Doc(r)] /\ TornBy(k)
         \/ UNCHANGED number /\ torn' = torn \cup {k}
      /\ UNCHANGED <<users, cached, owner, ref, intent, tokens, session, linked, asked, proved, crossed>>
  BY DEF PutNumber, IInv, PCs
<1>2. /\ Doc(r) \in Docs /\ req[r].user \in Users /\ <<req[r].user, Doc(r)>> \in asked
      /\ Kind(r) \in CodeKinds
  BY <1>1 DEF IInv, ReqInv, ReqOk, SetOk, PathOk, SetPCs
<1>3. k \in Pairs /\ number \in [Pairs -> Docs \cup {None}]
  BY <1>1, <1>2, PairOfDoc DEF TypeOK
<1>4. /\ pc' \in [Requests -> PCs] /\ pc'[r] = "putOwner"
      /\ req' \in [Requests -> Request] /\ req' = req /\ Moves(r)
  BY <1>1, Places
<1>5. torn' \in {torn, torn \cup {k}}
  BY <1>1 DEF TornBy
<1>6. TypeOK' /\ Grows
  BY <1>1, <1>2, <1>3, <1>4, <1>5 DEF TypeOK, Request, Grows
<1>7. Doc(r)' = Doc(r) /\ Kind(r)' = Kind(r) /\ Pair(r)' = k
  BY <1>4, SameData
<1>8. ReqOk(r)' /\ FieldsOk(r)'
  BY <1>1, <1>2, <1>4, <1>7 DEF ReqOk, SetOk, PathOk, VerifyOk, OwnedOk, FieldsOk, SetPCs,
     OwnedPCs, VerifyPCs
<1>9. PairInv'
  <2>1. CASE UNCHANGED number /\ torn' = torn \cup {k}
    BY <1>1, <1>4, <1>6, <1>7, <2>1, PairKept DEF IInv
  <2>2. CASE number' = [number EXCEPT ![k] = Doc(r)] /\ TornBy(k)
    <3>1. number'[k] = Doc(r)' /\ \A j \in Pairs \ {k} : number'[j] = number[j]
      BY <1>3, <1>7, <2>2
    <3>2. <<KindOf[number'[k]], PhoneOf[number'[k]]>> = k
      BY <1>7, <3>1 DEF Pair, Kind
    <3>3. Doc(r)' # None
      BY <1>2, <1>7 DEF ConstantsAssumption
    <3> HIDE DEF k
    <3> QED
      BY <1>1, <1>3, <1>4, <1>6, <1>7, <2>2, <3>1, <3>2, <3>3, PairEntered DEF IInv
  <2> QED
    BY <1>1, <2>1, <2>2
<1>10. ReqInv'
  <2> SUFFICES ASSUME NEW q \in Requests, q # r PROVE ReqOk(q)'
    BY <1>8 DEF ReqInv
  <2> QED
    BY <1>4, <1>6, ReqKept DEF IInv, Moves
<1>11. FieldsInv'
  BY <1>1, <1>4, <1>8, FieldsKept DEF IInv
<1>12. LinksInv'
  BY <1>1, <1>6, LinksKept DEF IInv
<1> QED
  BY <1>1, <1>6, <1>9, <1>10, <1>11, <1>12 DEF IInv, TokensInv

LEMMA PutOwnerKept ==
  ASSUME ConstantsAssumption, IInv, NEW r \in Requests, PutOwner(r)
  PROVE  IInv'
<1> DEFINE k == Pair(r)
<1>1. /\ pc[r] = "putOwner" /\ Goto(r, "sms") /\ TypeOK /\ "sms" \in PCs
      /\ \/ owner' = [owner EXCEPT ![k] = req[r].user] /\ UNCHANGED torn
         \/ UNCHANGED owner /\ torn' = torn \cup {k}
      /\ UNCHANGED <<users, cached, number, ref, intent, tokens, session, linked, asked, proved, crossed>>
  BY DEF PutOwner, IInv, PCs
<1>2. /\ Doc(r) \in Docs /\ req[r].user \in Users /\ <<req[r].user, Doc(r)>> \in asked
      /\ Kind(r) \in CodeKinds
  BY <1>1 DEF IInv, ReqInv, ReqOk, SetOk, PathOk, SetPCs
<1>3. k \in Pairs /\ owner \in [Pairs -> Users \cup {None}]
  BY <1>1, <1>2, PairOfDoc DEF TypeOK
<1>4. /\ pc' \in [Requests -> PCs] /\ pc'[r] = "sms"
      /\ req' \in [Requests -> Request] /\ req' = req /\ Moves(r)
  BY <1>1, Places
<1>5. TypeOK' /\ Grows
  BY <1>1, <1>2, <1>3, <1>4 DEF TypeOK, Request, Grows
<1>6. Doc(r)' = Doc(r) /\ Kind(r)' = Kind(r) /\ Pair(r)' = k
  BY <1>4, SameData
<1>7. ReqOk(r)' /\ FieldsOk(r)'
  BY <1>1, <1>2, <1>4, <1>6 DEF ReqOk, SetOk, PathOk, VerifyOk, OwnedOk, FieldsOk, SetPCs,
     OwnedPCs, VerifyPCs
<1>8. PairInv'
  <2>1. CASE UNCHANGED owner /\ torn' = torn \cup {k}
    BY <1>1, <1>4, <1>5, <2>1, PairKept DEF IInv
  <2>2. CASE owner' = [owner EXCEPT ![k] = req[r].user] /\ UNCHANGED torn
    <3>1. ASSUME NEW j \in Pairs
          PROVE  InPair(j)' = InPair(j) \ {r}
      BY <1>4, <3>1 DEF InPair, Pair, Kind, Doc, Moves
    <3>2. ASSUME NEW q \in Requests \ {r}
          PROVE  Doc(q)' = Doc(q) /\ pc'[q] = pc[q]
      BY <1>4, <3>2 DEF Doc, Moves
    <3>3. r \in InPair(k)
      BY <1>1, <2>2 DEF InPair
    <3>4. NumberInv' /\ AloneInv'
      BY <1>1, <2>2, <3>1 DEF IInv, PairInv, NumberInv, AloneInv
    <3>5. HalfInv'
      BY <1>1, <2>2, <3>1, <3>2 DEF IInv, PairInv, HalfInv, InPair
    <3>6. WholeInv'
      <4> SUFFICES ASSUME NEW j \in Pairs, j \notin torn, number[j] # None, owner'[j] # None,
                          <<owner'[j], number[j]>> \notin asked
                   PROVE  \E q \in InPair(j)' : pc'[q] = "putOwner"
        BY <1>1, <2>2 DEF WholeInv
      <4>1. j # k
        BY <1>1, <2>2, <1>2, <1>3, <3>3 DEF IInv, PairInv, HalfInv
      <4>2. PICK q \in InPair(j) : pc[q] = "putOwner"
        BY <1>1, <2>2, <1>3, <4>1 DEF IInv, PairInv, WholeInv
      <4>3. q \in Requests \ {r}
        BY <4>1, <4>2 DEF InPair
      <4> QED
        BY <3>1, <3>2, <4>2, <4>3
    <3> QED
      BY <3>4, <3>5, <3>6 DEF PairInv
  <2> QED
    BY <1>1, <2>1, <2>2
<1>9. ReqInv'
  <2> SUFFICES ASSUME NEW q \in Requests, q # r PROVE ReqOk(q)'
    BY <1>7 DEF ReqInv
  <2> QED
    BY <1>4, <1>5, ReqKept DEF IInv, Moves
<1>10. FieldsInv'
  BY <1>1, <1>4, <1>7, FieldsKept DEF IInv
<1>11. LinksInv'
  BY <1>1, <1>5, LinksKept DEF IInv
<1> QED
  BY <1>1, <1>5, <1>8, <1>9, <1>10, <1>11 DEF IInv, TokensInv

LEMMA SendCodeKept ==
  ASSUME ConstantsAssumption, IInv, NEW r \in Requests, SendCode(r) \/ SaveIntent(r)
  PROVE  IInv'
<1>1. /\ pc[r] \in {"sms", "saveIntent"} /\ TypeOK /\ "saveIntent" \in PCs
      /\ UNCHANGED <<users, cached, number, owner, tokens, session, ghosts>>
  BY DEF SendCode, SaveIntent, IInv, PCs
<1>2. /\ Doc(r) \in Docs /\ req[r].user \in Users /\ <<req[r].user, Doc(r)>> \in asked
      /\ Kind(r) \in CodeKinds
  BY <1>1 DEF IInv, ReqInv, ReqOk, SetOk, PathOk, SetPCs
<1>3. PhoneOf[Doc(r)] \in Phones
  BY <1>2, PairOfDoc
<1>4. /\ pc' \in [Requests -> PCs] /\ pc'[r] \in {"saveIntent", "idle"}
      /\ req' \in [Requests -> Request] /\ Moves(r)
      /\ pc'[r] = "saveIntent" => req' = req
  BY <1>1, Places DEF SendCode, SaveIntent
<1>5. ref' \subseteq Phones /\ intent' \in [Phones -> CodeKinds \cup {None}]
  <2>1. CASE SendCode(r)
    <3>1. intent' = intent /\ (ref' = ref \cup {PhoneOf[Doc(r)]} \/ ref' = ref)
      BY <2>1, WrittenIs DEF SendCode
    <3> QED
      BY <1>1, <1>3, <3>1 DEF TypeOK
  <2>2. CASE SaveIntent(r)
    <3>1. /\ ref' = ref
          /\ intent' = [intent EXCEPT ![PhoneOf[Doc(r)]] = Kind(r)] \/ intent' = intent
      BY <2>2, WrittenIs DEF SaveIntent
    <3> QED
      BY <1>1, <1>2, <1>3, <3>1 DEF TypeOK
  <2> QED
    BY <2>1, <2>2
<1>6. TypeOK' /\ Grows
  BY <1>1, <1>4, <1>5 DEF TypeOK, Request, ghosts, Grows
<1>7. ReqOk(r)' /\ FieldsOk(r)'
  <2>1. CASE pc'[r] = "idle"
    BY <2>1, IdleOk
  <2>2. CASE pc'[r] = "saveIntent"
    BY <1>1, <1>2, <1>4, <2>2, SameData DEF ReqOk, SetOk, PathOk, VerifyOk, OwnedOk, FieldsOk,
       SetPCs, OwnedPCs, VerifyPCs, ghosts
  <2> QED
    BY <1>4, <2>1, <2>2
<1> QED
  BY <1>1, <1>4, <1>6, <1>7, StepKept DEF ghosts, IInv, TokensInv

\* Requests all stay where they are.
LEMMA NoRequestMoves ==
  ASSUME IInv, TypeOK', Grows, tokens' \subseteq proved',
         UNCHANGED <<users, session, linked, number, owner, torn, pc, req>>
  PROVE  IInv'
<1>1. ReqInv'
  BY ReqKept DEF IInv, ReqInv
<1>2. FieldsInv'
  BY DEF IInv, FieldsInv, FieldsOk, Grows
<1>3. PairInv'
  <2>1. \A k : InPair(k)' = InPair(k)
    BY DEF InPair, Pair, Kind, Doc
  <2>2. \A r : Doc(r)' = Doc(r)
    BY DEF Doc
  <2>3. NumberInv' /\ AloneInv' /\ HalfInv'
    BY <2>1, <2>2 DEF IInv, PairInv, NumberInv, AloneInv, HalfInv
  <2>4. WholeInv'
    BY <2>1 DEF IInv, PairInv, WholeInv, Grows
  <2> QED
    BY <2>3, <2>4 DEF PairInv
<1>4. LinksInv'
  BY LinksKept DEF IInv
<1> QED
  BY <1>1, <1>2, <1>3, <1>4 DEF IInv, TokensInv

LEMMA VerifyCodeKept ==
  ASSUME ConstantsAssumption, IInv, NEW c \in Users, NEW p \in Phones, VerifyCode(c, p)
  PROVE  IInv'
<1> DEFINE t == [by |-> c, phone |-> p, kind |-> intent[p]]
<1>1. /\ ref' \subseteq ref /\ intent[p] # None /\ TypeOK
      /\ tokens' = tokens \cup {t} /\ proved' = proved \cup {t}
      /\ UNCHANGED <<users, cached, number, owner, intent, session, pc, req,
                     linked, asked, torn, crossed>>
  BY WrittenIs DEF VerifyCode, IInv
<1>2. t \in Token
  BY <1>1 DEF TypeOK, Token
<1> HIDE DEF t
<1>3. TypeOK' /\ Grows
  BY <1>1, <1>2 DEF TypeOK, Grows
<1> QED
  BY <1>1, <1>3, NoRequestMoves DEF IInv, TokensInv

LEMMA ExpireKept ==
  ASSUME IInv, Expire
  PROVE  IInv'
<1>1. /\ TypeOK /\ ref' \subseteq ref /\ tokens' \subseteq tokens
      /\ UNCHANGED <<users, cached, number, owner, session, pc, req, ghosts>>
  BY DEF Expire, IInv
<1>2. intent' \in [Phones -> CodeKinds \cup {None}]
  BY <1>1 DEF Expire, TypeOK
<1>3. TypeOK' /\ Grows
  BY <1>1, <1>2 DEF TypeOK, ghosts, Grows
<1> QED
  BY <1>1, <1>3, NoRequestMoves DEF ghosts, IInv, TokensInv

LEMMA StartVerifyKept ==
  ASSUME ConstantsAssumption, IInv, NEW r \in Requests, NEW t \in tokens, NEW kind \in CodeKinds,
         StartVerify(r, t, kind)
  PROVE  IInv'
<1> DEFINE k == <<kind, t.phone>>
           new == [NoReq EXCEPT !.client = t.by, !.doc = number[k]]
<1>1. /\ pc[r] = "idle" /\ t.kind = kind /\ number[k] # None /\ TypeOK
      /\ pc' = [pc EXCEPT ![r] = "owner"] /\ TornBy(k) /\ req' = [req EXCEPT ![r] = new]
      /\ UNCHANGED <<users, cache, tokens, session, linked, asked, proved, crossed>>
  BY DEF StartVerify, IInv
<1>2. t \in Token /\ t \in proved /\ t = [by |-> t.by, phone |-> t.phone, kind |-> t.kind]
  BY <1>1 DEF TypeOK, IInv, TokensInv, Token
<1>3. k \in Pairs /\ number[k] \in Docs /\ t.by \in Users
  BY <1>1, <1>2 DEF TypeOK, Pairs, Token
<1>4. KindOf[number[k]] = kind /\ PhoneOf[number[k]] = t.phone
  BY <1>1, <1>3 DEF IInv, PairInv, NumberInv
<1>5. new \in Request /\ new.client = t.by /\ new.doc = number[k]
  BY <1>3 DEF NoReq, Request, NoField, Field
<1> HIDE DEF new
<1>6. /\ pc' \in [Requests -> PCs] /\ pc'[r] = "owner" /\ req' \in [Requests -> Request]
      /\ req'[r] = new /\ Moves(r)
  BY <1>1, <1>5 DEF TypeOK, Request, PCs, Moves
<1>7. torn' \in {torn, torn \cup {k}}
  BY <1>1 DEF TornBy
<1>8. TypeOK' /\ Grows
  <2> HIDE DEF k
  <2> QED
    BY <1>1, <1>3, <1>6, <1>7 DEF TypeOK, Request, Grows, cache
<1>9. Doc(r)' = number[k] /\ Kind(r)' = kind /\ Pair(r)' = k /\ TokenOf(r)' = t
  <2>1. Doc(r)' = number[k]
    BY <1>5, <1>6 DEF Doc
  <2>2. Kind(r)' = kind /\ PhoneOf[Doc(r)'] = t.phone
    BY <1>4, <2>1 DEF Kind
  <2> QED
    BY <1>1, <1>2, <1>5, <1>6, <2>1, <2>2 DEF Pair, TokenOf
<1>10. ReqOk(r)' /\ FieldsOk(r)'
  <2>1. VerifyOk(r)'
    BY <1>1, <1>2, <1>3, <1>5, <1>6, <1>9 DEF VerifyOk
  <2> QED
    BY <1>6, <2>1 DEF ReqOk, SetOk, PathOk, OwnedOk, FieldsOk, SetPCs, OwnedPCs
<1>11. PairInv'
  <2>1. number' = number /\ owner' = owner
    BY <1>1 DEF cache
  <2>2. <<KindOf[number[k]], PhoneOf[number[k]]>> = k
    BY <1>4
  <2> HIDE DEF k
  <2> QED
    BY <1>1, <1>3, <1>6, <1>8, <1>9, <2>1, <2>2, PairEntered DEF IInv
<1>12. ReqInv'
  <2> SUFFICES ASSUME NEW q \in Requests, q # r PROVE ReqOk(q)'
    BY <1>10 DEF ReqInv
  <2> QED
    BY <1>6, <1>8, ReqKept DEF IInv, Moves
<1>13. FieldsInv'
  BY <1>1, <1>6, <1>10, FieldsKept DEF IInv
<1>14. LinksInv'
  BY <1>1, <1>8, LinksKept DEF IInv
<1> QED
  BY <1>1, <1>8, <1>11, <1>12, <1>13, <1>14 DEF IInv, TokensInv

LEMMA ReadOwnerKept ==
  ASSUME ConstantsAssumption, IInv, NEW r \in Requests, ReadOwner(r)
  PROVE  IInv'
<1> DEFINE u == owner[Pair(r)]
<1>1. /\ pc[r] = "owner" /\ u # None /\ TypeOK /\ pc' = [pc EXCEPT ![r] = "readByCode"]
      /\ req' = [req EXCEPT ![r].user = u]
      /\ UNCHANGED <<users, cache, tokens, session, ghosts>>
  BY DEF ReadOwner, IInv
<1>2. /\ Doc(r) \in Docs /\ Kind(r) \in CodeKinds /\ req[r].client \in Users
      /\ TokenOf(r) \in proved
  BY <1>1 DEF IInv, ReqInv, ReqOk, VerifyOk, VerifyPCs
<1>3. Pair(r) \in Pairs /\ u \in Users
  BY <1>1, <1>2, PairOfDoc DEF TypeOK
<1>4. <<u, Doc(r)>> \in asked \/ Pair(r) \in torn
  <2> SUFFICES ASSUME Pair(r) \notin torn PROVE <<u, Doc(r)>> \in asked
    OBVIOUS
  <2>1. r \in InPair(Pair(r))
    BY <1>1 DEF InPair
  <2>2. Doc(r) = number[Pair(r)]
    BY <1>3, <2>1 DEF IInv, PairInv, HalfInv
  <2>3. \A q \in InPair(Pair(r)) : pc[q] # "putOwner"
    BY <1>1, <1>3, <2>1 DEF IInv, PairInv, AloneInv
  <2>4. number[Pair(r)] # None
    BY <1>2, <2>2 DEF ConstantsAssumption
  <2> QED
    BY <1>1, <1>3, <2>2, <2>3, <2>4 DEF IInv, PairInv, WholeInv
<1> HIDE DEF u
<1>5. req \in [Requests -> Request] /\ pc \in [Requests -> PCs]
  BY <1>1 DEF TypeOK, Request
<1>6. /\ req' \in [Requests -> Request] /\ pc' \in [Requests -> PCs] /\ Moves(r)
      /\ pc'[r] = "readByCode" /\ req'[r].user = u /\ req'[r].doc = req[r].doc
      /\ req'[r].client = req[r].client
  BY <1>1, <1>3, <1>5 DEF Request, PCs, Moves
<1>7. TypeOK' /\ Grows
  BY <1>1, <1>6 DEF TypeOK, Request, cache, ghosts, Grows
<1>8. ReqOk(r)' /\ FieldsOk(r)'
  <2>1. Doc(r)' = Doc(r) /\ Kind(r)' = Kind(r) /\ Pair(r)' = Pair(r) /\ TokenOf(r)' = TokenOf(r)
    BY <1>6 DEF Doc, Kind, Pair, TokenOf
  <2>2. VerifyOk(r)' /\ SetOk(r)' /\ PathOk(r)' /\ FieldsOk(r)'
    BY <1>1, <1>2, <1>6, <2>1 DEF VerifyOk, SetOk, PathOk, FieldsOk, SetPCs, ghosts
  <2>3. OwnedOk(r)'
    BY <1>1, <1>3, <1>4, <1>6, <2>1 DEF OwnedOk, ghosts
  <2> QED
    BY <2>2, <2>3 DEF ReqOk
<1> QED
  BY <1>1, <1>6, <1>7, <1>8, StepKept DEF cache, ghosts, IInv, TokensInv

LEMMA ForgetRecordKept ==
  ASSUME IInv, NEW r \in Requests, ForgetRecord(r)
  PROVE  IInv'
<1>1. /\ pc[r] = "forget" /\ Goto(r, "session") /\ "session" \in PCs /\ TypeOK
      /\ cached' \subseteq cached
      /\ UNCHANGED <<users, number, owner, ref, intent, tokens, session, ghosts>>
  BY WrittenIs DEF ForgetRecord, IInv, PCs
<1>2. /\ pc' \in [Requests -> PCs] /\ pc'[r] = "session"
      /\ req' \in [Requests -> Request] /\ req' = req /\ Moves(r)
  BY <1>1, Places
<1>3. TypeOK' /\ Grows
  BY <1>1, <1>2 DEF TypeOK, Request, ghosts, Grows
<1>4. ReqOk(r)' /\ FieldsOk(r)'
  BY <1>1, <1>2, SameData DEF IInv, ReqInv, ReqOk, SetOk, PathOk, VerifyOk, OwnedOk, SetPCs,
     OwnedPCs, VerifyPCs, FieldsOk, ghosts
<1> QED
  BY <1>1, <1>2, <1>3, <1>4, StepKept DEF ghosts, IInv, TokensInv

LEMMA SaveSessionKept ==
  ASSUME IInv, NEW r \in Requests, SaveSession(r)
  PROVE  IInv'
<1> DEFINE c == req[r].client
           u == req[r].user
           l == [user |-> u, doc |-> Doc(r), how |-> "code"]
<1>1. /\ pc[r] = "session" /\ Finish(r) /\ TypeOK
      /\ session' = [session EXCEPT ![c] = u] \/ session' = session
      /\ UNCHANGED <<users, cache, tokens, ghosts>>
  BY WrittenIs DEF SaveSession, IInv
<1>2. c \in Users /\ TokenOf(r) \in proved /\ u \in Users /\ l \in linked
  BY <1>1 DEF IInv, ReqInv, ReqOk, VerifyOk, OwnedOk, VerifyPCs, OwnedPCs
<1>3. /\ pc' \in [Requests -> PCs] /\ pc'[r] = "idle" /\ req' \in [Requests -> Request] /\ Moves(r)
      /\ ReqOk(r)' /\ FieldsOk(r)'
  BY <1>1, Places, IdleOk
<1>4. TypeOK' /\ Grows
  BY <1>1, <1>2, <1>3 DEF TypeOK, Request, cache, ghosts, Grows
<1>5. ReqInv'
  <2> SUFFICES ASSUME NEW q \in Requests, q # r PROVE ReqOk(q)'
    BY <1>3 DEF ReqInv
  <2> QED
    BY <1>3, <1>4, ReqKept DEF IInv, Moves
<1>6. FieldsInv'
  BY <1>1, <1>3, FieldsKept DEF IInv, ghosts
<1>7. PairInv'
  BY <1>1, <1>3, <1>4, PairKept DEF IInv, cache
<1>8. LinksInv'
  <2>1. LinksAreProved' /\ LinkedAsAsked'
    BY <1>1 DEF IInv, LinksInv, LinksAreProved, LinkedAsAsked, ghosts
  <2>2. SessionFollowsCode'
    <3> SUFFICES ASSUME NEW d \in Users, session'[d] # None
                 PROVE  \E m \in linked :
                          /\ m.user = session'[d] /\ m.how = "code"
                          /\ [by |-> d, phone |-> PhoneOf[m.doc], kind |-> KindOf[m.doc]] \in proved
      BY <1>1 DEF SessionFollowsCode, ghosts
    <3>1. CASE d = c /\ session' # session
      <4>1. l \in linked /\ l.how = "code" /\ l.user = session'[d]
        BY <1>1, <1>2, <3>1 DEF TypeOK
      <4>2. [by |-> d, phone |-> PhoneOf[l.doc], kind |-> KindOf[l.doc]] \in proved
        BY <1>2, <3>1 DEF TokenOf, Kind
      <4> QED
        BY <4>1, <4>2
    <3>2. CASE d # c \/ session' = session
      BY <1>1, <3>2 DEF IInv, LinksInv, SessionFollowsCode, TypeOK
    <3> QED
      BY <3>1, <3>2
  <2> QED
    BY <2>1, <2>2 DEF LinksInv
<1> QED
  BY <1>1, <1>4, <1>5, <1>6, <1>7, <1>8 DEF IInv, TokensInv, ghosts

LEMMA EndsKept ==
  ASSUME ConstantsAssumption, IInv, NEW r \in Requests, Ends(r)
  PROVE  IInv'
<1>1. /\ Finish(r) /\ TypeOK
      /\ torn' = torn \cup (IF pc[r] = "putOwner" THEN {Pair(r)} ELSE {})
      /\ UNCHANGED <<users, cache, tokens, session, linked, asked, proved, crossed>>
  BY DEF Ends, IInv
<1>2. /\ pc' \in [Requests -> PCs] /\ pc'[r] = "idle" /\ req' \in [Requests -> Request] /\ Moves(r)
      /\ ReqOk(r)' /\ FieldsOk(r)'
  BY <1>1, Places, IdleOk
<1>3. pc[r] = "putOwner" => Pair(r) \in Pairs
  <2> SUFFICES ASSUME pc[r] = "putOwner" PROVE Pair(r) \in Pairs
    OBVIOUS
  <2>1. Doc(r) \in Docs /\ Kind(r) \in CodeKinds
    BY DEF IInv, ReqInv, ReqOk, SetOk, PathOk, SetPCs
  <2> QED
    BY <2>1, PairOfDoc
<1>4. TypeOK' /\ Grows
  BY <1>1, <1>2, <1>3 DEF TypeOK, Request, cache, Grows
<1> QED
  BY <1>1, <1>2, <1>4, StepKept DEF cache, IInv, TokensInv

-------------------------------------------------------------------------------
\* Only the updates by id write an account.
LEMMA UsersStay ==
  ASSUME UNCHANGED users
  PROVE  FieldsStay
BY DEF FieldsStay

\* Any step of a request: the kinds share the handlers' parts.
LEMMA StepCases ==
  ASSUME NEW r \in Requests, Step(r)
  PROVE  \/ CountLinked(r) \/ Fetch(r) \/ CompareFaces(r) \/ ReadUser(r, "read", "link")
         \/ ReadUser(r, "readByCode", "linkByCode") \/ PutNumber(r) \/ PutOwner(r)
         \/ SendCode(r) \/ SaveIntent(r) \/ ReadOwner(r) \/ ForgetRecord(r) \/ SaveSession(r)
         \/ LinkNow(r) \/ LinkByCode(r)
BY DEF Step, SetNINDetails, SetBVNDetails, SetVoterIDDetails, SetDriversLicenseDetails,
   VerifyNINDetails, VerifyBVNDetails, VerifyVoterIDDetails, SetSteps, VerifySteps

LEMMA InitInv == ConstantsAssumption /\ Init => IInv
<1> SUFFICES ASSUME ConstantsAssumption, Init PROVE IInv
  OBVIOUS
<1>1. NoReq \in Request /\ Unset \in Stored /\ NoField \in Field
  BY DEF NoReq, Request, Unset, Stored, NoField, Field
<1>2. TypeOK
  BY <1>1 DEF Init, TypeOK, Account, Request, PCs
<1>3. ReqInv /\ FieldsInv
  BY DEF Init, ReqInv, ReqOk, SetOk, PathOk, VerifyOk, OwnedOk, FieldsInv, FieldsOk, SetPCs,
     OwnedPCs, VerifyPCs
<1>4. PairInv
  BY DEF Init, PairInv, NumberInv, AloneInv, HalfInv, WholeInv, InPair
<1>5. LinksInv
  BY DEF Init, LinksInv, LinksAreProved, SessionFollowsCode, LinkedAsAsked
<1> QED
  BY <1>2, <1>3, <1>4, <1>5 DEF IInv, TokensInv, Init

\* Every step keeps the invariant, and the verified fields outside the crossed updates.
LEMMA NextInv == ConstantsAssumption /\ IInv /\ [Next]_vars => IInv' /\ FieldsStay
<1> SUFFICES ASSUME ConstantsAssumption, IInv, [Next]_vars PROVE IInv' /\ FieldsStay
  OBVIOUS
<1>1. ASSUME NEW r \in Requests, NEW u \in Users, NEW d \in Docs, StartSet(r, u, d)
      PROVE  IInv' /\ FieldsStay
  BY <1>1, StartSetKept, UsersStay DEF StartSet
<1>2. ASSUME NEW r \in Requests, NEW t \in tokens, NEW k \in CodeKinds, StartVerify(r, t, k)
      PROVE  IInv' /\ FieldsStay
  BY <1>2, StartVerifyKept, UsersStay DEF StartVerify
<1>3. ASSUME NEW r \in Requests, Step(r)
      PROVE  IInv' /\ FieldsStay
  <2>1. CASE CountLinked(r)
    BY <2>1, CountLinkedKept, UsersStay DEF CountLinked
  <2>2. CASE Fetch(r)
    BY <2>2, FetchKept, UsersStay DEF Fetch
  <2>3. CASE CompareFaces(r)
    BY <2>3, CompareFacesKept, UsersStay DEF CompareFaces
  <2>4. CASE ReadUser(r, "read", "link")
    <3>1. IInv'
      BY <2>4, ReadUserKept
    <3>2. UNCHANGED users
      BY <2>4 DEF ReadUser
    <3> QED
      BY <3>1, <3>2, UsersStay
  <2>5. CASE ReadUser(r, "readByCode", "linkByCode")
    <3>1. IInv'
      BY <2>5, ReadUserKept
    <3>2. UNCHANGED users
      BY <2>5 DEF ReadUser
    <3> QED
      BY <3>1, <3>2, UsersStay
  <2>6. CASE PutNumber(r)
    BY <2>6, PutNumberKept, UsersStay DEF PutNumber
  <2>7. CASE PutOwner(r)
    BY <2>7, PutOwnerKept, UsersStay DEF PutOwner
  <2>8. CASE SendCode(r) \/ SaveIntent(r)
    BY <2>8, SendCodeKept, UsersStay DEF SendCode, SaveIntent
  <2>9. CASE ReadOwner(r)
    BY <2>9, ReadOwnerKept, UsersStay DEF ReadOwner
  <2>10. CASE ForgetRecord(r)
    BY <2>10, ForgetRecordKept, UsersStay DEF ForgetRecord
  <2>11. CASE SaveSession(r)
    BY <2>11, SaveSessionKept, UsersStay DEF SaveSession
  <2>12. CASE LinkNow(r)
    BY <2>12, LinkNowKept
  <2>13. CASE LinkByCode(r)
    BY <2>13, LinkByCodeKept
  <2> QED
    BY <1>3, <2>1, <2>2, <2>3, <2>4, <2>5, <2>6, <2>7, <2>8, <2>9, <2>10, <2>11, <2>12, <2>13,
       StepCases
<1>4. ASSUME NEW r \in Requests, Ends(r)
      PROVE  IInv' /\ FieldsStay
  BY <1>4, EndsKept, UsersStay DEF Ends
<1>5. ASSUME NEW c \in Users, NEW p \in Phones, VerifyCode(c, p)
      PROVE  IInv' /\ FieldsStay
  BY <1>5, VerifyCodeKept, UsersStay DEF VerifyCode
<1>6. CASE Expire
  BY <1>6, ExpireKept, UsersStay DEF Expire
<1>7. CASE UNCHANGED vars
  <2>1. TypeOK' /\ Grows
    BY <1>7 DEF IInv, TypeOK, vars, cache, ghosts, Grows
  <2> QED
    BY <1>7, <2>1, NoRequestMoves, UsersStay DEF vars, cache, ghosts, IInv, TokensInv
<1> QED
  BY <1>1, <1>2, <1>3, <1>4, <1>5, <1>6, <1>7 DEF Next

-------------------------------------------------------------------------------
\* Any number of requests of any users about any documents, in any order, with codes
\* and entries that expire and requests that end anywhere: IInv always holds.
THEOREM Invariance == Spec => []IInv
<1>1. Init => IInv
  BY InitInv, ConstantsAssumption
<1>2. IInv /\ [Next]_vars => IInv'
  BY NextInv, ConstantsAssumption
<1> QED
  BY <1>1, <1>2, PTL DEF Spec

\* A document is linked, and a session given for it, only on proof of its phone: that
\* of the session, or a code that somebody verified; a licence needs none.
THEOREM ProofOfPhone == Spec => []PhonesWereProved
<1>1. IInv => PhonesWereProved
  BY DEF IInv, LinksInv, PhonesWereProved
<1> QED
  BY <1>1, Invariance, PTL

\* What is linked to an account is what its user asked for, although the two cache
\* entries of a phone are written and read apart, outside the torn pairs.
THEOREM AskedBeforeLinked == Spec => []LinkedAsAsked
<1>1. IInv => LinkedAsAsked
  BY DEF IInv, LinksInv
<1> QED
  BY <1>1, Invariance, PTL

\* No step of any path changes a verified name or birth date, unless the account was
\* updated between that request's read and its write.
THEOREM FieldsAreKept == Spec => VerifiedFieldsKept
<1>1. IInv /\ [Next]_vars =>
        [\A u \in Users : \A f \in {"names", "dob"} :
           users[u][f].verified => users'[u][f] = users[u][f] \/ u \in crossed']_vars
  BY NextInv, ConstantsAssumption DEF FieldsStay
<1> QED
  BY <1>1, Invariance, PTL DEF Spec, VerifiedFieldsKept
===============================================================================
