--------------------------------- MODULE MCKyc ---------------------------------
(* TLC instances of Kyc.  A behaviour is about some users and documents: two   *)
(* documents of one kind on one phone, or documents of several kinds for one    *)
(* user with that phone.                                                       *)
EXTENDS Kyc, TLC

CONSTANTS u1, u2, u3, n1, n2, b1, v1, v2, l1, p1, p2, r1, r2

MCKindOf == (n1 :> "nin" @@ n2 :> "nin" @@ b1 :> "bvn" @@ v1 :> "voterID"
             @@ v2 :> "voterID" @@ l1 :> "driverID")
MCPersonOf == (n1 :> u1 @@ n2 :> u2 @@ b1 :> u3 @@ v1 :> u3 @@ v2 :> u2 @@ l1 :> u3)
MCPhoneOf == (n1 :> p1 @@ n2 :> p1 @@ b1 :> p1 @@ v1 :> p1 @@ v2 :> p2 @@ l1 :> p2)
MCDigits == (p1 :> 7 @@ p2 :> 11)
MCSessionPhone == (u1 :> None @@ u2 :> None @@ u3 :> p1)

CONSTANT MaxRequests   \* bound on the requests of a behaviour, one less where writes are lost

VARIABLES focus, left, lossy

Focuses == {{<<u1, n1>>, <<u2, n2>>}, {<<u1, v1>>, <<u2, v1>>}, {<<u1, n1>>, <<u1, b1>>},
            {<<u3, n1>>, <<u3, v1>>, <<u3, l1>>}, {<<u3, b1>>, <<u3, l1>>, <<u2, v2>>}}

Starts(r) == pc[r] = "idle" /\ pc'[r] # "idle"

\* What a step that goes on to the next one has done, unless its call failed.
Done(r) ==
  CASE pc[r] = "count"      -> ~AlreadyLinked(Doc(r))
    [] pc[r] = "fetch"      -> Doc(r) \in cached'
    [] pc[r] = "linkByCode" -> users'[req[r].user][Kind(r)].doc = Doc(r)
    [] pc[r] = "putNumber"  -> number'[Pair(r)] = Doc(r)
    [] pc[r] = "putOwner"   -> owner'[Pair(r)] = req[r].user
    [] pc[r] = "sms"        -> PhoneOf[Doc(r)] \in ref'
    [] pc[r] = "forget"     -> Kind(r) # "voterID" => Doc(r) \notin cached'
    [] OTHER                -> TRUE

MCInit ==
  /\ Init /\ focus \in Focuses /\ lossy \in {FALSE, Fails}
  /\ left = IF lossy THEN MaxRequests - 1 ELSE MaxRequests

MCNext ==
  /\ Next /\ UNCHANGED <<focus, lossy>> /\ asked' \subseteq focus
  /\ left' = left - Cardinality({r \in Requests : Starts(r)}) /\ left' >= 0
  /\ \A t \in proved' : \E a \in focus : a[1] = t.by
  /\ lossy \/ \A r \in Requests : pc'[r] \in {pc[r], "idle"} \/ Starts(r) \/ Done(r)
  /\ lossy \/ tokens' \subseteq tokens \/ ref' # ref

Perms == Permutations({r1, r2})

MCSpec == MCInit /\ [][MCNext]_<<vars, focus, left, lossy>>
================================================================================
