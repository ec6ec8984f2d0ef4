------------------------------- MODULE MCDevApi -------------------------------
(* TLC instances of DevApi.  A behaviour is about the rate limit in time, the keys  *)
(* an application has one after the other, or the pictures: for the last two the     *)
(* clock stands still, and requests about pictures have passed the authentication.   *)
EXTENDS DevApi, TLC

CONSTANTS r1, r2, a1, a2, good, low, blank, broken, huge, odd

VARIABLE focus

OneFault == {{}, {"redis"}, {"expire"}, {"find"}}
AllImages == {good, low, blank, broken, huge, odd}

MCEnding == [i \in AllImages |-> CASE i = broken -> "unreadable" [] i = huge -> "oversized"
                                   [] i = odd -> "panics" [] OTHER -> "sound"]
MCFaces == [i \in AllImages |-> CASE i = blank -> 0 [] i = low -> 2 [] OTHER -> 1]
MCCascade == [i \in AllImages |-> CASE i = low -> 0 [] OTHER -> 1]
MCQuality == [i \in AllImages |-> IF i = low THEN 20 ELSE 90]
MCScore == [i \in AllImages |-> IF i = low THEN 45 ELSE 80]
MCSimilarity == [p \in AllImages \X AllImages |->
                   IF p[1] = p[2] THEN 100 ELSE IF low \in {p[1], p[2]} THEN 66 ELSE 90]
MCPictures == {<<i>> : i \in AllImages} \cup
              {<<i, j>> : i \in {good, low}, j \in AllImages} \cup
              {<<blank, good>>, <<broken, odd>>, <<odd, huge>>}
MCModelSets == {Models, {"arcface", "cascade"}, {"arcface", "yunet"}, {"yunet"}, {}}

\* Two requests whose handler is about to begin.
AtHandler ==
  /\ keys = [a \in Apps |-> [e \in Envs |-> 1]]
  /\ window = [a \in Apps |-> [count |-> 0, left |-> 0]]
  /\ pc = [r \in Requests |-> "handler"] /\ todo = [r \in Requests |-> 0]
  /\ \E routes \in [Requests -> {"compare-faces", "liveness-check"}] :
       req = [r \in Requests |-> [route |-> routes[r], app |-> a1, env |-> "live", key |-> 1]]
  /\ ctx = [r \in Requests |-> [app |-> a1, sandbox |-> FALSE]]
  /\ was = [r \in Requests |-> {1}]
  /\ recent = [a \in Apps |-> [n \in 1..Window |-> 0]]
  /\ busy = [a \in Apps |-> 0] /\ quiet = [a \in Apps |-> Window]
  /\ turned = {} /\ faults = {}
  /\ FaceInit

MCInit == \/ focus \in {"rate", "keys"} /\ Init
          \/ focus = "faces" /\ AtHandler

Rated == \E r \in Requests, route \in {"fetch", "kyc"} :
           Arrive(r, route, a1, "live", 1)
Keyed == \E r \in Requests, route \in Routes, a \in Apps, e \in Envs, k \in 1..MaxKey :
           window[a].count = 0 /\ Arrive(r, route, a, e, k)

\* Requests of different applications, one of each, and a request about the picture that makes
\* its processing panic beside one about any.
OneEach == \A p, q \in Requests : p # q /\ req'[p].app = req'[q].app => req'[p].app = None
OneSmall == \E r \in Requests : <<images'[r], bar'[r], loaded'[r]>> \in
              {<<<<>>, 0, {}>>, <<<<odd>>, 700, Models>>}

MCNext ==
  /\ \/ focus = "rate" /\ (Rated \/ Tick \/ \E r \in Requests : Handle(r))
     \/ /\ focus = "keys"
        /\ \/ Keyed \/ \E a \in Apps, e \in Envs : RefreshKey(a, e)
           \/ \E r \in Requests :
                \/ CheckRateLimit(r) \/ FindApp(r) \/ Bind(r) \/ MockAnswer(r)
                \/ APIFetchAppDetails(r) \/ APIFetchDetails(r)
                \/ StartFace(r, <<good>>, 700, Models)
                \/ StartFace(r, <<good, good>>, 700, Models)
        /\ OneEach
     \/ focus = "faces" /\ ((\E r \in Requests : Handle(r)) \/ Restart) /\ OneSmall
  /\ UNCHANGED focus

MCSpec == MCInit /\ [][MCNext]_<<vars, focus>>

\* a1 is the application of the requests about pictures.
Perms == Permutations({r1, r2})
================================================================================
