--------------------------------- MODULE Face ---------------------------------
(***************************************************************************)
(* What LocalFaceService does with the pictures of a request: two goroutines  *)
(* share two detectors to compare two pictures, and hand their results over in *)
(* the order in which they finish; a liveness check takes one picture the same  *)
(* way.  Pixels are abstracted: a picture is known by how its processing ends,   *)
(* by the faces each detector finds in it, and by the scores it gets; an         *)
(* embedding is made of every face that is found.                              *)
(*                                                                         *)
(* YuNet is shared under a mutex, the cascade without any.  Detections of the   *)
(* cascade that overlap race: each may then find any faces, panic, or end the    *)
(* process.  What a race could write outside the cascade is not modelled.        *)
(*                                                                         *)
(* A picture in memory is a Mat, which the code must close.  A zero Mat{} has   *)
(* no object behind it: asking it for its size, or whether it is empty, follows  *)
(* a nil pointer in OpenCV, which ends the process or is answered with zero.    *)
(***************************************************************************)
EXTENDS Integers, Sequences

CONSTANTS
  Requests, Images,
  Ending,          \* of a picture: "sound", "unreadable", "oversized" or "panics"
  Faces, Cascade,  \* of a picture: the number of faces YuNet, and the cascade, find
  Quality, Score,  \* of a picture: its quality and its liveness score, in percent
  Similarity,      \* of two pictures: of their faces, from 0 to 100
  None

ASSUME FaceAssumption ==
  /\ \A i \in Images :
       /\ Ending[i] \in {"sound", "unreadable", "oversized", "panics"}
       /\ Faces[i] \in Nat /\ Cascade[i] \in Nat
       /\ Quality[i] \in 0..100 /\ Score[i] \in 0..100
  /\ \A i, j \in Images : /\ Similarity[<<i, j>>] \in 0..100
                          /\ Similarity[<<i, j>>] = Similarity[<<j, i>>]
  /\ None \notin Images \cup {TRUE, FALSE}

VARIABLES
  images,     \* of a request: its pictures, two to compare or one to check
  bar,        \* of a request: the threshold its answer is decided by, in permille
  loaded,     \* of a request: the models its services could load
  worker,     \* of a request: where the work on each picture is
  mat, found, bad,    \* ... the picture in memory, the faces found, and an error
  mutex, inputSize,   \* ... of the YuNet detector the two share
  raced,      \* of a request: its two detections by the cascade overlapped
  results,    \* of a request: its channel, the pictures in order of their results
  verdict,    \* of a request: the decision, once there is one
  crashed     \* the process came to its end

faceVars == <<images, bar, loaded, worker, mat, found, bad, mutex, inputSize, raced,
              results, verdict, crashed>>
jobVars == <<images, bar, loaded>>

Models == {"yunet", "arcface", "cascade"}
Positions(r) == DOMAIN images[r]
Compares(r) == Len(images[r]) = 2

Bools == {TRUE, FALSE}

FaceTypeOK ==
  \A r \in Requests :
    /\ images[r] \in UNION {[1..n -> Images] : n \in 0..2}
    /\ bar[r] \in 0..1000 /\ loaded[r] \subseteq Models
    /\ \A k \in Positions(r) : /\ worker[r][k] \in {"process", "cascade", "size", "detect", "ended"}
                               /\ mat[r][k] \in {"nil", "open", "closed", "lost"}
                               /\ found[r][k] \in Nat /\ bad[r][k] \in Bools
    /\ mutex[r] \in Positions(r) \cup {0}
    /\ inputSize[r] \in Images \cup {None} /\ raced[r] \in Bools
    /\ verdict[r] \in Bools \cup {None}

FaceInit ==
  /\ images = [r \in Requests |-> <<>>] /\ bar = [r \in Requests |-> 0]
  /\ loaded = [r \in Requests |-> {}]   /\ worker = [r \in Requests |-> <<>>]
  /\ mat = [r \in Requests |-> <<>>]    /\ found = [r \in Requests |-> <<>>]
  /\ bad = [r \in Requests |-> <<>>]    /\ mutex = [r \in Requests |-> 0]
  /\ inputSize = [r \in Requests |-> None] /\ raced = [r \in Requests |-> FALSE]
  /\ results = [r \in Requests |-> <<>>] /\ verdict = [r \in Requests |-> None]
  /\ crashed = FALSE

-----------------------------------------------------------------------------
\* Confidence in permille: the similarity, adjusted by up to 10% for the quality.
Between(n) == IF n < 0 THEN 0 ELSE IF n > 1000 THEN 1000 ELSE n
Confidence(i, j) == Between(10 * Similarity[<<i, j>>] + Quality[i] + Quality[j] - 100)

\* The service's own decision, whose threshold follows the quality of the pictures.
ServiceThreshold(i, j, n, m) ==
  LET both == Quality[i] + Quality[j]
      apart == IF Quality[i] > Quality[j] THEN Quality[i] - Quality[j]
                                          ELSE Quality[j] - Quality[i]
  IN  700 + (IF both < 60 THEN 50 ELSE IF both > 140 THEN -30 ELSE 0)
          + (IF n # 1 \/ m # 1 THEN 50 ELSE 0) + (IF apart > 40 THEN 30 ELSE 0)
ServiceMatch(i, j, n, m) ==
  10 * Similarity[<<i, j>>] > ServiceThreshold(i, j, n, m) /\ Confidence(i, j) > 500

\* The controller decides again, by the threshold of the request; a comparison
\* that failed has confidence and score 0.
Decide(decision, value, threshold) ==
  IF value >= threshold THEN TRUE ELSE IF value < threshold THEN FALSE ELSE decision

-----------------------------------------------------------------------------
\* The services of a request load their models, or fail to.  Without ArcFace a
\* comparison, without any detector a liveness check, is answered at once.
Begin(r, pictures, threshold, models) ==
  LET refused == IF Len(pictures) = 2 THEN "arcface" \notin models
                                      ELSE models \cap {"yunet", "cascade"} = {}
      of(x) == [k \in DOMAIN pictures |-> x]
  IN  /\ images' = [images EXCEPT ![r] = pictures]
      /\ bar' = [bar EXCEPT ![r] = threshold]
      /\ loaded' = [loaded EXCEPT ![r] = models]
      /\ worker' = [worker EXCEPT ![r] = of(IF refused THEN "ended" ELSE "process")]
      /\ mat' = [mat EXCEPT ![r] = of("nil")]
      /\ found' = [found EXCEPT ![r] = of(0)]
      /\ bad' = [bad EXCEPT ![r] = of(FALSE)]
      /\ verdict' = [verdict EXCEPT ![r] = IF refused THEN FALSE ELSE None]
      /\ UNCHANGED <<mutex, inputSize, raced, results, crashed>>

At(r, k, step) == ~crashed /\ k \in Positions(r) /\ worker[r][k] = step

Goto(r, k, step) ==
  worker' = [worker EXCEPT ![r][k] = step] /\ UNCHANGED <<results, bad>>
\* The result goes into the channel, which has room for both.
Send(r, k, error) ==
  /\ worker' = [worker EXCEPT ![r][k] = "ended"]
  /\ results' = [results EXCEPT ![r] = Append(@, k)]
  /\ bad' = [bad EXCEPT ![r][k] = error]

\* With the picture, or without: DetectFaces follows, if there is YuNet or need of it.
Processed(r, k, left, n) ==
  /\ mat' = [mat EXCEPT ![r][k] = left] /\ found' = [found EXCEPT ![r][k] = n]
  /\ IF Compares(r) \/ "yunet" \in loaded[r] THEN Goto(r, k, "size") ELSE Send(r, k, FALSE)

\* The picture is decoded, and the cascade begins with it.  A panic, here or later in
\* the processing, is recovered, with zero values and no error.
ProcessImage(r, k) ==
  LET i == images[r][k]
      besides == "cascade" \in loaded[r] /\ \E l \in Positions(r) \ {k} : worker[r][l] = "cascade"
  IN
  /\ At(r, k, "process")
  /\ \/ Ending[i] \in {"sound", "panics"} /\ Goto(r, k, "cascade") /\ UNCHANGED <<mat, found>>
        /\ raced' = [raced EXCEPT ![r] = @ \/ besides]
     \/ Ending[i] = "unreadable" /\ Send(r, k, TRUE) /\ UNCHANGED <<mat, found, raced>>
     \/ Ending[i] = "oversized" /\ Send(r, k, TRUE) /\ UNCHANGED <<found, raced>>
        /\ mat' = [mat EXCEPT ![r][k] = "lost"]
     \/ Ending[i] = "panics" /\ UNCHANGED raced
        /\ \E left \in {"nil", "lost"} : Processed(r, k, left, 0)
  /\ UNCHANGED <<jobVars, mutex, inputSize, verdict, crashed>>

\* The cascade is done, and the quality of the picture is calculated.
EnhancedFaceDetection(r, k) ==
  LET i == images[r][k]
      seen == IF "cascade" \in loaded[r] THEN Cascade[i] ELSE 0
  IN
  /\ At(r, k, "cascade")
  /\ \/ Ending[i] = "sound" /\ UNCHANGED crashed
        /\ \E n \in IF raced[r] THEN 0..seen + 1 ELSE {seen} : Processed(r, k, "open", n)
     \/ (Ending[i] = "panics" \/ raced[r]) /\ Processed(r, k, "lost", 0) /\ UNCHANGED crashed
     \/ raced[r] /\ crashed' = TRUE /\ UNCHANGED <<worker, mat, found, bad, results>>
  /\ UNCHANGED <<jobVars, mutex, inputSize, raced, verdict>>

\* Mutant of SetInputSize: the two goroutines do not wait for each other.
SetInputSizeUnlocked(r, k) ==
  /\ At(r, k, "size") /\ "yunet" \in loaded[r]
  /\ \/ /\ mat[r][k] # "open" /\ crashed' = TRUE
        /\ UNCHANGED <<worker, results, bad, mutex, inputSize>>
     \/ /\ mutex' = [mutex EXCEPT ![r] = k]
        /\ inputSize' = [inputSize EXCEPT ![r] = images[r][k]]
        /\ Goto(r, k, "detect") /\ UNCHANGED crashed
  /\ UNCHANGED <<jobVars, mat, found, raced, verdict>>

\* DetectFaces, under the mutex of the detector: it is told the size first.
SetInputSize(r, k) ==
  /\ At(r, k, "size") /\ "yunet" \in loaded[r] /\ mutex[r] = 0
  /\ \/ /\ mat[r][k] # "open" /\ crashed' = TRUE
        /\ UNCHANGED <<worker, results, bad, mutex, inputSize>>
     \/ /\ mutex' = [mutex EXCEPT ![r] = k]
        /\ inputSize' = [inputSize EXCEPT ![r] = images[r][k]]
        /\ Goto(r, k, "detect") /\ UNCHANGED crashed
  /\ UNCHANGED <<jobVars, mat, found, raced, verdict>>

NoDetector(r, k) ==
  /\ At(r, k, "size") /\ "yunet" \notin loaded[r] /\ Send(r, k, TRUE)
  /\ UNCHANGED <<jobVars, mat, found, mutex, inputSize, raced, verdict, crashed>>

\* Faces are found in a picture of the size the detector was told.
Detect(r, k) ==
  LET sees == mat[r][k] = "open" /\ inputSize[r] = images[r][k] IN
  /\ At(r, k, "detect")
  /\ found' = [found EXCEPT ![r][k] = IF sees THEN Faces[images[r][k]] ELSE 0]
  /\ Send(r, k, FALSE)
  /\ mutex' = [mutex EXCEPT ![r] = 0]
  /\ UNCHANGED <<jobVars, mat, inputSize, raced, verdict, crashed>>

-----------------------------------------------------------------------------
Ready(r) == ~crashed /\ verdict[r] = None /\ images[r] # <<>>
            /\ Len(results[r]) = Len(images[r])
Closed(r) == mat' = [mat EXCEPT ![r] = [k \in Positions(r) |->
                                          IF @[k] = "open" THEN "closed" ELSE @[k]]]
Verdict(r, value) ==
  /\ verdict' = [verdict EXCEPT ![r] = value] /\ Closed(r)
  /\ UNCHANGED <<jobVars, worker, found, bad, mutex, inputSize, raced, results, crashed>>

\* An error makes the comparison ask both pictures whether they are empty.
AsksNil(r) ==
  LET first == results[r][1]  second == results[r][2] IN
  \/ bad[r][first] /\ \E k \in Positions(r) : mat[r][k] # "open"
  \/ ~bad[r][first] /\ bad[r][second] /\ mat[r][second] # "open"

CompareFaces(r) ==
  LET first == results[r][1]  second == results[r][2]
      i == images[r][first]   j == images[r][second]
      n == found[r][first]    m == found[r][second]
      failed == bad[r][first] \/ bad[r][second] \/ n = 0 \/ m = 0
  IN
  /\ Ready(r) /\ Compares(r)
  /\ \/ AsksNil(r) /\ crashed' = TRUE
        /\ UNCHANGED <<jobVars, worker, mat, found, bad, mutex, inputSize, raced, results,
                       verdict>>
     \/ Verdict(r, IF failed THEN Decide(FALSE, 0, bar[r])
                   ELSE Decide(ServiceMatch(i, j, n, m), Confidence(i, j), bar[r]))

ImageLivenessCheck(r) ==
  LET i == images[r][1]
      score == IF bad[r][1] \/ found[r][1] = 0 THEN 0 ELSE 10 * Score[i]
  IN  Ready(r) /\ ~Compares(r) /\ Verdict(r, Decide(score > 495, score, bar[r]))

\* The request is over: its services and its pictures are gone.
Forget(r) ==
  /\ images' = [images EXCEPT ![r] = <<>>] /\ bar' = [bar EXCEPT ![r] = 0]
  /\ loaded' = [loaded EXCEPT ![r] = {}]   /\ worker' = [worker EXCEPT ![r] = <<>>]
  /\ mat' = [mat EXCEPT ![r] = <<>>]       /\ found' = [found EXCEPT ![r] = <<>>]
  /\ bad' = [bad EXCEPT ![r] = <<>>]       /\ mutex' = [mutex EXCEPT ![r] = 0]
  /\ inputSize' = [inputSize EXCEPT ![r] = None] /\ raced' = [raced EXCEPT ![r] = FALSE]
  /\ results' = [results EXCEPT ![r] = <<>>] /\ verdict' = [verdict EXCEPT ![r] = None]
  /\ UNCHANGED crashed

\* The process ends, and everything in memory with it.
Exit ==
  /\ crashed /\ crashed' = FALSE
  /\ images' = [r \in Requests |-> <<>>] /\ bar' = [r \in Requests |-> 0]
  /\ loaded' = [r \in Requests |-> {}]   /\ worker' = [r \in Requests |-> <<>>]
  /\ mat' = [r \in Requests |-> <<>>]    /\ found' = [r \in Requests |-> <<>>]
  /\ bad' = [r \in Requests |-> <<>>]    /\ mutex' = [r \in Requests |-> 0]
  /\ inputSize' = [r \in Requests |-> None] /\ raced' = [r \in Requests |-> FALSE]
  /\ results' = [r \in Requests |-> <<>>] /\ verdict' = [r \in Requests |-> None]

Work(r) ==
  \/ \E k \in 1..2 : \/ ProcessImage(r, k) \/ EnhancedFaceDetection(r, k)
                     \/ SetInputSize(r, k) \/ NoDetector(r, k) \/ Detect(r, k)
  \/ CompareFaces(r) \/ ImageLivenessCheck(r)

-----------------------------------------------------------------------------
\* What the pictures alone decide: the models of the request, the faces in them
\* and their scores.
Seen(i, models) ==
  /\ Ending[i] = "sound"
  /\ IF "yunet" \in models THEN Faces[i] > 0 ELSE "cascade" \in models /\ Cascade[i] > 0
Expected(pictures, threshold, models) ==
  IF Len(pictures) = 2
  THEN /\ {"arcface", "yunet"} \subseteq models
       /\ \A k \in 1..2 : Seen(pictures[k], models)
       /\ Confidence(pictures[2], pictures[1]) >= threshold
  ELSE Seen(pictures[1], models) /\ 10 * Score[pictures[1]] >= threshold

\* A race of the request's detections cost it this picture.
Spoilt(r, k) == raced[r] /\ mat[r][k] = "lost"

\* Whatever the order in which the two goroutines take the detector and finish,
\* and whatever else runs, the answer is a function of the pictures, of the
\* threshold and of the models - CompareFaces takes the first result that
\* arrives for that of the first picture.  The faces that racing detections make up
\* never count; a picture they lose may turn a match into none, and never makes one.
VerdictOfImages ==
  \A r \in Requests : verdict[r] # None =>
    \/ verdict[r] = Expected(images[r], bar[r], loaded[r])
    \/ verdict[r] = FALSE /\ \E k \in Positions(r) : Spoilt(r, k)

\* Every way out of a comparison or check closes the pictures that are open; what
\* ProcessImage drops on a panic, a race or a size it refuses is the only loss.
PicturesReleased ==
  \A r \in Requests : verdict[r] # None =>
    \A k \in Positions(r) :
      /\ mat[r][k] # "open"
      /\ mat[r][k] = "lost" => raced[r] \/ Ending[images[r][k]] \in {"oversized", "panics"}

\* The process ends only over a picture that could not be processed, or in a race.
CrashExplained ==
  crashed => \E r \in Requests :
    raced[r] \/ \E k \in Positions(r) : Ending[images[r][k]] # "sound"

\* The answer is about the pictures, which are let go of, and the process outlives
\* them unless one of them cannot be processed or the cascade is used by both at once.
ComparisonsCorrect == FaceTypeOK /\ VerdictOfImages /\ PicturesReleased /\ CrashExplained
================================================================================
