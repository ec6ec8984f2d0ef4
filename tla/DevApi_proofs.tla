---------------------------- MODULE DevApi_proofs ----------------------------
(***************************************************************************)
(* Proofs about DevApi and the module Face it runs: for any requests and      *)
(* pictures, any scores, limits and windows, any keys and any interleaving of  *)
(* the two goroutines, the rate limit and the passes of a route.              *)
(***************************************************************************)
EXTENDS DevApi, SequenceTheorems, TLAPS

(***************************************************************************)
(* The work on the pictures of one request.                                *)
(***************************************************************************)
Maps ==
  /\ DOMAIN images = Requests /\ DOMAIN bar = Requests /\ DOMAIN loaded = Requests
  /\ DOMAIN worker = Requests /\ DOMAIN mat = Requests /\ DOMAIN found = Requests
  /\ DOMAIN bad = Requests /\ DOMAIN mutex = Requests /\ DOMAIN inputSize = Requests
  /\ DOMAIN results = Requests /\ DOMAIN verdict = Requests /\ DOMAIN raced = Requests
  /\ crashed \in BOOLEAN

Shape(r) ==
  /\ images[r] \in UNION {[1..n -> Images] : n \in 0..2}
  /\ Positions(r) \in {{}, {1}, {1, 2}}
  /\ Len(images[r]) \in 0..2 /\ Positions(r) = 1..Len(images[r])
  /\ DOMAIN worker[r] = Positions(r) /\ DOMAIN mat[r] = Positions(r)
  /\ DOMAIN found[r] = Positions(r) /\ DOMAIN bad[r] = Positions(r)
  /\ \A k \in Positions(r) : images[r][k] \in Images
  /\ bar[r] \in 0..1000 /\ loaded[r] \subseteq Models
  /\ mutex[r] \in Positions(r) \cup {0} /\ inputSize[r] \in Images \cup {None}
  /\ verdict[r] \in Bools \cup {None}

\* A picture in memory is one that could be processed and that no race has lost, until
\* the verdict lets go of it.
Sound(r, k) ==
  /\ mat[r][k] = "open" => Ending[images[r][k]] = "sound"
  /\ Ending[images[r][k]] = "sound" => mat[r][k] = "open" \/ Spoilt(r, k)

\* Once the work on a picture has ended, its error and its faces tell what it is.
Outcome(r, k) ==
  /\ bad[r][k] <=> \/ Ending[images[r][k]] \notin {"sound", "panics"}
                   \/ Compares(r) /\ "yunet" \notin loaded[r]
  /\ ~bad[r][k] => /\ found[r][k] # 0 => Seen(images[r][k], loaded[r])
                   /\ Seen(images[r][k], loaded[r]) => found[r][k] # 0 \/ Spoilt(r, k)

Picture(r, k) ==
  /\ worker[r][k] \in {"process", "cascade", "size", "detect", "ended"}
  /\ mat[r][k] \in {"nil", "open", "closed", "lost"}
  /\ found[r][k] \in Nat /\ bad[r][k] \in BOOLEAN
  /\ mat[r][k] = "lost" => raced[r] \/ Ending[images[r][k]] \in {"oversized", "panics"}
  /\ worker[r][k] \in {"process", "cascade"} =>
       mat[r][k] = "nil" /\ found[r][k] = 0 /\ ~bad[r][k]
  /\ worker[r][k] = "cascade" => Ending[images[r][k]] \in {"sound", "panics"}
  /\ worker[r][k] \in {"size", "detect"} =>
       /\ ~bad[r][k] /\ Sound(r, k) /\ Ending[images[r][k]] \in {"sound", "panics"}
       /\ Compares(r) \/ "yunet" \in loaded[r]
  /\ worker[r][k] = "detect" =>
       "yunet" \in loaded[r] /\ mutex[r] = k /\ inputSize[r] = images[r][k]
  /\ worker[r][k] = "ended" /\ verdict[r] = None => Sound(r, k) /\ Outcome(r, k)

\* The results are those of the pictures whose work has ended, in some order.
Delivered(r) ==
  /\ results[r] \in Seq(1..2)
  /\ \/ Len(results[r]) = 0 /\ \A k \in Positions(r) : worker[r][k] # "ended"
     \/ \E k \in Positions(r) :
          /\ Len(results[r]) = 1 /\ results[r][1] = k /\ worker[r][k] = "ended"
          /\ \A l \in Positions(r) \ {k} : worker[r][l] # "ended"
     \/ \E k, l \in Positions(r) :
          /\ k # l /\ Len(results[r]) = 2 /\ results[r][1] = k /\ results[r][2] = l
          /\ worker[r][k] = "ended" /\ worker[r][l] = "ended"

\* The request was not answered for want of a model.
Equipped(r) == IF Compares(r) THEN "arcface" \in loaded[r]
                              ELSE "yunet" \in loaded[r] \/ "cascade" \in loaded[r]

Decided(r) ==
  /\ verdict[r] = TRUE => Expected(images[r], bar[r], loaded[r])
  /\ Expected(images[r], bar[r], loaded[r]) =>
       verdict[r] = TRUE \/ \E k \in Positions(r) : Spoilt(r, k)
  /\ \A k \in Positions(r) : worker[r][k] = "ended" /\ mat[r][k] # "open"

Free(r) == /\ images[r] = <<>> /\ results[r] = <<>> /\ mutex[r] = 0 /\ verdict[r] = None
           /\ raced[r] = FALSE

\* It takes two pictures to race.
RacedOK(r) == raced[r] \in BOOLEAN /\ (raced[r] => Compares(r))

JobOK(r) ==
  /\ RacedOK(r) /\ Shape(r) /\ \A k \in Positions(r) : Picture(r, k)
  /\ images[r] = <<>> => Free(r)
  /\ images[r] # <<>> => bar[r] > 0
  /\ images[r] # <<>> /\ verdict[r] = None => Delivered(r) /\ Equipped(r)
  /\ images[r] # <<>> /\ verdict[r] # None => Decided(r)

SameJob(s) ==
  /\ images'[s] = images[s] /\ bar'[s] = bar[s] /\ loaded'[s] = loaded[s]
  /\ worker'[s] = worker[s] /\ mat'[s] = mat[s] /\ found'[s] = found[s] /\ bad'[s] = bad[s]
  /\ mutex'[s] = mutex[s] /\ inputSize'[s] = inputSize[s] /\ results'[s] = results[s]
  /\ verdict'[s] = verdict[s] /\ raced'[s] = raced[s]

LEMMA SameKept ==
  ASSUME NEW s \in Requests, JobOK(s), SameJob(s)
  PROVE  JobOK(s)'
<1> USE DEF SameJob, Positions, Compares
<1>1. Shape(s)'
  BY SMTT(30) DEF JobOK, Shape
<1>2. \A k \in Positions(s) : Picture(s, k) => Picture(s, k)'
  BY DEF Picture, Sound, Outcome, Spoilt
<1>3. (Free(s) => Free(s)') /\ (Delivered(s) => Delivered(s)') /\ (Equipped(s) => Equipped(s)')
  BY DEF Free, Delivered, Equipped
<1>4. (Decided(s) => Decided(s)') /\ (RacedOK(s) => RacedOK(s)')
  BY DEF Decided, RacedOK, Spoilt
<1> QED
  BY <1>1, <1>2, <1>3, <1>4 DEF JobOK

LEMMA ShapeKept ==
  ASSUME NEW r \in Requests, Shape(r), NEW k \in Positions(r),
         UNCHANGED jobVars, verdict'[r] = verdict[r],
         DOMAIN worker'[r] = DOMAIN worker[r], DOMAIN mat'[r] = DOMAIN mat[r],
         DOMAIN found'[r] = DOMAIN found[r], DOMAIN bad'[r] = DOMAIN bad[r],
         mutex'[r] \in {mutex[r], k, 0}, inputSize'[r] \in {inputSize[r], images[r][k]}
  PROVE  Shape(r)' /\ Positions(r)' = Positions(r) /\ (Compares(r)' <=> Compares(r))
<1>1. images' = images /\ bar' = bar /\ loaded' = loaded
  BY DEF jobVars
<1>2. Positions(r)' = Positions(r) /\ (Compares(r)' <=> Compares(r))
  BY <1>1 DEF Positions, Compares
<1>3. k \in Positions(r) /\ images[r][k] \in Images
  BY DEF Shape
<1>4. mutex'[r] \in Positions(r) \cup {0} /\ inputSize'[r] \in Images \cup {None}
  BY <1>3 DEF Shape
<1> QED
  BY <1>1, <1>2, <1>4 DEF Shape

\* A result is added.
LEMMA DeliveredMore ==
  ASSUME NEW r \in Requests, Shape(r), Delivered(r), NEW k \in Positions(r), worker[r][k] # "ended",
         results'[r] = Append(results[r], k), Positions(r)' = Positions(r),
         worker'[r] = [worker[r] EXCEPT ![k] = "ended"]
  PROVE  Delivered(r)'
<1>1. k \in 1..2 /\ results[r] \in Seq(1..2)
  BY DEF Shape, Delivered
<1>2. /\ results'[r] \in Seq(1..2) /\ Len(results'[r]) = Len(results[r]) + 1
      /\ \A i \in 1..Len(results[r]) : results'[r][i] = results[r][i]
      /\ results'[r][Len(results[r]) + 1] = k
  BY <1>1, AppendProperties
<1>3. worker'[r][k] = "ended" /\ \A l \in Positions(r) \ {k} : worker'[r][l] = worker[r][l]
  BY DEF Shape
<1>4. CASE Len(results[r]) = 0 /\ \A l \in Positions(r) : worker[r][l] # "ended"
  <2>1. Len(results'[r]) = 1 /\ results'[r][1] = k
    BY <1>2, <1>4
  <2> QED
    BY <1>2, <1>3, <1>4, <2>1 DEF Delivered
<1>5. CASE \E l \in Positions(r) : Len(results[r]) = 1 /\ results[r][1] = l /\ worker[r][l] = "ended"
  <2>1. PICK l \in Positions(r) : Len(results[r]) = 1 /\ results[r][1] = l /\ worker[r][l] = "ended"
    BY <1>5
  <2>2. Len(results'[r]) = 2 /\ results'[r][1] = l /\ results'[r][2] = k
    BY <1>2, <2>1
  <2> QED
    BY <1>2, <1>3, <2>1, <2>2 DEF Delivered
<1>6. ~\E j, l \in Positions(r) : j # l /\ worker[r][j] = "ended" /\ worker[r][l] = "ended"
  BY DEF Shape
<1> QED
  BY <1>4, <1>5, <1>6 DEF Delivered

(***************************************************************************)
(* The two goroutines.                                                     *)
(***************************************************************************)
\* What a step of a goroutine leaves alone.
Elsewhere(r, k) ==
  /\ UNCHANGED jobVars /\ Maps' /\ verdict' = verdict
  /\ (raced[r] => raced'[r]) /\ RacedOK(r)'
  /\ \A s \in Requests \ {r} : SameJob(s)
  /\ DOMAIN worker'[r] = DOMAIN worker[r] /\ DOMAIN mat'[r] = DOMAIN mat[r]
  /\ DOMAIN found'[r] = DOMAIN found[r] /\ DOMAIN bad'[r] = DOMAIN bad[r]
  /\ \A l \in Positions(r) \ {k} :
       /\ worker'[r][l] = worker[r][l] /\ mat'[r][l] = mat[r][l]
       /\ found'[r][l] = found[r][l] /\ bad'[r][l] = bad[r][l]

\* Either it sends no result, or it ends.
Sends(r, k) ==
  \/ worker'[r][k] # "ended" /\ worker[r][k] # "ended" /\ results'[r] = results[r]
  \/ /\ worker[r][k] # "ended" /\ worker'[r] = [worker[r] EXCEPT ![k] = "ended"]
     /\ results'[r] = Append(results[r], k)

LEMMA StepKeeps ==
  ASSUME NEW r \in Requests, NEW k \in Positions(r), JobOK(r), verdict[r] = None,
         Elsewhere(r, k), Sends(r, k),
         mutex'[r] \in {mutex[r], k, 0}, inputSize'[r] \in {inputSize[r], images[r][k]},
         \A l \in Positions(r) \ {k} :
           worker[r][l] = "detect" => mutex'[r] = mutex[r] /\ inputSize'[r] = inputSize[r],
         Picture(r, k)'
  PROVE  JobOK(r)'
<1>1. Shape(r) /\ Shape(r)' /\ Positions(r)' = Positions(r) /\ (Compares(r)' <=> Compares(r))
  BY ShapeKept DEF JobOK, Elsewhere
<1>2. images[r] # <<>>
  BY DEF Positions
<1>3. ASSUME NEW l \in Positions(r) \ {k} PROVE Picture(r, l)'
  <2>1. /\ worker'[r][l] = worker[r][l] /\ mat'[r][l] = mat[r][l] /\ found'[r][l] = found[r][l]
        /\ bad'[r][l] = bad[r][l] /\ images' = images /\ loaded' = loaded /\ verdict' = verdict
    BY DEF Elsewhere, jobVars
  <2>2. Picture(r, l)
    BY DEF JobOK
  <2>3. worker[r][l] = "detect" => mutex'[r] = mutex[r] /\ inputSize'[r] = inputSize[r]
    OBVIOUS
  <2> QED
    BY <1>1, <2>1, <2>2, <2>3 DEF Picture, Sound, Outcome, Spoilt, Elsewhere
<1>4. Delivered(r)'
  <2>1. Delivered(r)
    BY <1>2 DEF JobOK
  <2>2. CASE worker'[r][k] # "ended" /\ worker[r][k] # "ended" /\ results'[r] = results[r]
    <3>1. \A l \in Positions(r) : worker'[r][l] = "ended" <=> worker[r][l] = "ended"
      BY <2>2 DEF Elsewhere
    <3> QED
      BY <1>1, <2>1, <2>2, <3>1 DEF Delivered
  <2>3. CASE /\ worker[r][k] # "ended" /\ worker'[r] = [worker[r] EXCEPT ![k] = "ended"]
             /\ results'[r] = Append(results[r], k)
    BY <1>1, <2>1, <2>3, DeliveredMore
  <2> QED
    BY <2>2, <2>3 DEF Sends
<1>5. Equipped(r)' /\ images'[r] # <<>> /\ verdict'[r] = None /\ bar'[r] > 0 /\ RacedOK(r)'
  BY <1>1, <1>2 DEF JobOK, Equipped, Elsewhere, jobVars
<1> QED
  BY <1>1, <1>3, <1>4, <1>5 DEF JobOK

\* No step of a goroutine follows the verdict.
LEMMA NoVerdict ==
  ASSUME NEW r \in Requests, JobOK(r), NEW k \in Positions(r), worker[r][k] # "ended"
  PROVE  verdict[r] = None
BY DEF JobOK, Decided, Positions

LEMMA GotoSteps ==
  ASSUME NEW r \in Requests, Maps, Shape(r), NEW k \in Positions(r), NEW step, Goto(r, k, step)
  PROVE  /\ worker'[r] = [worker[r] EXCEPT ![k] = step] /\ worker'[r][k] = step
         /\ DOMAIN worker'[r] = DOMAIN worker[r] /\ DOMAIN worker' = Requests
         /\ \A l \in Positions(r) \ {k} : worker'[r][l] = worker[r][l]
         /\ \A s \in Requests \ {r} : worker'[s] = worker[s]
         /\ results' = results /\ bad' = bad
BY DEF Goto, Maps, Shape

\* The result of one position is sent, with an error or without.
SentIs(r, k, e) ==
  /\ worker'[r] = [worker[r] EXCEPT ![k] = "ended"] /\ worker'[r][k] = "ended"
  /\ DOMAIN worker'[r] = DOMAIN worker[r] /\ DOMAIN worker' = Requests
  /\ \A l \in Positions(r) \ {k} : worker'[r][l] = worker[r][l]
  /\ \A s \in Requests \ {r} : worker'[s] = worker[s]
  /\ results'[r] = Append(results[r], k) /\ DOMAIN results' = Requests
  /\ \A s \in Requests \ {r} : results'[s] = results[s]
  /\ bad'[r][k] = e /\ DOMAIN bad' = Requests /\ DOMAIN bad'[r] = DOMAIN bad[r]
  /\ \A l \in Positions(r) \ {k} : bad'[r][l] = bad[r][l]
  /\ \A s \in Requests \ {r} : bad'[s] = bad[s]

LEMMA SendSteps ==
  ASSUME NEW r \in Requests, Maps, Shape(r), NEW k \in Positions(r), NEW e \in BOOLEAN, Send(r, k, e)
  PROVE  SentIs(r, k, e)
BY DEF Send, Maps, Shape, SentIs

\* The picture, or the faces, of one position.
MatIs(r, k, m) ==
  /\ mat'[r][k] = m /\ DOMAIN mat'[r] = DOMAIN mat[r] /\ DOMAIN mat' = Requests
  /\ \A l \in Positions(r) \ {k} : mat'[r][l] = mat[r][l]
  /\ \A s \in Requests \ {r} : mat'[s] = mat[s]
FoundIs(r, k, n) ==
  /\ found'[r][k] = n /\ DOMAIN found'[r] = DOMAIN found[r] /\ DOMAIN found' = Requests
  /\ \A l \in Positions(r) \ {k} : found'[r][l] = found[r][l]
  /\ \A s \in Requests \ {r} : found'[s] = found[s]

LEMMA MatSteps ==
  ASSUME NEW r \in Requests, Maps, Shape(r), NEW k \in Positions(r), NEW m,
         mat' = [mat EXCEPT ![r][k] = m] \/ (mat' = mat /\ mat[r][k] = m)
  PROVE  MatIs(r, k, m)
BY DEF Maps, Shape, MatIs

LEMMA FoundSteps ==
  ASSUME NEW r \in Requests, Maps, Shape(r), NEW k \in Positions(r), NEW n,
         found' = [found EXCEPT ![r][k] = n] \/ (found' = found /\ found[r][k] = n)
  PROVE  FoundIs(r, k, n)
BY DEF Maps, Shape, FoundIs

(***************************************************************************)
(* The inductive invariant.                                                *)
(***************************************************************************)
FaceOK == Maps /\ \A r \in Requests : JobOK(r)

ApiTyped ==
  /\ keys \in [Apps -> [Envs -> 1..MaxKey]]
  /\ window \in [Apps -> [count : 0..Limit + 1, left : 0..Unlimited]]
  /\ pc \in [Requests -> Steps] /\ req \in [Requests -> Requested]
  /\ todo \in [Requests -> 0..3] /\ ctx \in [Requests -> Contexts \cup {None}]
  /\ was \in [Requests -> SUBSET (1..MaxKey)]
  /\ recent \in [Apps -> [1..Window -> Nat]] /\ busy \in [Apps -> 0..Limit + 1]
  /\ quiet \in [Apps -> 0..Window] /\ turned \subseteq 0..Limit + 1
  /\ faults \in MayFail

\* The present key of the application is good, and the last pass found the key that
\* was sent to be; there are pictures while there is a handler for them.
CallOK(r) ==
  LET q == req[r] IN
  /\ pc[r] # "idle" => /\ q.app \in Apps /\ keys[q.app][q.env] \in was[r]
                       /\ todo[r] <= Passes(q.route)
  /\ pc[r] # "idle" /\ todo[r] < Passes(q.route) =>
       q.key \in was[r] /\ ctx[r] = [app |-> q.app, sandbox |-> q.env = "sandbox"]
  /\ pc[r] = "find" => todo[r] > 0
  /\ pc[r] \in {"handler", "face"} => todo[r] = 0
  /\ images[r] # <<>> => pc[r] = "face" /\ q.env = "live"

CallsOK == \A r \in Requests : CallOK(r)

\* The counter lives as long as its application was not quiet for a window, and
\* counts no more passes than came.
CounterOK(a) ==
  /\ window[a].left = IF quiet[a] >= Window THEN 0 ELSE Window - quiet[a]
  /\ window[a].left = 0 => window[a].count = 0
  /\ window[a].left > 0 => window[a].count <= busy[a]

\* Nor fewer than were let through.
AdmittedOK(a) ==
  \A n \in 1..Window : /\ recent[a][n] <= window[a].count /\ recent[a][n] <= Limit
                       /\ n <= quiet[a] => recent[a][n] = 0

RateOK ==
  /\ "expire" \notin faults => RefusedWhenBusy /\ \A a \in Apps : CounterOK(a)
  /\ faults = {} => \A a \in Apps : AdmittedOK(a)

IInv == ApiTyped /\ FaceOK /\ CrashExplained /\ CallsOK /\ RateOK

(***************************************************************************)
(* The steps of the work on pictures.                                      *)
(***************************************************************************)
\* A step of the work of request r.
Worked(r) == Maps' /\ JobOK(r)' /\ (\A s \in Requests \ {r} : SameJob(s)) /\ UNCHANGED jobVars

\* If the process ends, a picture of the request is the reason, or a race over them.
Explained(r) == crashed' => raced'[r] \/ \E k \in Positions(r) : Ending[images[r][k]] # "sound"

\* The cascade is done with a picture, or a panic has ended its processing.
LEMMA ProcessedStep ==
  ASSUME Maps, NEW r \in Requests, JobOK(r), NEW k \in Positions(r),
         worker[r][k] \in {"process", "cascade"}, ~crashed,
         NEW left \in {"nil", "open", "lost"}, NEW n \in Nat, Processed(r, k, left, n),
         UNCHANGED <<jobVars, mutex, inputSize, raced, verdict, crashed>>,
         Ending[images[r][k]] \in {"sound", "panics"},
         left = "open" => Ending[images[r][k]] = "sound",
         Ending[images[r][k]] = "sound" => left = "open" \/ (raced[r] /\ left = "lost"),
         ~raced[r] => n = IF Ending[images[r][k]] = "sound" /\ "cascade" \in loaded[r]
                          THEN Cascade[images[r][k]] ELSE 0
  PROVE  Worked(r) /\ Explained(r)
<1> DEFINE i == images[r][k]
<1>0. /\ UNCHANGED jobVars /\ mutex' = mutex /\ inputSize' = inputSize /\ verdict' = verdict
      /\ raced' = raced /\ ~crashed /\ crashed' = crashed
  OBVIOUS
<1>1. images' = images /\ bar' = bar /\ loaded' = loaded
  BY <1>0 DEF jobVars
<1>2. /\ Shape(r) /\ Picture(r, k) /\ verdict[r] = None /\ Equipped(r) /\ images[r] # <<>>
      /\ RacedOK(r)
  <2>1. verdict[r] = None /\ images[r] # <<>>
    BY <1>0, NoVerdict DEF Positions
  <2> QED
    BY <1>0, <2>1 DEF JobOK
<1>3. i \in Images /\ Cascade[i] \in Nat
  BY <1>0, <1>2, FaceAssumption DEF Shape
<1>4. bad[r][k] = FALSE
  BY <1>0, <1>2 DEF Picture
<1>5. MatIs(r, k, left)
  <2>1. mat' = [mat EXCEPT ![r][k] = left]
    BY DEF Processed
  <2> QED
    BY <1>0, <1>2, <2>1, MatSteps
<1>6. FoundIs(r, k, n)
  <2>1. found' = [found EXCEPT ![r][k] = n]
    BY DEF Processed
  <2> QED
    BY <1>0, <1>2, <2>1, FoundSteps
<1>7. IF Compares(r) \/ "yunet" \in loaded[r] THEN Goto(r, k, "size") ELSE Send(r, k, FALSE)
  BY DEF Processed
<1>8. Positions(r)' = Positions(r) /\ (Compares(r)' <=> Compares(r))
  BY <1>1 DEF Positions, Compares
<1>9. RacedOK(r)' /\ DOMAIN raced' = Requests
  BY <1>0, <1>2, <1>8 DEF RacedOK, Maps
<1>10. mat'[r][k] = left /\ found'[r][k] = n
  BY <1>5, <1>6 DEF MatIs, FoundIs
<1>11. Sound(r, k)' /\ (mat'[r][k] = "lost" => raced'[r] \/ Ending[i] \in {"oversized", "panics"})
  BY <1>0, <1>1, <1>10 DEF Sound, Spoilt
<1>12. CASE Compares(r) \/ "yunet" \in loaded[r]
  <2>1. /\ worker'[r][k] = "size" /\ results' = results /\ bad' = bad
        /\ DOMAIN worker'[r] = DOMAIN worker[r] /\ DOMAIN worker' = Requests
        /\ \A l \in Positions(r) \ {k} : worker'[r][l] = worker[r][l]
        /\ \A s \in Requests \ {r} : worker'[s] = worker[s]
    <3>1. Goto(r, k, "size")
      BY <1>7, <1>12
    <3>2. Shape(r) /\ Maps /\ k \in Positions(r)
      BY <1>2
    <3> QED
      BY <3>1, <3>2 DEF Goto, Maps, Shape
  <2>2. Elsewhere(r, k)
    BY <1>0, <1>1, <1>5, <1>6, <1>9, <2>1 DEF Elsewhere, Maps, SameJob, MatIs, FoundIs
  <2>3. Sends(r, k)
    BY <1>0, <2>1 DEF Sends
  <2>4. Picture(r, k)'
    BY <1>0, <1>1, <1>4, <1>8, <1>10, <1>11, <1>12, <2>1 DEF Picture
  <2>5. JobOK(r)'
    BY <1>0, <1>2, <2>2, <2>3, <2>4, StepKeeps
  <2> QED
    BY <1>0, <2>2, <2>5 DEF Worked, Elsewhere, Explained
<1>13. CASE ~(Compares(r) \/ "yunet" \in loaded[r])
  <2>1. SentIs(r, k, FALSE)
    BY <1>0, <1>2, <1>7, <1>13, SendSteps
  <2>2. Elsewhere(r, k)
    BY <1>0, <1>1, <1>5, <1>6, <1>9, <2>1 DEF Elsewhere, Maps, SameJob, MatIs, FoundIs, SentIs
  <2>3. Sends(r, k)
    BY <1>0, <2>1 DEF Sends, SentIs
  <2>4. ~raced[r]
    BY <1>2, <1>13 DEF RacedOK
  <2>5. n # 0 <=> Seen(i, loaded[r])
    BY <1>3, <1>13, <2>4 DEF Seen
  <2>6. bad'[r][k] = FALSE /\ worker'[r][k] = "ended"
    BY <2>1 DEF SentIs
  <2>7. Outcome(r, k)'
    BY <1>1, <1>8, <1>10, <1>13, <2>5, <2>6 DEF Outcome
  <2>8. Picture(r, k)'
    BY <1>0, <1>1, <1>8, <1>10, <1>11, <2>6, <2>7 DEF Picture
  <2>9. JobOK(r)'
    BY <1>0, <1>2, <2>2, <2>3, <2>8, StepKeeps
  <2> QED
    BY <1>0, <2>2, <2>9 DEF Worked, Elsewhere, Explained
<1> QED
  BY <1>12, <1>13

LEMMA ProcessImageStep ==
  ASSUME Maps, NEW r \in Requests, JobOK(r), NEW k \in 1..2, ProcessImage(r, k)
  PROVE  Worked(r) /\ Explained(r)
<1> DEFINE i == images[r][k]
           besides == "cascade" \in loaded[r]
                      /\ \E l \in Positions(r) \ {k} : worker[r][l] = "cascade"
<1>0. /\ k \in Positions(r) /\ worker[r][k] = "process" /\ UNCHANGED jobVars /\ mutex' = mutex
      /\ inputSize' = inputSize /\ verdict' = verdict /\ ~crashed /\ crashed' = crashed
  BY DEF ProcessImage, At
<1>1. images' = images /\ bar' = bar /\ loaded' = loaded
  BY <1>0 DEF jobVars
<1>2. /\ Shape(r) /\ Picture(r, k) /\ verdict[r] = None /\ Equipped(r) /\ images[r] # <<>>
      /\ RacedOK(r)
  <2>1. verdict[r] = None /\ images[r] # <<>>
    BY <1>0, NoVerdict DEF Positions
  <2> QED
    BY <1>0, <2>1 DEF JobOK
<1>4. /\ mat[r][k] = "nil" /\ found[r][k] = 0 /\ bad[r][k] = FALSE
      /\ DOMAIN mat = Requests /\ DOMAIN found = Requests /\ DOMAIN raced = Requests
  BY <1>0, <1>2 DEF Picture, Maps
<1>5. \/ Ending[i] \in {"sound", "panics"} /\ Goto(r, k, "cascade") /\ UNCHANGED <<mat, found>>
         /\ raced' = [raced EXCEPT ![r] = @ \/ besides]
      \/ Ending[i] = "unreadable" /\ Send(r, k, TRUE) /\ UNCHANGED <<mat, found, raced>>
      \/ Ending[i] = "oversized" /\ Send(r, k, TRUE) /\ UNCHANGED <<found, raced>>
         /\ mat' = [mat EXCEPT ![r][k] = "lost"]
      \/ Ending[i] = "panics" /\ UNCHANGED raced
         /\ \E left \in {"nil", "lost"} : Processed(r, k, left, 0)
  BY DEF ProcessImage
<1>6. Positions(r)' = Positions(r) /\ (Compares(r)' <=> Compares(r))
  BY <1>1 DEF Positions, Compares
<1>7. CASE /\ Ending[i] \in {"sound", "panics"} /\ Goto(r, k, "cascade") /\ UNCHANGED <<mat, found>>
           /\ raced' = [raced EXCEPT ![r] = @ \/ besides]
  <2>1. /\ worker'[r][k] = "cascade" /\ results' = results /\ bad' = bad
        /\ DOMAIN worker'[r] = DOMAIN worker[r] /\ DOMAIN worker' = Requests
        /\ \A l \in Positions(r) \ {k} : worker'[r][l] = worker[r][l]
        /\ \A s \in Requests \ {r} : worker'[s] = worker[s]
    <3>1. Goto(r, k, "cascade") /\ Shape(r) /\ Maps /\ k \in Positions(r)
      BY <1>0, <1>2, <1>7
    <3> QED
      BY <3>1 DEF Goto, Maps, Shape
  <2>2. besides => Compares(r)
    <3>1. SUFFICES ASSUME besides PROVE Compares(r)
      OBVIOUS
    <3>2. PICK l \in Positions(r) \ {k} : worker[r][l] = "cascade"
      BY <3>1
    <3>3. Positions(r) = 1..Len(images[r]) /\ Len(images[r]) \in 0..2
      BY <1>2 DEF Shape
    <3>4. k \in Nat /\ l \in Nat /\ k # l /\ k >= 1 /\ l >= 1
          /\ k <= Len(images[r]) /\ l <= Len(images[r])
      BY <1>0, <3>2, <3>3
    <3> QED
      BY <3>3, <3>4 DEF Compares
  <2>3. raced[r] \in BOOLEAN /\ (raced[r] => Compares(r))
    BY <1>2 DEF RacedOK
  <2> HIDE DEF besides
  <2>4. /\ DOMAIN raced' = Requests /\ (raced'[r] <=> raced[r] \/ besides) /\ raced'[r] \in BOOLEAN
        /\ \A s \in Requests \ {r} : raced'[s] = raced[s]
    BY <1>4, <1>7
  <2>5. RacedOK(r)' /\ (raced[r] => raced'[r])
    BY <1>6, <2>2, <2>3, <2>4 DEF RacedOK
  <2>6. Elsewhere(r, k) /\ Sends(r, k)
    BY <1>0, <1>1, <1>7, <2>1, <2>4, <2>5 DEF Elsewhere, Maps, SameJob, Sends
  <2>7. Picture(r, k)'
    BY <1>1, <1>2, <1>4, <1>7, <2>1 DEF Picture
  <2>8. JobOK(r)'
    BY <1>0, <1>2, <2>6, <2>7, StepKeeps
  <2> QED
    BY <1>0, <2>6, <2>8 DEF Worked, Elsewhere, Explained
<1>8. CASE \/ Ending[i] = "unreadable" /\ Send(r, k, TRUE) /\ UNCHANGED <<mat, found, raced>>
           \/ Ending[i] = "oversized" /\ Send(r, k, TRUE) /\ UNCHANGED <<found, raced>>
              /\ mat' = [mat EXCEPT ![r][k] = "lost"]
  <2>1. SentIs(r, k, TRUE)
    BY <1>0, <1>2, <1>8, SendSteps
  <2>2. Ending[i] \in {"unreadable", "oversized"} /\ raced' = raced
    BY <1>8
  <2>3. FoundIs(r, k, 0)
    BY <1>0, <1>2, <1>4, <1>8, FoundSteps
  <2>4. PICK m \in {"nil", "lost"} : MatIs(r, k, m) /\ (m = "lost" => Ending[i] = "oversized")
    <3>1. CASE mat' = mat
      <4>1. MatIs(r, k, "nil")
        BY <1>0, <1>2, <1>4, <3>1, MatSteps
      <4> QED
        BY <4>1
    <3>2. CASE Ending[i] = "oversized" /\ mat' = [mat EXCEPT ![r][k] = "lost"]
      <4>1. MatIs(r, k, "lost")
        BY <1>0, <1>2, <3>2, MatSteps
      <4> QED
        BY <3>2, <4>1
    <3> QED
      BY <1>8, <3>1, <3>2
  <2>5. RacedOK(r)' /\ DOMAIN raced' = Requests
    BY <1>2, <1>4, <1>6, <2>2 DEF RacedOK
  <2>6. Elsewhere(r, k)
    BY <1>0, <1>1, <2>1, <2>2, <2>3, <2>4, <2>5 DEF Elsewhere, Maps, SameJob, MatIs, FoundIs, SentIs
  <2>7. Sends(r, k)
    BY <1>0, <2>1 DEF Sends, SentIs
  <2>8. Picture(r, k)'
    <3>1. mat'[r][k] = m /\ found'[r][k] = 0 /\ bad'[r][k] = TRUE /\ worker'[r][k] = "ended"
      BY <2>1, <2>3, <2>4 DEF MatIs, FoundIs, SentIs
    <3>2. Sound(r, k)' /\ Outcome(r, k)'
      BY <1>1, <1>6, <2>2, <3>1 DEF Sound, Outcome
    <3>3. mat'[r][k] \in {"nil", "lost"} /\ (mat'[r][k] = "lost" => Ending[images'[r][k]] = "oversized")
      BY <1>1, <2>4, <3>1
    <3>4. found'[r][k] \in Nat /\ bad'[r][k] \in BOOLEAN
      <4>1. found'[r][k] \in Nat
        BY <3>1
      <4>2. bad'[r][k] \in BOOLEAN
        BY <3>1, Zenon
      <4> QED
        BY <4>1, <4>2
    <3> QED
      BY <3>1, <3>2, <3>3, <3>4 DEF Picture
  <2>9. JobOK(r)'
    BY <1>0, <1>2, <2>6, <2>7, <2>8, StepKeeps
  <2> QED
    BY <1>0, <2>6, <2>9 DEF Worked, Elsewhere, Explained
<1>9. CASE /\ Ending[i] = "panics" /\ UNCHANGED raced
           /\ \E left \in {"nil", "lost"} : Processed(r, k, left, 0)
  <2>1. PICK left \in {"nil", "lost"} : Processed(r, k, left, 0)
    BY <1>9
  <2>2. left \in {"nil", "open", "lost"} /\ left # "open" /\ 0 \in Nat /\ Ending[i] # "sound"
        /\ Ending[i] \in {"sound", "panics"} /\ worker[r][k] \in {"process", "cascade"}
    BY <1>0, <1>9, <2>1
  <2>3. UNCHANGED <<jobVars, mutex, inputSize, raced, verdict, crashed>>
    BY <1>0, <1>9
  <2> QED
    BY <1>0, <2>1, <2>2, <2>3, ProcessedStep
<1> QED
  BY <1>5, <1>7, <1>8, <1>9

LEMMA EnhancedFaceDetectionStep ==
  ASSUME Maps, NEW r \in Requests, JobOK(r), NEW k \in 1..2, EnhancedFaceDetection(r, k)
  PROVE  Worked(r) /\ Explained(r)
<1> DEFINE i == images[r][k]
           seen == IF "cascade" \in loaded[r] THEN Cascade[i] ELSE 0
           counts == IF raced[r] THEN 0..seen + 1 ELSE {seen}
<1>0. /\ k \in Positions(r) /\ worker[r][k] = "cascade" /\ ~crashed
      /\ UNCHANGED <<jobVars, mutex, inputSize, raced, verdict>>
  BY DEF EnhancedFaceDetection, At
<1>1. \/ Ending[i] = "sound" /\ UNCHANGED crashed /\ \E n \in counts : Processed(r, k, "open", n)
      \/ (Ending[i] = "panics" \/ raced[r]) /\ Processed(r, k, "lost", 0) /\ UNCHANGED crashed
      \/ raced[r] /\ crashed' = TRUE /\ UNCHANGED <<worker, mat, found, bad, results>>
  BY DEF EnhancedFaceDetection
<1>2. /\ Ending[i] \in {"sound", "panics"} /\ worker[r][k] \in {"process", "cascade"}
      /\ Shape(r) /\ RacedOK(r)
  BY <1>0 DEF JobOK, Picture
<1>3. seen \in Nat
  <2>1. i \in Images
    BY <1>0, <1>2 DEF Shape
  <2> QED
    BY <2>1, FaceAssumption
<1>4. CASE Ending[i] = "sound" /\ UNCHANGED crashed /\ \E n \in counts : Processed(r, k, "open", n)
  <2> HIDE DEF seen
  <2>1. PICK n \in counts : Processed(r, k, "open", n)
    BY <1>4
  <2>2. n \in Nat /\ (~raced[r] => n = seen)
    BY <1>3, <2>1
  <2>3. ~raced[r] => n = IF Ending[i] = "sound" /\ "cascade" \in loaded[r] THEN Cascade[i] ELSE 0
    BY <1>4, <2>2 DEF seen
  <2>4. UNCHANGED <<jobVars, mutex, inputSize, raced, verdict, crashed>>
    BY <1>0, <1>4
  <2> QED
    BY <1>0, <1>2, <1>4, <2>1, <2>2, <2>3, <2>4, ProcessedStep
<1>5. CASE (Ending[i] = "panics" \/ raced[r]) /\ Processed(r, k, "lost", 0) /\ UNCHANGED crashed
  <2>1. UNCHANGED <<jobVars, mutex, inputSize, raced, verdict, crashed>>
    BY <1>0, <1>5
  <2>2. /\ ~raced[r] => Ending[i] # "sound"
        /\ Ending[i] = "sound" => raced[r]
    BY <1>5
  <2>3. ~raced[r] => 0 = IF Ending[i] = "sound" /\ "cascade" \in loaded[r] THEN Cascade[i] ELSE 0
    BY <2>2
  <2>4. 0 \in Nat /\ "lost" \in {"nil", "open", "lost"} /\ "lost" # "open"
    OBVIOUS
  <2> QED
    BY <1>0, <1>2, <1>5, <2>1, <2>2, <2>3, <2>4, ProcessedStep
<1>6. CASE raced[r] /\ crashed' = TRUE /\ UNCHANGED <<worker, mat, found, bad, results>>
  <2>1. \A s \in Requests : SameJob(s)
    BY <1>0, <1>6 DEF SameJob, jobVars
  <2>2. Maps'
    BY <1>0, <1>6 DEF Maps, jobVars
  <2>3. raced'[r]
    BY <1>0, <1>6
  <2> QED
    BY <1>0, <2>1, <2>2, <2>3, SameKept DEF Worked, Explained
<1> QED
  BY <1>1, <1>4, <1>5, <1>6

LEMMA SetInputSizeStep ==
  ASSUME Maps, NEW r \in Requests, JobOK(r), NEW k \in 1..2, SetInputSize(r, k)
  PROVE  Worked(r) /\ Explained(r)
<1>0. /\ k \in Positions(r) /\ worker[r][k] = "size" /\ UNCHANGED jobVars /\ mutex[r] = 0
      /\ "yunet" \in loaded[r] /\ mat' = mat /\ found' = found /\ verdict' = verdict /\ ~crashed
      /\ raced' = raced
  BY DEF SetInputSize, At
<1>1. images' = images /\ bar' = bar /\ loaded' = loaded
  BY <1>0 DEF jobVars
<1>2. Shape(r) /\ Picture(r, k) /\ verdict[r] = None /\ RacedOK(r)
  <2>1. verdict[r] = None
    BY <1>0, NoVerdict
  <2> QED
    BY <1>0, <2>1 DEF JobOK
<1>r. RacedOK(r)' /\ (raced[r] => raced'[r]) /\ DOMAIN raced' = Requests
  BY <1>0, <1>1, <1>2 DEF RacedOK, Compares, Maps
<1>3. CASE /\ mat[r][k] # "open" /\ crashed' = TRUE
           /\ UNCHANGED <<worker, results, bad, mutex, inputSize>>
  <2>1. \A s \in Requests : SameJob(s)
    BY <1>0, <1>1, <1>3 DEF SameJob
  <2>2. Maps'
    BY <1>0, <1>1, <1>3 DEF Maps
  <2>3. Ending[images[r][k]] # "sound" \/ raced'[r]
    BY <1>0, <1>2, <1>3 DEF Picture, Sound, Spoilt
  <2> QED
    BY <1>0, <2>1, <2>2, <2>3, SameKept DEF Worked, Explained
<1>4. CASE /\ mutex' = [mutex EXCEPT ![r] = k]
           /\ inputSize' = [inputSize EXCEPT ![r] = images[r][k]]
           /\ Goto(r, k, "detect") /\ UNCHANGED crashed
  <2>1. /\ worker'[r][k] = "detect" /\ results' = results /\ bad' = bad
        /\ DOMAIN worker'[r] = DOMAIN worker[r] /\ DOMAIN worker' = Requests
        /\ \A l \in Positions(r) \ {k} : worker'[r][l] = worker[r][l]
        /\ \A s \in Requests \ {r} : worker'[s] = worker[s]
    BY <1>0, <1>2, <1>4, GotoSteps
  <2>2. /\ mutex'[r] = k /\ inputSize'[r] = images[r][k] /\ DOMAIN mutex' = Requests
        /\ DOMAIN inputSize' = Requests
        /\ \A s \in Requests \ {r} : mutex'[s] = mutex[s] /\ inputSize'[s] = inputSize[s]
    BY <1>4 DEF Maps
  <2>3. Elsewhere(r, k) /\ Sends(r, k)
    BY <1>0, <1>1, <1>r, <1>4, <2>1, <2>2 DEF Elsewhere, Sends, Maps, SameJob
  <2>4. Picture(r, k)'
    BY <1>0, <1>1, <1>2, <2>1, <2>2 DEF Picture, Sound, Compares, Spoilt
  <2>5. \A l \in Positions(r) \ {k} : worker[r][l] # "detect"
    BY <1>0 DEF JobOK, Picture, Shape
  <2>6. JobOK(r)'
    BY <1>0, <1>2, <2>2, <2>3, <2>4, <2>5, StepKeeps
  <2> QED
    BY <1>0, <1>4, <2>3, <2>6 DEF Worked, Elsewhere, Explained
<1> QED
  BY <1>3, <1>4 DEF SetInputSize

LEMMA NoDetectorStep ==
  ASSUME Maps, NEW r \in Requests, JobOK(r), NEW k \in 1..2, NoDetector(r, k)
  PROVE  Worked(r) /\ Explained(r)
<1>0. /\ k \in Positions(r) /\ worker[r][k] = "size" /\ UNCHANGED jobVars /\ "yunet" \notin loaded[r]
      /\ mat' = mat /\ found' = found /\ mutex' = mutex /\ inputSize' = inputSize
      /\ verdict' = verdict /\ ~crashed /\ crashed' = crashed /\ Send(r, k, TRUE) /\ raced' = raced
  BY DEF NoDetector, At
<1>1. images' = images /\ bar' = bar /\ loaded' = loaded
  BY <1>0 DEF jobVars
<1>2. Shape(r) /\ Picture(r, k) /\ verdict[r] = None /\ RacedOK(r)
  <2>1. verdict[r] = None
    BY <1>0, NoVerdict
  <2> QED
    BY <1>0, <2>1 DEF JobOK
<1>r. RacedOK(r)' /\ (raced[r] => raced'[r]) /\ DOMAIN raced' = Requests
  BY <1>0, <1>1, <1>2 DEF RacedOK, Compares, Maps
<1>3. SentIs(r, k, TRUE)
  BY <1>0, <1>2, SendSteps
<1>4. Elsewhere(r, k) /\ Sends(r, k)
  BY <1>0, <1>1, <1>r, <1>3 DEF Elsewhere, Sends, Maps, SameJob, SentIs
<1>5. Picture(r, k)'
  <2>1. bad'[r][k] = TRUE /\ worker'[r][k] = "ended"
    BY <1>3 DEF SentIs
  <2>2. Sound(r, k)' /\ Outcome(r, k)' /\ Ending[images[r][k]] \in {"sound", "panics"}
    BY <1>0, <1>1, <1>2, <2>1 DEF Picture, Sound, Outcome, Compares, Spoilt
  <2> QED
    BY <1>0, <1>1, <1>2, <2>1, <2>2 DEF Picture
<1>6. JobOK(r)'
  BY <1>0, <1>2, <1>4, <1>5, StepKeeps
<1> QED
  BY <1>0, <1>4, <1>6 DEF Worked, Elsewhere, Explained

LEMMA DetectStep ==
  ASSUME Maps, NEW r \in Requests, JobOK(r), NEW k \in 1..2, Detect(r, k)
  PROVE  Worked(r) /\ Explained(r)
<1> DEFINE sees == mat[r][k] = "open" /\ inputSize[r] = images[r][k]
           n == IF sees THEN Faces[images[r][k]] ELSE 0
<1>0. /\ k \in Positions(r) /\ worker[r][k] = "detect" /\ UNCHANGED jobVars
      /\ found' = [found EXCEPT ![r][k] = n] /\ mat' = mat /\ inputSize' = inputSize
      /\ mutex' = [mutex EXCEPT ![r] = 0]
      /\ verdict' = verdict /\ ~crashed /\ crashed' = crashed /\ Send(r, k, FALSE) /\ raced' = raced
  BY DEF Detect, At
<1>1. images' = images /\ bar' = bar /\ loaded' = loaded
  BY <1>0 DEF jobVars
<1>2. Shape(r) /\ Picture(r, k) /\ verdict[r] = None /\ RacedOK(r)
  <2>1. verdict[r] = None
    BY <1>0, NoVerdict
  <2> QED
    BY <1>0, <2>1 DEF JobOK
<1>r. RacedOK(r)' /\ (raced[r] => raced'[r]) /\ DOMAIN raced' = Requests
  BY <1>0, <1>1, <1>2 DEF RacedOK, Compares, Maps
<1>3. SentIs(r, k, FALSE)
  BY <1>0, <1>2, SendSteps
<1>4. /\ Faces[images[r][k]] \in Nat /\ "yunet" \in loaded[r] /\ mutex[r] = k
      /\ inputSize[r] = images[r][k]
      /\ Ending[images[r][k]] \in {"sound", "panics"} /\ Sound(r, k)
  BY <1>0, <1>2, FaceAssumption DEF Shape, Picture
<1>5. /\ n \in Nat /\ (n # 0 => Seen(images[r][k], loaded[r]))
      /\ Seen(images[r][k], loaded[r]) => n # 0 \/ Spoilt(r, k)
  BY <1>4 DEF Seen, Sound
<1> HIDE DEF n
<1>6. FoundIs(r, k, n)
  BY <1>0, <1>2, FoundSteps
<1>7. /\ mutex'[r] = 0 /\ DOMAIN mutex' = Requests
      /\ \A s \in Requests \ {r} : mutex'[s] = mutex[s]
  BY <1>0 DEF Maps
<1>8. Elsewhere(r, k) /\ Sends(r, k)
  BY <1>0, <1>1, <1>r, <1>3, <1>6, <1>7 DEF Elsewhere, Sends, Maps, SameJob, SentIs, FoundIs
<1>9. Picture(r, k)'
  <2>1. bad'[r][k] = FALSE /\ worker'[r][k] = "ended" /\ found'[r][k] = n
    BY <1>3, <1>6 DEF SentIs, FoundIs
  <2>2. Sound(r, k)' /\ Outcome(r, k)'
    BY <1>0, <1>1, <1>4, <1>5, <2>1 DEF Sound, Outcome, Compares, Spoilt
  <2> QED
    BY <1>0, <1>1, <1>2, <1>5, <2>1, <2>2 DEF Picture
<1>10. \A l \in Positions(r) \ {k} : worker[r][l] # "detect"
  BY <1>4 DEF JobOK, Picture
<1>11. JobOK(r)'
  BY <1>0, <1>2, <1>7, <1>8, <1>9, <1>10, StepKeeps
<1> QED
  BY <1>0, <1>8, <1>11 DEF Worked, Elsewhere, Explained

LEMMA AllEnded ==
  ASSUME NEW r \in Requests, JobOK(r), Ready(r)
  PROVE  /\ \A k \in Positions(r) : worker[r][k] = "ended" /\ Sound(r, k) /\ Outcome(r, k)
         /\ Compares(r) => /\ Positions(r) = {1, 2}
                           /\ <<results[r][1], results[r][2]>> \in {<<1, 2>>, <<2, 1>>}
         /\ ~Compares(r) => Positions(r) = {1}
<1>1. /\ Shape(r) /\ Delivered(r) /\ \A k \in Positions(r) : Picture(r, k)
      /\ verdict[r] = None /\ Len(results[r]) = Len(images[r]) /\ images[r] # <<>>
  BY DEF JobOK, Ready
<1>2. Len(images[r]) \in {1, 2} /\ Positions(r) = 1..Len(images[r])
  <2>1. Len(images[r]) # 0
    <3>1. SUFFICES ASSUME Len(images[r]) = 0 PROVE FALSE
      OBVIOUS
    <3>2. Positions(r) = {}
      BY <1>1, <3>1 DEF Shape
    <3>3. PICK n \in 0..2 : images[r] \in [1..n -> Images]
      BY <1>1 DEF Shape
    <3>4. images[r] \in Seq(Images)
      BY <3>3
    <3> QED
      BY <1>1, <3>1, <3>4, EmptySeq
  <2> QED
    BY <1>1, <2>1 DEF Shape
<1>3. CASE Len(images[r]) = 1
  <2>1. Positions(r) = {1} /\ ~Compares(r)
    BY <1>2, <1>3 DEF Compares
  <2>2. \A k \in Positions(r) : worker[r][k] = "ended"
    BY <1>1, <1>3, <2>1 DEF Delivered
  <2> QED
    BY <1>1, <2>1, <2>2 DEF Picture
<1>4. CASE Len(images[r]) = 2
  <2>1. Positions(r) = {1, 2} /\ Compares(r)
    BY <1>2, <1>4 DEF Compares
  <2>2. PICK k, l \in Positions(r) :
          /\ k # l /\ results[r][1] = k /\ results[r][2] = l
          /\ worker[r][k] = "ended" /\ worker[r][l] = "ended"
    BY <1>1, <1>4 DEF Delivered
  <2>3. <<k, l>> \in {<<1, 2>>, <<2, 1>>} /\ \A m \in Positions(r) : worker[r][m] = "ended"
    BY <2>1, <2>2
  <2> QED
    BY <1>1, <2>1, <2>2, <2>3 DEF Picture
<1> QED
  BY <1>2, <1>3, <1>4

LEMMA VerdictStep ==
  ASSUME Maps, NEW r \in Requests, JobOK(r), Ready(r), NEW v \in BOOLEAN, Verdict(r, v),
         v => Expected(images[r], bar[r], loaded[r]),
         Expected(images[r], bar[r], loaded[r]) => v \/ \E k \in Positions(r) : Spoilt(r, k)
  PROVE  Worked(r) /\ Explained(r)
<1>1. /\ UNCHANGED <<jobVars, worker, found, bad, mutex, inputSize, raced, results, crashed>>
      /\ verdict' = [verdict EXCEPT ![r] = v] /\ ~crashed /\ images[r] # <<>>
  BY DEF Verdict, Ready
<1>2. images' = images /\ bar' = bar /\ loaded' = loaded
  BY <1>1 DEF jobVars
<1>3. Shape(r) /\ (\A k \in Positions(r) : Picture(r, k)) /\ bar[r] > 0
  BY <1>1 DEF JobOK
<1>4. \A k \in Positions(r) : worker[r][k] = "ended"
  BY AllEnded
<1>5. /\ DOMAIN mat' = Requests /\ \A s \in Requests \ {r} : mat'[s] = mat[s]
      /\ DOMAIN mat'[r] = Positions(r)
      /\ \A k \in Positions(r) : mat'[r][k] = IF mat[r][k] = "open" THEN "closed" ELSE mat[r][k]
  BY DEF Verdict, Closed, Maps
<1>6. /\ DOMAIN verdict' = Requests /\ verdict'[r] = v /\ v # None
      /\ \A s \in Requests \ {r} : verdict'[s] = verdict[s]
  BY <1>1, FaceAssumption DEF Maps
<1>7. Maps' /\ \A s \in Requests \ {r} : SameJob(s)
  BY <1>1, <1>2, <1>5, <1>6 DEF Maps, SameJob
<1>8. Positions(r)' = Positions(r)
  BY <1>2 DEF Positions
<1>9. Shape(r)'
  <2>1. /\ worker' = worker /\ found' = found /\ bad' = bad
        /\ mutex' = mutex /\ inputSize' = inputSize
    BY <1>1
  <2>2. DOMAIN mat'[r] = Positions(r) /\ verdict'[r] \in Bools \cup {None}
    BY <1>5, <1>6 DEF Bools
  <2> QED
    BY <1>2, <1>3, <1>8, <2>1, <2>2 DEF Shape
<1>10. ASSUME NEW k \in Positions(r) PROVE Picture(r, k)'
  BY <1>1, <1>2, <1>3, <1>4, <1>5, <1>6 DEF Picture
<1>r. RacedOK(r)'
  BY <1>1, <1>2 DEF JobOK, RacedOK, Compares
<1>11. Decided(r)'
  <2>1. verdict'[r] = TRUE => Expected(images'[r], bar'[r], loaded'[r])
    BY <1>2, <1>6
  <2>2. ASSUME NEW k \in Positions(r), Spoilt(r, k) PROVE Spoilt(r, k)'
    BY <1>1, <1>5, <2>2 DEF Spoilt
  <2>3. Expected(images'[r], bar'[r], loaded'[r]) =>
          verdict'[r] = TRUE \/ \E k \in Positions(r)' : Spoilt(r, k)'
    BY <1>2, <1>6, <1>8, <2>2
  <2> QED
    BY <1>1, <1>4, <1>5, <1>8, <2>1, <2>3 DEF Decided
<1>12. JobOK(r)'
  BY <1>r, <1>1, <1>2, <1>3, <1>6, <1>8, <1>9, <1>10, <1>11 DEF JobOK
<1> QED
  BY <1>1, <1>7, <1>12 DEF Worked, Explained

\* The confidence of two pictures does not depend on which is the first.
LEMMA ConfidenceSym ==
  ASSUME NEW i \in Images, NEW j \in Images
  PROVE  Confidence(i, j) = Confidence(j, i) /\ Confidence(i, j) \in Int
<1>1. /\ Similarity[<<i, j>>] \in Int /\ Similarity[<<i, j>>] = Similarity[<<j, i>>]
      /\ Quality[i] \in Int /\ Quality[j] \in Int
  BY FaceAssumption
<1> DEFINE x == Similarity[<<i, j>>]  y == Similarity[<<j, i>>]  p == Quality[i]  q == Quality[j]
<1>2. x \in Int /\ x = y /\ p \in Int /\ q \in Int
  BY <1>1
<1> HIDE DEF x, y, p, q
<1>3. 10 * x + p + q - 100 = 10 * y + q + p - 100 /\ 10 * x + p + q - 100 \in Int
  BY <1>2
<1>4. Between(10 * x + p + q - 100) \in Int
  BY <1>3 DEF Between
<1> QED
  BY <1>3, <1>4 DEF Confidence, x, y, p, q

\* Whatever the decision was before.
LEMMA DecideIs ==
  ASSUME NEW decision, NEW value \in Int, NEW threshold \in Int
  PROVE  /\ Decide(decision, value, threshold) \in BOOLEAN
         /\ Decide(decision, value, threshold) <=> value >= threshold
<1>1. CASE value >= threshold
  BY <1>1 DEF Decide
<1>2. CASE value < threshold
  BY <1>2 DEF Decide
<1> QED
  BY <1>1, <1>2

LEMMA CompareFacesStep ==
  ASSUME Maps, NEW r \in Requests, JobOK(r), CompareFaces(r)
  PROVE  Worked(r) /\ Explained(r)
<1> DEFINE first == results[r][1]  second == results[r][2]
           i == images[r][first]   j == images[r][second]
           n == found[r][first]    m == found[r][second]
           failed == bad[r][first] \/ bad[r][second] \/ n = 0 \/ m = 0
           v == IF failed THEN Decide(FALSE, 0, bar[r])
                          ELSE Decide(ServiceMatch(i, j, n, m), Confidence(i, j), bar[r])
<1>1. /\ Ready(r) /\ Compares(r)
      /\ \/ AsksNil(r) /\ crashed' = TRUE
            /\ UNCHANGED <<jobVars, worker, mat, found, bad, mutex, inputSize, raced, results, verdict>>
         \/ Verdict(r, v)
  BY DEF CompareFaces
<1>2. /\ Positions(r) = {1, 2} /\ <<first, second>> \in {<<1, 2>>, <<2, 1>>}
      /\ \A k \in Positions(r) : worker[r][k] = "ended" /\ Sound(r, k) /\ Outcome(r, k)
  BY <1>1, AllEnded
<1>3. Shape(r) /\ Equipped(r) /\ bar[r] > 0 /\ bar[r] \in 0..1000 /\ Len(images[r]) = 2
  BY <1>1 DEF JobOK, Ready, Shape, Compares
<1>4. CASE /\ AsksNil(r) /\ crashed' = TRUE
           /\ UNCHANGED <<jobVars, worker, mat, found, bad, mutex, inputSize, raced, results, verdict>>
  <2>1. \A s \in Requests : SameJob(s)
    BY <1>4 DEF SameJob, jobVars
  <2>2. Maps'
    BY <1>4 DEF Maps, jobVars
  <2>3. \E k \in Positions(r) : mat[r][k] # "open"
    BY <1>2, <1>4 DEF AsksNil
  <2>4. raced'[r] \/ \E k \in Positions(r) : Ending[images[r][k]] # "sound"
    BY <1>2, <1>4, <2>3 DEF Sound, Spoilt
  <2> QED
    BY <1>4, <2>1, <2>2, <2>4, SameKept DEF Worked, Explained
<1>5. CASE Verdict(r, v)
  <2>1. i \in Images /\ j \in Images
    BY <1>2, <1>3 DEF Shape
  <2> DEFINE spoilt == \E k \in Positions(r) : Spoilt(r, k)
  <2>2. /\ ~failed => "yunet" \in loaded[r] /\ Seen(i, loaded[r]) /\ Seen(j, loaded[r])
        /\ failed => spoilt \/ ~("yunet" \in loaded[r] /\ Seen(i, loaded[r]) /\ Seen(j, loaded[r]))
    <3>1. Outcome(r, first) /\ Outcome(r, second)
      BY <1>2
    <3>2. bad[r][first] => "yunet" \notin loaded[r] \/ ~Seen(i, loaded[r])
      BY <3>1 DEF Outcome, Seen
    <3>3. bad[r][second] => "yunet" \notin loaded[r] \/ ~Seen(j, loaded[r])
      BY <3>1 DEF Outcome, Seen
    <3>4. "yunet" \notin loaded[r] => bad[r][first]
      BY <1>1, <3>1 DEF Outcome
    <3>5. first \in Positions(r) /\ second \in Positions(r)
      BY <1>2
    <3> QED
      BY <3>1, <3>2, <3>3, <3>4, <3>5 DEF Outcome
  <2>3. Expected(images[r], bar[r], loaded[r]) <=>
          /\ "yunet" \in loaded[r] /\ Seen(i, loaded[r]) /\ Seen(j, loaded[r])
          /\ Confidence(i, j) >= bar[r]
    <3>1. "arcface" \in loaded[r]
      BY <1>1, <1>3 DEF Equipped
    <3>2. Expected(images[r], bar[r], loaded[r]) <=>
            /\ "yunet" \in loaded[r] /\ Seen(images[r][1], loaded[r]) /\ Seen(images[r][2], loaded[r])
            /\ Confidence(images[r][2], images[r][1]) >= bar[r]
      BY <1>3, <3>1 DEF Expected
    <3>3. Confidence(i, j) = Confidence(j, i)
      BY <2>1, ConfidenceSym
    <3> QED
      BY <1>2, <3>2, <3>3
  <2>4. Confidence(i, j) \in Int
    BY <2>1, ConfidenceSym
  <2> HIDE DEF spoilt
  <2>5. /\ ~failed => (Expected(images[r], bar[r], loaded[r]) <=> Confidence(i, j) >= bar[r])
        /\ failed => ~Expected(images[r], bar[r], loaded[r]) \/ spoilt
    BY <2>2, <2>3
  <2>6. Confidence(i, j) \in Int /\ bar[r] \in Int /\ ~(0 >= bar[r])
    <3> DEFINE b == bar[r]
    <3>1. b > 0 /\ b \in 0..1000
      BY <1>3
    <3> HIDE DEF b
    <3>2. b \in Int /\ ~(0 >= b)
      BY <3>1
    <3> QED
      BY <2>4, <3>2 DEF b
  <2>7. /\ v \in BOOLEAN /\ (v => Expected(images[r], bar[r], loaded[r]))
        /\ Expected(images[r], bar[r], loaded[r]) => v \/ spoilt
    <3> HIDE DEF failed
    <3>1. CASE failed
      <4>1. v = FALSE
        BY <2>6, <3>1 DEF Decide
      <4> HIDE DEF v
      <4> QED
        BY <2>5, <3>1, <4>1
    <3>2. CASE ~failed
      <4> DEFINE d == ServiceMatch(i, j, n, m)  c == Confidence(i, j)
      <4>1. v = Decide(d, c, bar[r])
        BY <3>2
      <4>2. c \in Int /\ bar[r] \in Int /\ (Expected(images[r], bar[r], loaded[r]) <=> c >= bar[r])
        BY <2>5, <2>6, <3>2
      <4> HIDE DEF v, c, d
      <4> QED
        BY <4>1, <4>2, DecideIs
    <3> QED
      BY <3>1, <3>2
  <2> HIDE DEF v
  <2> QED
    BY <1>1, <1>5, <2>7, VerdictStep DEF spoilt
<1> QED
  BY <1>1, <1>4, <1>5

LEMMA ImageLivenessCheckStep ==
  ASSUME Maps, NEW r \in Requests, JobOK(r), ImageLivenessCheck(r)
  PROVE  Worked(r) /\ Explained(r)
<1> DEFINE i == images[r][1]
           score == IF bad[r][1] \/ found[r][1] = 0 THEN 0 ELSE 10 * Score[i]
           v == Decide(score > 495, score, bar[r])
<1>1. Ready(r) /\ ~Compares(r) /\ Verdict(r, v)
  BY DEF ImageLivenessCheck
<1>2. Positions(r) = {1} /\ Outcome(r, 1)
  BY <1>1, AllEnded
<1>3. Shape(r) /\ bar[r] > 0 /\ bar[r] \in 0..1000 /\ Len(images[r]) # 2 /\ ~Spoilt(r, 1)
  BY <1>1 DEF JobOK, Ready, Shape, Compares, RacedOK, Spoilt
<1>4. i \in Images /\ Score[i] \in 0..100
  <2>1. i \in Images
    BY <1>2, <1>3 DEF Shape
  <2> QED
    BY <2>1, FaceAssumption
<1>5. (bad[r][1] \/ found[r][1] = 0) <=> ~Seen(i, loaded[r])
  BY <1>1, <1>2, <1>3 DEF Outcome, Seen
<1>6. Expected(images[r], bar[r], loaded[r]) <=> Seen(i, loaded[r]) /\ 10 * Score[i] >= bar[r]
  BY <1>3 DEF Expected
<1>7. v \in BOOLEAN /\ (v <=> Expected(images[r], bar[r], loaded[r]))
  <2> DEFINE d == score > 495
  <2>0. bar[r] \in 1..1000
    BY <1>3
  <2>1. v = Decide(d, score, bar[r]) /\ score \in Int /\ bar[r] \in Int
    <3>1. score \in Int
      <4>1. 0 \in Int /\ 10 * Score[i] \in Int
        BY <1>4
      <4> QED
        BY <4>1
    <3>2. v = Decide(d, score, bar[r])
      OBVIOUS
    <3> QED
      BY <2>0, <3>1, <3>2
  <2>2. Expected(images[r], bar[r], loaded[r]) <=> score >= bar[r]
    <3>1. score = IF Seen(i, loaded[r]) THEN 10 * Score[i] ELSE 0
      BY <1>5
    <3> HIDE DEF score
    <3>2. ~(0 >= bar[r])
      BY <2>0
    <3> QED
      BY <1>6, <3>1, <3>2
  <2> HIDE DEF v, score, d
  <2> QED
    BY <2>1, <2>2, DecideIs
<1> HIDE DEF v
<1> QED
  BY <1>1, <1>7, VerdictStep

LEMMA WorkStep ==
  ASSUME FaceOK, CrashExplained, NEW r \in Requests, Work(r)
  PROVE  FaceOK' /\ CrashExplained' /\ images' = images
<1>1. Maps /\ JobOK(r)
  BY DEF FaceOK
<1>2. Worked(r) /\ Explained(r)
  <2>1. CASE \E k \in 1..2 : ProcessImage(r, k)
    BY <1>1, <2>1, ProcessImageStep
  <2>7. CASE \E k \in 1..2 : EnhancedFaceDetection(r, k)
    BY <1>1, <2>7, EnhancedFaceDetectionStep
  <2>2. CASE \E k \in 1..2 : SetInputSize(r, k)
    BY <1>1, <2>2, SetInputSizeStep
  <2>3. CASE \E k \in 1..2 : NoDetector(r, k)
    BY <1>1, <2>3, NoDetectorStep
  <2>4. CASE \E k \in 1..2 : Detect(r, k)
    BY <1>1, <2>4, DetectStep
  <2>5. CASE CompareFaces(r)
    BY <1>1, <2>5, CompareFacesStep
  <2>6. CASE ImageLivenessCheck(r)
    BY <1>1, <2>6, ImageLivenessCheckStep
  <2> QED
    BY <2>1, <2>2, <2>3, <2>4, <2>5, <2>6, <2>7 DEF Work
<1>3. \A s \in Requests \ {r} : JobOK(s)'
  BY <1>2, SameKept DEF FaceOK, Worked
<1>4. images' = images
  BY <1>2 DEF Worked, jobVars
<1>5. CrashExplained'
  BY <1>2, <1>4 DEF Explained, CrashExplained, Positions
<1> QED
  BY <1>2, <1>3, <1>4, <1>5 DEF FaceOK, Worked

\* A request without pictures.
Cleared(r) ==
  /\ images[r] = <<>> /\ bar[r] = 0 /\ loaded[r] = {} /\ worker[r] = <<>> /\ mat[r] = <<>>
  /\ found[r] = <<>> /\ bad[r] = <<>> /\ mutex[r] = 0 /\ inputSize[r] = None
  /\ results[r] = <<>> /\ verdict[r] = None /\ raced[r] = FALSE

LEMMA NoPositions ==
  /\ DOMAIN <<>> = {} /\ Len(<<>>) = 0 /\ 1..0 = {}
  /\ <<>> \in UNION {[1..n -> Images] : n \in 0..2}
<1>1. DOMAIN <<>> = {} /\ Len(<<>>) = 0 /\ 1..0 = {}
  OBVIOUS
<1>2. <<>> \in [1..0 -> Images]
  OBVIOUS
<1> QED
  BY <1>1, <1>2

LEMMA ClearedOK ==
  ASSUME NEW r \in Requests, Cleared(r)
  PROVE  JobOK(r)
<1>1. Shape(r) /\ Positions(r) = {}
  BY NoPositions DEF Cleared, Shape, Positions
<1> QED
  BY <1>1 DEF Cleared, JobOK, Free, RacedOK

LEMMA ClearedNext ==
  ASSUME NEW r \in Requests, Cleared(r)'
  PROVE  JobOK(r)'
<1>1. Shape(r)' /\ Positions(r)' = {}
  BY NoPositions DEF Cleared, Shape, Positions
<1> QED
  BY <1>1 DEF Cleared, JobOK, Free, RacedOK

LEMMA FaceInitOK ==
  ASSUME FaceInit
  PROVE  FaceOK /\ CrashExplained
<1>1. Maps /\ \A r \in Requests : Cleared(r)
  BY DEF FaceInit, Maps, Cleared
<1>2. \A r \in Requests : JobOK(r)
  BY <1>1, ClearedOK
<1> QED
  BY <1>1, <1>2 DEF FaceInit, FaceOK, CrashExplained

LEMMA ExitStep ==
  ASSUME Exit
  PROVE  FaceOK' /\ CrashExplained' /\ \A r \in Requests : images'[r] = <<>>
<1>1. Maps' /\ \A r \in Requests : Cleared(r)'
  BY DEF Exit, Maps, Cleared
<1>2. \A r \in Requests : JobOK(r)'
  BY <1>1, ClearedNext
<1> QED
  BY <1>1, <1>2 DEF Exit, FaceOK, CrashExplained, Cleared

LEMMA ForgetStep ==
  ASSUME FaceOK, ~crashed, NEW r \in Requests, Forget(r)
  PROVE  /\ FaceOK' /\ CrashExplained' /\ images'[r] = <<>>
         /\ \A s \in Requests \ {r} : images'[s] = images[s]
<1>1. /\ Maps' /\ Cleared(r)' /\ \A s \in Requests \ {r} : SameJob(s)
  BY DEF FaceOK, Forget, Maps, Cleared, SameJob
<1>2. JobOK(r)' /\ \A s \in Requests \ {r} : JobOK(s)'
  BY <1>1, ClearedNext, SameKept DEF FaceOK
<1>3. ~crashed'
  BY DEF Forget
<1> QED
  BY <1>1, <1>2, <1>3 DEF FaceOK, CrashExplained, Cleared, SameJob

\* The work on a picture has not begun, or was not needed.
LEMMA FreshPicture ==
  ASSUME NEW r \in Requests, NEW k \in Nat,
         mat'[r][k] = "nil", found'[r][k] = 0, bad'[r][k] \in BOOLEAN, ~bad'[r][k],
         \/ worker'[r][k] = "process"
         \/ worker'[r][k] = "ended" /\ verdict'[r] # None
  PROVE  Picture(r, k)'
BY DEF Picture

LEMMA BeginStep ==
  ASSUME FaceOK, ~crashed, NEW r \in Requests, images[r] = <<>>,
         NEW p \in Pictures, NEW t \in Bars, NEW m \in ModelSets, Begin(r, p, t, m)
  PROVE  /\ FaceOK' /\ CrashExplained'
         /\ \A s \in Requests \ {r} : images'[s] = images[s]
<1> DEFINE refused == IF Len(p) = 2 THEN "arcface" \notin m ELSE m \cap {"yunet", "cascade"} = {}
           of(x) == [k \in DOMAIN p |-> x]
<1>1. /\ images' = [images EXCEPT ![r] = p]
      /\ bar' = [bar EXCEPT ![r] = t]
      /\ loaded' = [loaded EXCEPT ![r] = m]
      /\ worker' = [worker EXCEPT ![r] = of(IF refused THEN "ended" ELSE "process")]
      /\ mat' = [mat EXCEPT ![r] = of("nil")]
      /\ found' = [found EXCEPT ![r] = of(0)]
      /\ bad' = [bad EXCEPT ![r] = of(FALSE)]
      /\ verdict' = [verdict EXCEPT ![r] = IF refused THEN FALSE ELSE None]
      /\ UNCHANGED <<mutex, inputSize, raced, results, crashed>>
  BY DEF Begin
<1>2. Maps /\ JobOK(r) /\ Free(r) /\ Shape(r)
  BY DEF FaceOK, JobOK
<1>3. /\ p \in Seq(Images) /\ Len(p) \in {1, 2} /\ t \in 1..1000 /\ m \subseteq Models
  BY DevApiAssumption
<1>4. /\ DOMAIN p = 1..Len(p) /\ p \in [1..Len(p) -> Images] /\ p # <<>>
      /\ DOMAIN p \in {{1}, {1, 2}}
  <2>1. DOMAIN p = 1..Len(p) /\ p \in [1..Len(p) -> Images]
    BY <1>3, LenProperties
  <2> QED
    BY <1>3, <2>1, NoPositions
<1>5. /\ Maps' /\ \A s \in Requests \ {r} : SameJob(s)
      /\ images'[r] = p /\ bar'[r] = t /\ loaded'[r] = m
      /\ worker'[r] = of(IF refused THEN "ended" ELSE "process")
      /\ mat'[r] = of("nil") /\ found'[r] = of(0) /\ bad'[r] = of(FALSE)
      /\ verdict'[r] = (IF refused THEN FALSE ELSE None) /\ results'[r] = <<>> /\ mutex'[r] = 0
      /\ inputSize'[r] \in Images \cup {None} /\ crashed' = FALSE /\ raced'[r] = FALSE
  <2> HIDE DEF refused, of
  <2>1. Maps'
    BY <1>1, <1>2 DEF Maps
  <2>2. \A s \in Requests \ {r} : SameJob(s)
    BY <1>1, <1>2 DEF Maps, SameJob
  <2>3. /\ inputSize'[r] \in Images \cup {None} /\ results'[r] = <<>> /\ mutex'[r] = 0
        /\ crashed' = FALSE /\ raced'[r] = FALSE
    BY <1>1, <1>2 DEF Shape, Free, Maps
  <2> QED
    BY <1>1, <1>2, <2>1, <2>2, <2>3 DEF Maps
<1>6. Positions(r)' = DOMAIN p /\ (Compares(r)' <=> Len(p) = 2)
  BY <1>5 DEF Positions, Compares
<1>7. Shape(r)'
  <2>1. images'[r] \in UNION {[1..n -> Images] : n \in 0..2}
    BY <1>3, <1>4, <1>5
  <2>2. \A k \in DOMAIN p : p[k] \in Images
    BY <1>4
  <2> QED
    BY <1>3, <1>4, <1>5, <1>6, <2>1, <2>2 DEF Shape, Bools
<1>8. \A k \in DOMAIN p : /\ worker'[r][k] = (IF refused THEN "ended" ELSE "process")
                          /\ mat'[r][k] = "nil" /\ found'[r][k] = 0
                          /\ bad'[r][k] \in BOOLEAN /\ ~bad'[r][k]
  <2> HIDE DEF refused
  <2>1. \A k \in DOMAIN p : bad'[r][k] \in BOOLEAN /\ ~bad'[r][k]
    <3>1. bad'[r] \in [DOMAIN p -> {FALSE}]
      BY <1>5
    <3> HIDE DEF of
    <3> QED
      BY <3>1
  <2> QED
    BY <1>5, <2>1
<1>9. \A k \in DOMAIN p : Picture(r, k)'
  <2>1. refused => verdict'[r] # None
    BY <1>5, FaceAssumption
  <2>2. SUFFICES ASSUME NEW k \in DOMAIN p PROVE Picture(r, k)'
    OBVIOUS
  <2> HIDE DEF of
  <2>3. mat'[r][k] = "nil" /\ found'[r][k] = 0 /\ bad'[r][k] \in BOOLEAN /\ ~bad'[r][k]
    BY <1>8, <2>2
  <2>4. k \in Nat
    BY <1>3, <1>4, <2>2
  <2>5. CASE refused
    <3>1. worker'[r][k] = "ended" /\ verdict'[r] # None
      BY <1>8, <2>1, <2>2, <2>5
    <3> QED
      BY <2>3, <2>4, <3>1, FreshPicture
  <2>6. CASE ~refused
    <3>1. worker'[r][k] = "process"
      BY <1>8, <2>2, <2>6
    <3> QED
      BY <2>3, <2>4, <3>1, FreshPicture
  <2> QED
    BY <2>5, <2>6
<1>10. /\ \A k \in Positions(r)' : Picture(r, k)'
       /\ images'[r] # <<>> /\ bar'[r] > 0 /\ RacedOK(r)'
  <2>1. images'[r] # <<>> /\ bar'[r] > 0
    BY <1>3, <1>4, <1>5
  <2>2. Positions(r)' = DOMAIN p
    BY <1>6
  <2>3. RacedOK(r)'
    BY <1>5 DEF RacedOK
  <2> QED
    BY <1>9, <2>1, <2>2, <2>3
<1>11. JobOK(r)'
  <2>1. CASE refused
    <3>1. ~Expected(p, t, m)
      BY <1>3, <2>1 DEF Expected, Seen
    <3>2. verdict'[r] = FALSE /\ verdict'[r] # None
      BY <1>5, <2>1, FaceAssumption
    <3>3. Decided(r)'
      BY <1>5, <1>6, <1>8, <2>1, <3>1, <3>2 DEF Decided
    <3> QED
      BY <1>7, <1>10, <3>2, <3>3 DEF JobOK
  <2>2. CASE ~refused
    <3>1. verdict'[r] = None
      BY <1>5, <2>2
    <3>2. Equipped(r)'
      BY <1>3, <1>5, <1>6, <2>2 DEF Equipped
    <3>3. Delivered(r)'
      <4>1. <<>> \in Seq(1..2) /\ Len(<<>>) = 0
        BY EmptySeq
      <4> QED
        BY <1>5, <1>6, <1>8, <2>2, <4>1 DEF Delivered
    <3> QED
      BY <1>7, <1>10, <3>1, <3>2, <3>3 DEF JobOK
  <2> QED
    BY <2>1, <2>2
<1>12. \A s \in Requests \ {r} : JobOK(s)'
  BY <1>5, SameKept DEF FaceOK
<1> QED
  BY <1>5, <1>11, <1>12 DEF FaceOK, CrashExplained, SameJob

(***************************************************************************)
(* The requests and the keys.                                              *)
(***************************************************************************)
\* What a step leaves alone of the other requests.
SameCall(s) ==
  /\ pc'[s] = pc[s] /\ req'[s] = req[s] /\ todo'[s] = todo[s] /\ ctx'[s] = ctx[s]
  /\ was'[s] = was[s] /\ images'[s] = images[s]

LEMMA CallKept ==
  ASSUME NEW s \in Requests, CallOK(s), SameCall(s), keys' = keys
  PROVE  CallOK(s)'
BY DEF CallOK, SameCall

CallTyped ==
  /\ pc \in [Requests -> Steps] /\ req \in [Requests -> Requested]
  /\ todo \in [Requests -> 0..3] /\ ctx \in [Requests -> Contexts \cup {None}]
  /\ was \in [Requests -> SUBSET (1..MaxKey)]

\* The request stays what it is, and goes on at another step.
LEMMA ToStep ==
  ASSUME CallTyped, CallsOK, NEW r \in Requests, NEW step \in Steps \ {"idle"}, To(r, step),
         pc[r] # "idle", was' = was, keys' = keys, \A s \in Requests \ {r} : images'[s] = images[s],
         step = "find" => todo[r] > 0, step \in {"handler", "face"} => todo[r] = 0,
         images'[r] # <<>> => step = "face" /\ req[r].env = "live"
  PROVE  CallTyped' /\ CallsOK'
<1>1. /\ pc' \in [Requests -> Steps] /\ pc'[r] = step /\ req' = req /\ todo' = todo /\ ctx' = ctx
      /\ \A s \in Requests \ {r} : pc'[s] = pc[s]
  BY DEF To, CallTyped
<1>2. CallOK(r)'
  BY <1>1 DEF CallsOK, CallOK
<1>3. \A s \in Requests \ {r} : CallOK(s)'
  BY <1>1, CallKept DEF CallsOK, SameCall
<1> QED
  BY <1>1, <1>2, <1>3 DEF CallTyped, CallsOK

\* The request is answered.
LEMMA FinishStep ==
  ASSUME CallTyped, CallsOK, NEW r \in Requests, Finish(r), keys' = keys, images'[r] = <<>>,
         \A s \in Requests \ {r} : images'[s] = images[s]
  PROVE  CallTyped' /\ CallsOK'
<1>1. /\ pc' \in [Requests -> Steps] /\ pc'[r] = "idle"
      /\ \A s \in Requests \ {r} : pc'[s] = pc[s]
  BY DEF Finish, CallTyped, Steps
<1>2. /\ req' \in [Requests -> Requested] /\ \A s \in Requests \ {r} : req'[s] = req[s]
  <2>1. NoReq \in Requested
    BY DevApiAssumption DEF NoReq, Requested, Routes, Envs
  <2> QED
    BY <2>1 DEF Finish, CallTyped
<1>3. /\ todo' \in [Requests -> 0..3] /\ \A s \in Requests \ {r} : todo'[s] = todo[s]
  BY DEF Finish, CallTyped
<1>4. /\ ctx' \in [Requests -> Contexts \cup {None}] /\ \A s \in Requests \ {r} : ctx'[s] = ctx[s]
  BY DEF Finish, CallTyped
<1>5. /\ was' \in [Requests -> SUBSET (1..MaxKey)] /\ \A s \in Requests \ {r} : was'[s] = was[s]
  BY DEF Finish, CallTyped
<1>6. CallOK(r)'
  BY <1>1 DEF CallOK
<1>7. \A s \in Requests \ {r} : CallOK(s)'
  BY <1>1, <1>2, <1>3, <1>4, <1>5, CallKept DEF CallsOK, SameCall
<1> QED
  BY <1>1, <1>2, <1>3, <1>4, <1>5, <1>6, <1>7 DEF CallTyped, CallsOK

LEMMA SameCalls ==
  ASSUME CallTyped, CallsOK, UNCHANGED <<reqVars, keyVars, images>>
  PROVE  CallTyped' /\ CallsOK'
<1>1. CallTyped'
  BY DEF CallTyped, reqVars, keyVars
<1>2. \A s \in Requests : CallOK(s)'
  BY CallKept DEF CallsOK, SameCall, reqVars, keyVars
<1> QED
  BY <1>1, <1>2 DEF CallsOK

KeysTyped == keys \in [Apps -> [Envs -> 1..MaxKey]]

LEMMA PassesNat ==
  ASSUME NEW route \in Routes
  PROVE  Passes(route) \in 1..3
BY DEF Passes, Routes

LEMMA ArriveStep ==
  ASSUME CallTyped, CallsOK, KeysTyped, NEW r \in Requests, NEW route \in Routes, NEW a \in Apps,
         NEW e \in Envs, NEW k \in 1..MaxKey, Arrive(r, route, a, e, k)
  PROVE  CallTyped' /\ CallsOK'
<1> DEFINE q == [route |-> route, app |-> a, env |-> e, key |-> k]
<1>1. q \in Requested /\ keys[a][e] \in 1..MaxKey /\ Passes(route) \in 1..3
  BY PassesNat, DevApiAssumption DEF Requested, KeysTyped
<1>2. /\ q.route = route /\ q.app = a /\ q.env = e
  OBVIOUS
<1> HIDE DEF q
<1>3. /\ req' = [req EXCEPT ![r] = q] /\ pc' = [pc EXCEPT ![r] = "pass"]
      /\ todo' = [todo EXCEPT ![r] = Passes(route)] /\ was' = [was EXCEPT ![r] = {keys[a][e]}]
      /\ keys' = keys /\ ctx' = ctx /\ images' = images /\ pc[r] = "idle"
  BY DEF Arrive, Here, faceVars, q
<1>4. /\ pc' \in [Requests -> Steps] /\ pc'[r] = "pass"
      /\ \A s \in Requests \ {r} : pc'[s] = pc[s]
  BY <1>3 DEF CallTyped, Steps
<1>5. /\ req' \in [Requests -> Requested] /\ req'[r] = q
      /\ \A s \in Requests \ {r} : req'[s] = req[s]
  BY <1>1, <1>3 DEF CallTyped
<1>6. /\ todo' \in [Requests -> 0..3] /\ todo'[r] = Passes(route)
      /\ \A s \in Requests \ {r} : todo'[s] = todo[s]
  BY <1>1, <1>3 DEF CallTyped
<1>7. /\ was' \in [Requests -> SUBSET (1..MaxKey)] /\ was'[r] = {keys[a][e]}
      /\ \A s \in Requests \ {r} : was'[s] = was[s]
  BY <1>1, <1>3 DEF CallTyped
<1>8. CallOK(r)'
  <2>1. images'[r] = <<>>
    BY <1>3 DEF CallsOK, CallOK
  <2>2. todo'[r] <= Passes(req'[r].route) /\ ~(todo'[r] < Passes(req'[r].route))
    BY <1>1, <1>2, <1>5, <1>6
  <2>3. req'[r].app \in Apps /\ keys'[req'[r].app][req'[r].env] \in was'[r]
    BY <1>2, <1>3, <1>5, <1>7
  <2> QED
    BY <1>4, <2>1, <2>2, <2>3 DEF CallOK
<1>9. \A s \in Requests \ {r} : CallOK(s)'
  BY <1>3, <1>4, <1>5, <1>6, <1>7, CallKept DEF CallsOK, SameCall
<1> QED
  BY <1>3, <1>4, <1>5, <1>6, <1>7, <1>8, <1>9 DEF CallTyped, CallsOK

LEMMA FindAppStep ==
  ASSUME CallTyped, CallsOK, KeysTyped, NEW r \in Requests, FindApp(r)
  PROVE  CallTyped' /\ CallsOK'
<1> DEFINE q == req[r]
<1>1. /\ keys' = keys /\ images' = images /\ pc[r] = "find"
      /\ \/ /\ q.key = keys[q.app][q.env]
            /\ pc' = [pc EXCEPT ![r] = "pass"] /\ todo' = [todo EXCEPT ![r] = @ - 1]
            /\ ctx' = [ctx EXCEPT ![r] = [app |-> q.app, sandbox |-> q.env = "sandbox"]]
            /\ UNCHANGED <<req, was>>
         \/ Finish(r)
  BY DEF FindApp, Here, faceVars
<1>2. /\ q.app \in Apps /\ keys[q.app][q.env] \in was[r] /\ todo[r] \in 1..3
      /\ todo[r] <= Passes(q.route) /\ images[r] = <<>> /\ Passes(q.route) \in 1..3
  BY <1>1, PassesNat DEF CallsOK, CallOK, CallTyped, Requested
<1>3. CASE /\ q.key = keys[q.app][q.env]
           /\ pc' = [pc EXCEPT ![r] = "pass"] /\ todo' = [todo EXCEPT ![r] = @ - 1]
           /\ ctx' = [ctx EXCEPT ![r] = [app |-> q.app, sandbox |-> q.env = "sandbox"]]
           /\ UNCHANGED <<req, was>>
  <2> DEFINE c == [app |-> q.app, sandbox |-> q.env = "sandbox"]
  <2>1. c \in Contexts
    BY <1>2 DEF Contexts
  <2>2. ctx' = [ctx EXCEPT ![r] = c]
    BY <1>3
  <2> HIDE DEF c
  <2>3. /\ ctx' \in [Requests -> Contexts \cup {None}] /\ ctx'[r] = c
        /\ \A s \in Requests \ {r} : ctx'[s] = ctx[s]
    BY <2>1, <2>2 DEF CallTyped
  <2>4. /\ pc' \in [Requests -> Steps] /\ pc'[r] = "pass"
        /\ \A s \in Requests \ {r} : pc'[s] = pc[s]
    BY <1>3 DEF CallTyped, Steps
  <2>5. /\ todo' \in [Requests -> 0..3] /\ todo'[r] = todo[r] - 1
        /\ \A s \in Requests \ {r} : todo'[s] = todo[s]
    BY <1>2, <1>3 DEF CallTyped
  <2>6. CallOK(r)'
    <3>1. todo'[r] <= Passes(q.route)
      BY <1>2, <2>5
    <3>2. q.key \in was[r] /\ ctx'[r] = [app |-> q.app, sandbox |-> q.env = "sandbox"]
      BY <1>2, <1>3, <2>3 DEF c
    <3> QED
      BY <1>1, <1>2, <1>3, <2>4, <3>1, <3>2 DEF CallOK
  <2>7. \A s \in Requests \ {r} : CallOK(s)'
    BY <1>1, <1>3, <2>3, <2>4, <2>5, CallKept DEF CallsOK, SameCall
  <2> QED
    BY <1>3, <2>3, <2>4, <2>5, <2>6, <2>7 DEF CallTyped, CallsOK
<1>4. CASE Finish(r)
  BY <1>1, <1>2, <1>4, FinishStep
<1> QED
  BY <1>1, <1>3, <1>4

LEMMA RefreshKeyStep ==
  ASSUME CallTyped, CallsOK, KeysTyped, NEW a \in Apps, NEW e \in Envs, RefreshKey(a, e)
  PROVE  CallTyped' /\ CallsOK' /\ KeysTyped'
<1>1. /\ keys' = [keys EXCEPT ![a][e] = @ + 1] /\ keys[a][e] < MaxKey
      /\ was' = [r \in Requests |-> IF req[r].app = a /\ req[r].env = e
                                    THEN was[r] \cup {keys[a][e] + 1} ELSE was[r]]
      /\ images' = images /\ pc' = pc /\ req' = req /\ todo' = todo /\ ctx' = ctx
  BY DEF RefreshKey, reqVars, faceVars
<1>2. keys[a][e] \in 1..MaxKey /\ keys[a][e] + 1 \in 1..MaxKey
  BY <1>1, DevApiAssumption DEF KeysTyped
<1>3. /\ KeysTyped' /\ keys'[a][e] = keys[a][e] + 1
      /\ \A b \in Apps, f \in Envs : b # a \/ f # e => keys'[b][f] = keys[b][f]
  BY <1>1, <1>2 DEF KeysTyped
<1>4. CallTyped'
  <2>1. was' \in [Requests -> SUBSET (1..MaxKey)]
    BY <1>1, <1>2 DEF CallTyped
  <2> QED
    BY <1>1, <2>1 DEF CallTyped
<1>5. ASSUME NEW r \in Requests PROVE CallOK(r)'
  <2>1. was[r] \subseteq was'[r]
    BY <1>1
  <2>2. CallOK(r) /\ req[r].env \in Envs
    BY DEF CallsOK, CallTyped, Requested
  <2>3. pc[r] # "idle" => keys'[req[r].app][req[r].env] \in was'[r]
    <3>1. CASE req[r].app = a /\ req[r].env = e
      BY <1>1, <1>3, <3>1
    <3>2. CASE ~(req[r].app = a /\ req[r].env = e)
      BY <1>3, <2>1, <2>2, <3>2 DEF CallOK
    <3> QED
      BY <3>1, <3>2
  <2> QED
    BY <1>1, <2>1, <2>2, <2>3 DEF CallOK
<1> QED
  BY <1>3, <1>4, <1>5 DEF CallsOK

(***************************************************************************)
(* The rate limit.                                                         *)
(***************************************************************************)
RateTyped ==
  /\ window \in [Apps -> [count : 0..Limit + 1, left : 0..Unlimited]]
  /\ recent \in [Apps -> [1..Window -> Nat]] /\ busy \in [Apps -> 0..Limit + 1]
  /\ quiet \in [Apps -> 0..Window] /\ turned \subseteq 0..Limit + 1

\* What a pass does to the counter and the ghosts of its application.
Passed(a, left, through) ==
  /\ \A b \in Apps \ {a} : /\ window'[b] = window[b] /\ recent'[b] = recent[b]
                           /\ busy'[b] = busy[b] /\ quiet'[b] = quiet[b]
  /\ window'[a].count = Incremented(a) /\ window'[a].left = left
  /\ quiet'[a] = 0
  /\ busy'[a] = IF quiet[a] >= Window THEN 1 ELSE IF busy[a] > Limit THEN busy[a] ELSE busy[a] + 1
  /\ \A n \in 1..Window : recent'[a][n] = IF through THEN recent[a][n] + 1 ELSE recent[a][n]
  /\ turned' = IF through THEN turned ELSE turned \cup {busy'[a]}

LEMMA PassStep ==
  ASSUME RateTyped, NEW a \in Apps, NEW left \in 0..Unlimited, NEW through \in BOOLEAN,
         Passing(a, through),
         window' = [window EXCEPT ![a] = [count |-> Incremented(a), left |-> left]]
  PROVE  RateTyped' /\ Passed(a, left, through)
<1>1. Limit \in Nat \ {0} /\ Window \in Nat \ {0}
  BY DevApiAssumption
<1>2. /\ window[a].count \in 0..Limit + 1 /\ busy[a] \in 0..Limit + 1 /\ quiet[a] \in 0..Window
      /\ recent[a] \in [1..Window -> Nat]
  BY DEF RateTyped
<1>3. Incremented(a) \in 0..Limit + 1
  BY <1>1, <1>2 DEF Incremented
<1> DEFINE w == [count |-> Incremented(a), left |-> left]
           b == IF quiet[a] >= Window THEN 1 ELSE IF busy[a] > Limit THEN busy[a] ELSE busy[a] + 1
<1>4. b \in 0..Limit + 1
  BY <1>1, <1>2
<1>5. w \in [count : 0..Limit + 1, left : 0..Unlimited] /\ w.count = Incremented(a) /\ w.left = left
  BY <1>3
<1>6. /\ window' = [window EXCEPT ![a] = w] /\ busy' = [busy EXCEPT ![a] = b]
      /\ quiet' = [quiet EXCEPT ![a] = 0]
  BY DEF Passing
<1> HIDE DEF w, b
<1>7. /\ window' \in [Apps -> [count : 0..Limit + 1, left : 0..Unlimited]] /\ window'[a] = w
      /\ busy' \in [Apps -> 0..Limit + 1] /\ busy'[a] = b
      /\ quiet' \in [Apps -> 0..Window] /\ quiet'[a] = 0
      /\ \A c \in Apps \ {a} : /\ window'[c] = window[c] /\ busy'[c] = busy[c]
                               /\ quiet'[c] = quiet[c]
  BY <1>1, <1>4, <1>5, <1>6 DEF RateTyped
<1>8. /\ recent' \in [Apps -> [1..Window -> Nat]]
      /\ \A c \in Apps \ {a} : recent'[c] = recent[c]
      /\ \A n \in 1..Window : recent'[a][n] = IF through THEN recent[a][n] + 1 ELSE recent[a][n]
  <2>1. CASE through
    <3> DEFINE f == [n \in 1..Window |-> recent[a][n] + 1]
    <3>1. \A n \in 1..Window : recent[a][n] + 1 \in Nat
      <4>1. \A n \in 1..Window : recent[a][n] \in Nat
        BY <1>2
      <4> QED
        BY <4>1
    <3>2. f \in [1..Window -> Nat] /\ \A n \in 1..Window : f[n] = recent[a][n] + 1
      BY <3>1
    <3>3. recent' = [recent EXCEPT ![a] = f]
      BY <2>1 DEF Passing
    <3> HIDE DEF f
    <3> QED
      BY <2>1, <3>2, <3>3 DEF RateTyped
  <2>2. CASE ~through
    BY <2>2 DEF Passing, RateTyped
  <2> QED
    BY <2>1, <2>2
<1>9. turned' = (IF through THEN turned ELSE turned \cup {busy'[a]}) /\ turned' \subseteq 0..Limit + 1
  <2>1. turned' = IF through THEN turned ELSE turned \cup {busy'[a]}
    BY DEF Passing
  <2> QED
    BY <1>4, <1>7, <2>1 DEF RateTyped
<1> QED
  BY <1>5, <1>7, <1>8, <1>9 DEF RateTyped, Passed, b

\* A pass that Redis counted, with its expiry.
LEMMA CountedStep ==
  ASSUME RateTyped, RateOK, NEW a \in Apps, faults' = faults,
         RateTyped', Passed(a, Window, Incremented(a) <= Limit)
  PROVE  RateOK'
<1>1. Limit \in Nat \ {0} /\ Window \in Nat \ {0}
  BY DevApiAssumption
<1> DEFINE c == Incremented(a)
<1>2. /\ window[a].count \in 0..Limit + 1 /\ busy[a] \in 0..Limit + 1 /\ quiet[a] \in 0..Window
      /\ recent[a] \in [1..Window -> Nat] /\ c \in 0..Limit + 1
      /\ window[a].left \in 0..Unlimited /\ busy'[a] \in 0..Limit + 1
  <2>1. /\ window[a].count \in 0..Limit + 1 /\ busy[a] \in 0..Limit + 1 /\ quiet[a] \in 0..Window
        /\ recent[a] \in [1..Window -> Nat] /\ window[a].left \in 0..Unlimited
    BY DEF RateTyped
  <2>2. busy'[a] \in 0..Limit + 1
    BY DEF RateTyped
  <2>3. c \in 0..Limit + 1
    BY <1>1, <2>1 DEF Incremented
  <2> QED
    BY <2>1, <2>2, <2>3
<1>3. c <= Limit => c = window[a].count + 1
  BY <1>1, <1>2 DEF Incremented
<1>4. c >= window[a].count /\ c <= window[a].count + 1
  BY <1>1, <1>2 DEF Incremented
<1> HIDE DEF c
<1>5. ASSUME "expire" \notin faults PROVE CounterOK(a)' /\ c <= busy'[a]
  <2>1. CounterOK(a)
    BY <1>5 DEF RateOK
  <2>2. c <= busy'[a]
    <3>1. CASE quiet[a] >= Window
      BY <1>1, <1>2, <1>4, <2>1, <3>1 DEF CounterOK, Passed
    <3>2. CASE quiet[a] < Window
      <4>1. window[a].left > 0 /\ window[a].count <= busy[a]
        BY <1>1, <1>2, <2>1, <3>2 DEF CounterOK
      <4>2. busy'[a] = IF busy[a] > Limit THEN busy[a] ELSE busy[a] + 1
        BY <1>1, <1>2, <3>2 DEF Passed
      <4> QED
        BY <1>1, <1>2, <1>4, <4>1, <4>2
    <3> QED
      BY <1>1, <1>2, <3>1, <3>2
  <2>3. window'[a].count = c /\ window'[a].left = Window /\ quiet'[a] = 0
    BY DEF Passed, c
  <2> QED
    BY <1>1, <1>2, <2>2, <2>3 DEF CounterOK
<1>6. "expire" \notin faults => RefusedWhenBusy' /\ \A b \in Apps : CounterOK(b)'
  <2>1. SUFFICES ASSUME "expire" \notin faults
                 PROVE  RefusedWhenBusy' /\ \A b \in Apps : CounterOK(b)'
    OBVIOUS
  <2>2. \A n \in turned : n > Limit
    BY <2>1 DEF RateOK, RefusedWhenBusy
  <2>3. \A n \in turned' : n > Limit
    <3>1. CASE c <= Limit
      BY <2>2, <3>1 DEF Passed, c
    <3>2. CASE ~(c <= Limit)
      <4>1. turned' = turned \cup {busy'[a]}
        BY <3>2 DEF Passed, c
      <4>2. busy'[a] > Limit
        BY <1>1, <1>2, <1>5, <2>1, <3>2
      <4> QED
        BY <2>2, <4>1, <4>2
    <3> QED
      BY <3>1, <3>2
  <2>4. \A b \in Apps \ {a} : CounterOK(b)'
    BY <2>1 DEF RateOK, CounterOK, Passed
  <2> QED
    BY <1>5, <2>1, <2>3, <2>4 DEF RefusedWhenBusy
<1>7. faults = {} => \A b \in Apps : AdmittedOK(b)'
  <2>1. SUFFICES ASSUME faults = {} PROVE \A b \in Apps : AdmittedOK(b)'
    OBVIOUS
  <2>2. \A b \in Apps \ {a} : AdmittedOK(b)'
    BY <2>1 DEF RateOK, AdmittedOK, Passed
  <2>3. ASSUME NEW n \in 1..Window
        PROVE  /\ recent'[a][n] <= window'[a].count /\ recent'[a][n] <= Limit
               /\ n <= quiet'[a] => recent'[a][n] = 0
    <3>1. recent[a][n] \in Nat /\ recent[a][n] <= window[a].count /\ recent[a][n] <= Limit
      BY <1>2, <2>1, <2>3 DEF RateOK, AdmittedOK
    <3>2. recent'[a][n] = IF c <= Limit THEN recent[a][n] + 1 ELSE recent[a][n]
      BY <2>3 DEF Passed, c
    <3>3. window'[a].count = c /\ quiet'[a] = 0
      BY DEF Passed, c
    <3>4. ~(n <= quiet'[a])
      BY <1>1, <2>3, <3>3
    <3> DEFINE x == recent[a][n]  y == window[a].count
    <3>5. x \in Nat /\ x <= y /\ x <= Limit /\ y \in 0..Limit + 1
      BY <1>2, <3>1
    <3>6. c <= Limit => c = y + 1
      BY <1>3
    <3>7. c >= y
      BY <1>4
    <3> HIDE DEF x, y
    <3>8. CASE c <= Limit
      <4>1. x + 1 <= c /\ x + 1 <= Limit
        BY <1>1, <1>2, <3>5, <3>6, <3>8
      <4>2. recent'[a][n] = x + 1
        BY <3>2, <3>8 DEF x
      <4> QED
        BY <3>3, <3>4, <4>1, <4>2
    <3>9. CASE ~(c <= Limit)
      <4>1. x <= c
        BY <1>1, <1>2, <3>5, <3>7
      <4>2. recent'[a][n] = x
        BY <3>2, <3>9 DEF x
      <4> QED
        BY <3>3, <3>4, <3>5, <4>1, <4>2
    <3> QED
      BY <3>8, <3>9
  <2> QED
    BY <2>2, <2>3 DEF AdmittedOK
<1> QED
  BY <1>6, <1>7 DEF RateOK

\* A failure that is known of.
LEMMA FaultyRate ==
  ASSUME RateOK, NEW kind, Fault(kind), kind = "expire" \/ UNCHANGED rateVars
  PROVE  RateOK'
<1>1. kind \in faults' /\ faults' = faults \cup {kind}
  BY DEF Fault
<1>2. CASE kind = "expire"
  BY <1>1, <1>2 DEF RateOK
<1>3. CASE kind # "expire"
  <2>1. "expire" \in faults' <=> "expire" \in faults
    BY <1>1, <1>3
  <2> QED
    BY <1>1, <1>3, <2>1 DEF RateOK, RefusedWhenBusy, CounterOK, rateVars
<1> QED
  BY <1>2, <1>3

LEMMA SameRate ==
  ASSUME RateTyped, RateOK, UNCHANGED rateVars, UNCHANGED faults
  PROVE  RateTyped' /\ RateOK'
BY DEF RateTyped, RateOK, RefusedWhenBusy, CounterOK, AdmittedOK, rateVars

LEMMA TickStep ==
  ASSUME RateTyped, RateOK, Tick
  PROVE  RateTyped' /\ RateOK'
<1>1. Limit \in Nat \ {0} /\ Window \in Nat \ {0} /\ Unlimited = Window + 1
  BY DevApiAssumption DEF Unlimited
<1>2. /\ DOMAIN window' = Apps /\ DOMAIN recent' = Apps /\ DOMAIN quiet' = Apps
      /\ busy' = busy /\ turned' = turned /\ faults' = faults
      /\ window' = [a \in Apps |-> window'[a]] /\ recent' = [a \in Apps |-> recent'[a]]
  <2> DEFINE g(a) == [n \in 1..Window |-> IF n = 1 THEN 0 ELSE recent[a][n - 1]]
             h(a) == IF quiet[a] < Window THEN quiet[a] + 1 ELSE Window
  <2>1. /\ window' = [a \in Apps |-> Aged(window[a])] /\ recent' = [a \in Apps |-> g(a)]
        /\ quiet' = [a \in Apps |-> h(a)]
    BY DEF Tick
  <2> HIDE DEF g, h
  <2>2. DOMAIN window' = Apps /\ DOMAIN recent' = Apps /\ DOMAIN quiet' = Apps
    BY <2>1
  <2>3. window' = [a \in Apps |-> window'[a]] /\ recent' = [a \in Apps |-> recent'[a]]
    BY <2>1
  <2>4. busy' = busy /\ turned' = turned /\ faults' = faults
    BY DEF Tick, Fine
  <2> QED
    BY <2>2, <2>3, <2>4
<1>3. ASSUME NEW a \in Apps
      PROVE  /\ window'[a] \in [count : 0..Limit + 1, left : 0..Unlimited]
             /\ window[a].left \in 2..Window => /\ window'[a].left = window[a].left - 1
                                                /\ window'[a].count = window[a].count
             /\ window[a].left = 1 => window'[a].left = 0 /\ window'[a].count = 0
             /\ window[a].left \notin 1..Window => window'[a] = window[a]
  <2> DEFINE w == window[a]
  <2>1. w \in [count : 0..Limit + 1, left : 0..Unlimited]
    BY DEF RateTyped
  <2>2. window'[a] = Aged(w)
    BY DEF Tick
  <2> HIDE DEF w
  <2>3. CASE w.left \in 2..Window
    <3>1. window'[a] = [w EXCEPT !.left = @ - 1] /\ w.left # 1
      BY <2>2, <2>3 DEF Aged
    <3>2. window'[a] = [count |-> w.count, left |-> w.left - 1]
      BY <2>1, <3>1
    <3> QED
      BY <1>1, <2>1, <2>3, <3>1, <3>2 DEF w
  <2>4. CASE w.left = 1
    <3>1. window'[a] = [count |-> 0, left |-> 0] /\ w.left \notin 2..Window
      BY <2>2, <2>4 DEF Aged
    <3> QED
      BY <1>1, <2>4, <3>1 DEF w
  <2>5. CASE w.left \notin 2..Window /\ w.left # 1
    <3>1. window'[a] = w
      BY <2>2, <2>5 DEF Aged
    <3> QED
      BY <1>1, <2>1, <2>5, <3>1 DEF w
  <2> QED
    BY <2>3, <2>4, <2>5
<1>4. ASSUME NEW a \in Apps
      PROVE  /\ recent'[a] \in [1..Window -> Nat]
             /\ \A n \in 1..Window : recent'[a][n] = IF n = 1 THEN 0 ELSE recent[a][n - 1]
  <2>1. recent'[a] = [n \in 1..Window |-> IF n = 1 THEN 0 ELSE recent[a][n - 1]]
    BY DEF Tick
  <2>2. recent[a] \in [1..Window -> Nat]
    BY DEF RateTyped
  <2>3. \A n \in 1..Window : (IF n = 1 THEN 0 ELSE recent[a][n - 1]) \in Nat
    BY <1>1, <2>2
  <2> QED
    BY <2>1, <2>3
<1>5. ASSUME NEW a \in Apps
      PROVE  /\ quiet[a] \in 0..Window
             /\ quiet'[a] = IF quiet[a] < Window THEN quiet[a] + 1 ELSE Window
  BY DEF Tick, RateTyped
<1>6. RateTyped'
  <2>1. window' \in [Apps -> [count : 0..Limit + 1, left : 0..Unlimited]]
    BY <1>2, <1>3
  <2>2. recent' \in [Apps -> [1..Window -> Nat]]
    BY <1>2, <1>4
  <2>3. quiet' \in [Apps -> 0..Window]
    <3>1. \A a \in Apps : (IF quiet[a] < Window THEN quiet[a] + 1 ELSE Window) \in 0..Window
      BY <1>1, <1>5
    <3> QED
      BY <3>1 DEF Tick
  <2> QED
    BY <1>2, <2>1, <2>2, <2>3 DEF RateTyped
<1>7. ASSUME NEW a \in Apps, CounterOK(a) PROVE CounterOK(a)'
  <2>1. window[a].left = 0 \/ window[a].left = 1 \/ window[a].left \in 2..Window
    BY <1>1, <1>5, <1>7 DEF CounterOK
  <2>2. CASE window[a].left = 0
    BY <1>1, <1>2, <1>3, <1>5, <1>7, <2>2 DEF CounterOK
  <2>3. CASE window[a].left = 1
    BY <1>1, <1>2, <1>3, <1>5, <1>7, <2>3 DEF CounterOK
  <2>4. CASE window[a].left \in 2..Window
    BY <1>1, <1>2, <1>3, <1>5, <1>7, <2>4 DEF CounterOK
  <2> QED
    BY <2>1, <2>2, <2>3, <2>4
<1>8. ASSUME NEW a \in Apps, CounterOK(a), AdmittedOK(a) PROVE AdmittedOK(a)'
  <2>1. SUFFICES ASSUME NEW n \in 1..Window
                 PROVE  /\ recent'[a][n] <= window'[a].count /\ recent'[a][n] <= Limit
                        /\ n <= quiet'[a] => recent'[a][n] = 0
    BY DEF AdmittedOK
  <2>2. /\ window'[a].count \in 0..Limit + 1 /\ recent[a] \in [1..Window -> Nat]
        /\ window[a].count \in 0..Limit + 1 /\ quiet[a] \in 0..Window
        /\ window[a].left \in 0..Unlimited
    BY <1>3 DEF RateTyped
  <2>3. CASE n = 1
    BY <1>1, <1>4, <2>1, <2>2, <2>3, SMTT(30)
  <2>4. CASE n # 1
    <3>1. n - 1 \in 1..Window /\ recent'[a][n] = recent[a][n - 1]
      BY <1>1, <1>4, <2>1, <2>4
    <3>2. /\ recent[a][n - 1] \in Nat /\ recent[a][n - 1] <= window[a].count
          /\ recent[a][n - 1] <= Limit
          /\ n - 1 <= quiet[a] => recent[a][n - 1] = 0
      BY <1>8, <2>2, <3>1 DEF AdmittedOK
    <3>3. n <= quiet'[a] => n - 1 <= quiet[a]
      BY <1>1, <1>5, <2>1, <2>2
    <3>4. n - 1 <= quiet[a] \/ window'[a].count = window[a].count
      <4>1. CASE window[a].left = 1
        BY <1>1, <1>8, <2>1, <2>2, <4>1 DEF CounterOK
      <4>2. CASE window[a].left # 1
        <5> DEFINE left == window[a].left
        <5>1. left \in 0..Unlimited /\ left # 1
          BY <2>2, <4>2
        <5> HIDE DEF left
        <5>2. left \in 2..Window \/ left \notin 1..Window
          BY <1>1, <5>1
        <5> QED
          BY <1>3, <5>2 DEF left
      <4> QED
        BY <4>1, <4>2
    <3> DEFINE x == recent[a][n - 1]
    <3>5. n <= quiet'[a] => x = 0
      BY <3>2, <3>3
    <3>6. x = 0 \/ x <= window'[a].count
      BY <3>2, <3>4
    <3>7. x \in Nat /\ x <= Limit /\ recent'[a][n] = x
      BY <3>1, <3>2
    <3> HIDE DEF x
    <3>8. x <= window'[a].count
      BY <2>2, <3>6
    <3> QED
      BY <3>5, <3>7, <3>8
  <2> QED
    BY <2>3, <2>4
<1>9. RateOK'
  <2>1. "expire" \notin faults' => RefusedWhenBusy' /\ \A a \in Apps : CounterOK(a)'
    BY <1>2, <1>7 DEF RateOK, RefusedWhenBusy
  <2>2. faults' = {} => \A a \in Apps : AdmittedOK(a)'
    BY <1>2, <1>8 DEF RateOK
  <2> QED
    BY <2>1, <2>2 DEF RateOK
<1> QED
  BY <1>6, <1>9

(***************************************************************************)
(* The inductive invariant is kept.                                        *)
(***************************************************************************)
LEMMA TypedParts == ApiTyped <=> KeysTyped /\ CallTyped /\ RateTyped /\ faults \in MayFail
BY DEF ApiTyped, KeysTyped, CallTyped, RateTyped

LEMMA TypedPartsNext ==
  ASSUME KeysTyped', CallTyped', RateTyped', faults' \in MayFail
  PROVE  ApiTyped'
BY DEF ApiTyped, KeysTyped, CallTyped, RateTyped

LEMMA SameFaces ==
  ASSUME FaceOK, CrashExplained, UNCHANGED faceVars
  PROVE  FaceOK' /\ CrashExplained' /\ images' = images
<1>1. Maps' /\ \A s \in Requests : SameJob(s)
  BY DEF FaceOK, Maps, SameJob, faceVars
<1>2. \A s \in Requests : JobOK(s)'
  BY <1>1, SameKept DEF FaceOK
<1> QED
  BY <1>1, <1>2 DEF FaceOK, CrashExplained, Positions, faceVars

LEMMA CheckRateLimitStep ==
  ASSUME IInv, NEW r \in Requests, CheckRateLimit(r)
  PROVE  IInv'
<1> DEFINE a == req[r].app  w == window[a]
<1>1. /\ KeysTyped /\ CallTyped /\ RateTyped /\ faults \in MayFail /\ FaceOK /\ CrashExplained
      /\ CallsOK /\ RateOK
  BY TypedParts DEF IInv
<1>2. keys' = keys /\ UNCHANGED faceVars /\ pc[r] = "pass" /\ todo[r] > 0
  BY DEF CheckRateLimit, Here
<1>3. FaceOK' /\ CrashExplained' /\ images' = images
  BY <1>1, <1>2, SameFaces
<1>4. a \in Apps /\ images[r] = <<>> /\ w.left \in 0..Unlimited
  <2>1. a \in Apps /\ images[r] = <<>>
    BY <1>1, <1>2 DEF CallsOK, CallOK
  <2> QED
    BY <1>1, <2>1 DEF RateTyped
<1>5. Window \in 0..Unlimited /\ Unlimited \in 0..Unlimited
  BY DevApiAssumption DEF Unlimited
<1>6. To(r, "find") /\ was' = was => CallTyped' /\ CallsOK'
  <2>1. "find" \in Steps \ {"idle"}
    BY DEF Steps
  <2> QED
    BY <1>1, <1>2, <1>3, <1>4, <2>1, ToStep
<1>7. CASE Fine /\ Counted(r, Window)
  <2> DEFINE n == Incremented(a)
  <2>1. /\ window' = [window EXCEPT ![a] = [count |-> Incremented(a), left |-> Window]]
        /\ Passing(a, Incremented(a) <= Limit)
        /\ (To(r, "find") /\ was' = was) \/ Finish(r)
    BY <1>7 DEF Counted
  <2>2. CallTyped' /\ CallsOK'
    BY <1>1, <1>2, <1>3, <1>4, <1>6, <2>1, FinishStep
  <2> DEFINE through == Incremented(a) <= Limit
  <2>3. through \in BOOLEAN /\ Passing(a, through)
    BY <2>1
  <2>4. RateTyped' /\ Passed(a, Window, through)
    <3> HIDE DEF through
    <3> QED
      BY <1>1, <1>4, <1>5, <2>1, <2>3, PassStep
  <2>5. faults' = faults
    BY <1>7 DEF Fine
  <2>6. RateOK'
    BY <1>1, <1>4, <2>4, <2>5, CountedStep
  <2>7. KeysTyped' /\ faults' \in MayFail
    BY <1>1, <1>2, <2>5 DEF KeysTyped
  <2> QED
    BY <1>3, <2>2, <2>4, <2>6, <2>7, TypedPartsNext DEF IInv
<1>8. CASE Fault("redis") /\ To(r, "find") /\ UNCHANGED <<was, rateVars>>
  <2>1. CallTyped' /\ CallsOK'
    BY <1>6, <1>8
  <2>2. RateOK'
    BY <1>1, <1>8, FaultyRate
  <2>3. RateTyped' /\ KeysTyped' /\ faults' \in MayFail
    BY <1>1, <1>2, <1>8 DEF RateTyped, rateVars, KeysTyped, Fault
  <2> QED
    BY <1>3, <2>1, <2>2, <2>3, TypedPartsNext DEF IInv
<1>9. CASE /\ Fault("expire") /\ Passing(a, TRUE) /\ To(r, "find") /\ UNCHANGED was
           /\ window' = [window EXCEPT ![a] = [count |-> Incremented(a),
                           left |-> IF w.left = 0 THEN Unlimited ELSE w.left]]
  <2> DEFINE l == IF w.left = 0 THEN Unlimited ELSE w.left
  <2>1. CallTyped' /\ CallsOK'
    BY <1>6, <1>9
  <2>2. RateOK'
    BY <1>1, <1>9, FaultyRate
  <2>3. l \in 0..Unlimited /\ window' = [window EXCEPT ![a] = [count |-> Incremented(a), left |-> l]]
    BY <1>4, <1>5, <1>9
  <2> HIDE DEF l
  <2>4. RateTyped'
    BY <1>1, <1>4, <1>9, <2>3, PassStep
  <2>5. KeysTyped' /\ faults' \in MayFail
    BY <1>1, <1>2, <1>9 DEF KeysTyped, Fault
  <2> QED
    BY <1>3, <2>1, <2>2, <2>4, <2>5, TypedPartsNext DEF IInv
<1> QED
  BY <1>7, <1>8, <1>9 DEF CheckRateLimit

\* Steps that leave the rate limit and the keys alone.
LEMMA OtherParts ==
  ASSUME IInv, UNCHANGED rateVars, keys' = keys, Fine \/ Fault("find"),
         CallTyped', CallsOK', FaceOK', CrashExplained'
  PROVE  IInv'
<1>1. /\ KeysTyped /\ RateTyped /\ faults \in MayFail /\ RateOK
  BY TypedParts DEF IInv
<1>2. RateTyped' /\ RateOK' /\ faults' \in MayFail
  <2>1. CASE Fine
    BY <1>1, <2>1, SameRate DEF Fine
  <2>2. CASE Fault("find")
    <3>1. RateOK'
      BY <1>1, <2>2, FaultyRate
    <3> QED
      BY <1>1, <2>2, <3>1 DEF RateTyped, rateVars, Fault
  <2> QED
    BY <2>1, <2>2
<1>3. KeysTyped'
  BY <1>1 DEF KeysTyped
<1> QED
  BY <1>2, <1>3, TypedPartsNext DEF IInv

LEMMA HandleStep ==
  ASSUME IInv, NEW r \in Requests, Handle(r)
  PROVE  IInv'
<1>1. /\ KeysTyped /\ CallTyped /\ RateTyped /\ faults \in MayFail /\ FaceOK /\ CrashExplained
      /\ CallsOK /\ RateOK
  BY TypedParts DEF IInv
<1>2. CASE CheckRateLimit(r)
  BY <1>2, CheckRateLimitStep
<1>3. CASE FindApp(r)
  <2>1. UNCHANGED rateVars /\ keys' = keys /\ UNCHANGED faceVars /\ (Fine \/ Fault("find"))
    BY <1>3 DEF FindApp
  <2>2. FaceOK' /\ CrashExplained'
    BY <1>1, <2>1, SameFaces
  <2> QED
    BY <1>1, <1>3, <2>1, <2>2, FindAppStep, OtherParts
<1>4. CASE Bind(r)
  <2>1. /\ UNCHANGED rateVars /\ keys' = keys /\ was' = was /\ UNCHANGED faceVars /\ Fine
        /\ pc[r] = "pass" /\ todo[r] = 0 /\ To(r, "handler")
    BY <1>4 DEF Bind, Here, keyVars
  <2>2. FaceOK' /\ CrashExplained' /\ images' = images
    BY <1>1, <2>1, SameFaces
  <2>3. "handler" \in Steps \ {"idle"} /\ images[r] = <<>>
    BY <1>1, <2>1 DEF Steps, CallsOK, CallOK
  <2>4. CallTyped' /\ CallsOK'
    BY <1>1, <2>1, <2>2, <2>3, ToStep
  <2> QED
    BY <2>1, <2>2, <2>4, OtherParts
<1>5. CASE APIFetchAppDetails(r) \/ APIFetchDetails(r) \/ MockAnswer(r)
  <2>1. /\ UNCHANGED rateVars /\ keys' = keys /\ UNCHANGED faceVars /\ Fine
        /\ pc[r] = "handler" /\ Finish(r)
    BY <1>5 DEF APIFetchAppDetails, APIFetchDetails, MockAnswer, Biometric, Here
  <2>2. FaceOK' /\ CrashExplained' /\ images' = images
    BY <1>1, <2>1, SameFaces
  <2>3. images[r] = <<>>
    BY <1>1, <2>1 DEF CallsOK, CallOK
  <2>4. CallTyped' /\ CallsOK'
    BY <1>1, <2>1, <2>2, <2>3, FinishStep
  <2> QED
    BY <2>1, <2>2, <2>4, OtherParts
<1>6. CASE \E p \in Pictures, t \in Bars, m \in ModelSets : StartFace(r, p, t, m)
  <2>1. PICK p \in Pictures, t \in Bars, m \in ModelSets : StartFace(r, p, t, m)
    BY <1>6
  <2>2. /\ UNCHANGED rateVars /\ keys' = keys /\ was' = was /\ Fine /\ ~crashed
        /\ pc[r] = "handler" /\ ~ctx[r].sandbox /\ To(r, "face") /\ Begin(r, p, t, m)
    BY <2>1 DEF StartFace, Biometric, Here, keyVars
  <2>3. images[r] = <<>> /\ todo[r] = 0
    BY <1>1, <2>2 DEF CallsOK, CallOK
  <2>4. FaceOK' /\ CrashExplained' /\ \A s \in Requests \ {r} : images'[s] = images[s]
    BY <1>1, <2>1, <2>2, <2>3, BeginStep
  <2>5. req[r].env = "live"
    <3>1. 0 < Passes(req[r].route) /\ req[r].env \in Envs
      BY <1>1, PassesNat DEF CallTyped, Requested
    <3>2. ctx[r] = [app |-> req[r].app, sandbox |-> req[r].env = "sandbox"]
      BY <1>1, <2>2, <2>3, <3>1 DEF CallsOK, CallOK
    <3>3. ctx[r].sandbox = (req[r].env = "sandbox")
      BY <3>2
    <3>4. ~(req[r].env = "sandbox")
      BY <2>2, <3>3, Zenon
    <3> QED
      BY <3>1, <3>4 DEF Envs
  <2>6. "face" \in Steps \ {"idle"}
    BY DEF Steps
  <2>7. CallTyped' /\ CallsOK'
    BY <1>1, <2>2, <2>3, <2>4, <2>5, <2>6, ToStep
  <2> QED
    BY <2>2, <2>4, <2>7, OtherParts
<1>7. CASE Work(r) /\ UNCHANGED apiVars
  <2>1. /\ UNCHANGED rateVars /\ keys' = keys /\ Fine /\ UNCHANGED <<reqVars, keyVars>>
    BY <1>7 DEF apiVars, keyVars, Fine
  <2>2. FaceOK' /\ CrashExplained' /\ images' = images
    BY <1>1, <1>7, WorkStep
  <2>3. CallTyped' /\ CallsOK'
    BY <1>1, <2>1, <2>2, SameCalls
  <2> QED
    BY <2>1, <2>2, <2>3, OtherParts
<1>8. CASE AnswerFace(r)
  <2>1. UNCHANGED rateVars /\ keys' = keys /\ Fine /\ ~crashed /\ Finish(r) /\ Forget(r)
    BY <1>8 DEF AnswerFace, Here
  <2>2. /\ FaceOK' /\ CrashExplained' /\ images'[r] = <<>>
        /\ \A s \in Requests \ {r} : images'[s] = images[s]
    BY <1>1, <2>1, ForgetStep
  <2>3. CallTyped' /\ CallsOK'
    BY <1>1, <2>1, <2>2, FinishStep
  <2> QED
    BY <2>1, <2>2, <2>3, OtherParts
<1> QED
  BY <1>2, <1>3, <1>4, <1>5, <1>6, <1>7, <1>8 DEF Handle

LEMMA InitIInv ==
  ASSUME Init
  PROVE  IInv
<1>1. Limit \in Nat \ {0} /\ Window \in Nat \ {0} /\ MaxKey \in Nat \ {0} /\ {} \in MayFail
  BY DevApiAssumption
<1>2. FaceOK /\ CrashExplained
  BY FaceInitOK DEF Init
<1>3. KeysTyped
  BY <1>1 DEF Init, KeysTyped
<1>4. CallTyped
  <2>1. NoReq \in Requested
    BY <1>1 DEF NoReq, Requested, Routes, Envs
  <2> QED
    BY <2>1 DEF Init, CallTyped, Steps
<1>5. RateTyped
  BY <1>1 DEF Init, RateTyped, Unlimited
<1>6. CallsOK
  <2>1. \A r \in Requests : images[r] = <<>> /\ pc[r] = "idle"
    BY DEF Init, FaceInit
  <2> QED
    BY <2>1 DEF CallsOK, CallOK
<1>7. RateOK
  BY <1>1 DEF Init, RateOK, RefusedWhenBusy, CounterOK, AdmittedOK
<1>8. faults \in MayFail
  BY <1>1 DEF Init
<1> QED
  BY <1>2, <1>3, <1>4, <1>5, <1>6, <1>7, <1>8, TypedParts DEF IInv

LEMMA NextIInv ==
  ASSUME IInv, [Next]_vars
  PROVE  IInv'
<1>1. /\ KeysTyped /\ CallTyped /\ RateTyped /\ faults \in MayFail /\ FaceOK /\ CrashExplained
      /\ CallsOK /\ RateOK
  BY TypedParts DEF IInv
<1>2. CASE Arrivals
  <2>1. PICK r \in Requests, route \in Routes, a \in Apps, e \in Envs, k \in 1..MaxKey :
          Arrive(r, route, a, e, k)
    BY <1>2 DEF Arrivals
  <2>2. UNCHANGED rateVars /\ keys' = keys /\ UNCHANGED faceVars /\ Fine
    BY <2>1 DEF Arrive
  <2>3. FaceOK' /\ CrashExplained'
    BY <1>1, <2>2, SameFaces
  <2>4. CallTyped' /\ CallsOK'
    BY <1>1, <2>1, ArriveStep
  <2> QED
    BY <2>2, <2>3, <2>4, OtherParts
<1>3. CASE \E r \in Requests : Handle(r)
  BY <1>3, HandleStep
<1>4. CASE Restart
  <2>1. UNCHANGED rateVars /\ keys' = keys /\ Fine /\ Exit
    BY <1>4 DEF Restart
  <2>2. FaceOK' /\ CrashExplained' /\ \A r \in Requests : images'[r] = <<>>
    BY <2>1, ExitStep
  <2>3. CallTyped'
    <3>1. NoReq \in Requested
      BY DevApiAssumption DEF NoReq, Requested, Routes, Envs
    <3> QED
      BY <1>4, <3>1 DEF Restart, CallTyped, Steps
  <2>4. CallsOK'
    <3>1. \A r \in Requests : pc'[r] = "idle"
      BY <1>4 DEF Restart
    <3> QED
      BY <2>2, <3>1 DEF CallsOK, CallOK
  <2> QED
    BY <2>1, <2>2, <2>3, <2>4, OtherParts
<1>5. CASE Tick
  <2>1. UNCHANGED <<reqVars, keyVars>> /\ UNCHANGED faceVars /\ faults' = faults
    BY <1>5 DEF Tick, Fine
  <2>2. FaceOK' /\ CrashExplained' /\ images' = images
    BY <1>1, <2>1, SameFaces
  <2>3. CallTyped' /\ CallsOK'
    BY <1>1, <2>1, <2>2, SameCalls
  <2>4. RateTyped' /\ RateOK'
    BY <1>1, <1>5, TickStep
  <2>5. KeysTyped' /\ faults' \in MayFail
    BY <1>1, <2>1 DEF KeysTyped, keyVars
  <2> QED
    BY <2>2, <2>3, <2>4, <2>5, TypedPartsNext DEF IInv
<1>6. CASE \E a \in Apps, e \in Envs : RefreshKey(a, e)
  <2>1. PICK a \in Apps, e \in Envs : RefreshKey(a, e)
    BY <1>6
  <2>2. UNCHANGED rateVars /\ UNCHANGED faceVars /\ faults' = faults
    BY <2>1 DEF RefreshKey, Fine
  <2>3. FaceOK' /\ CrashExplained'
    BY <1>1, <2>2, SameFaces
  <2>4. CallTyped' /\ CallsOK' /\ KeysTyped'
    BY <1>1, <2>1, RefreshKeyStep
  <2>5. RateTyped' /\ RateOK' /\ faults' \in MayFail
    BY <1>1, <2>2, SameRate
  <2> QED
    BY <2>3, <2>4, <2>5, TypedPartsNext DEF IInv
<1>7. CASE UNCHANGED vars
  <2>1. UNCHANGED rateVars /\ UNCHANGED <<reqVars, keyVars>> /\ UNCHANGED faceVars /\ Fine /\ keys' = keys
    BY <1>7 DEF vars, apiVars, keyVars, Fine
  <2>2. FaceOK' /\ CrashExplained' /\ images' = images
    BY <1>1, <2>1, SameFaces
  <2>3. CallTyped' /\ CallsOK'
    BY <1>1, <2>1, <2>2, SameCalls
  <2> QED
    BY <2>1, <2>2, <2>3, OtherParts
<1> QED
  BY <1>2, <1>3, <1>4, <1>5, <1>6, <1>7 DEF Next

\* Comparisons, calls of the developer API and counters keep what IInv says of
\* them, whichever handler, goroutine or expiry steps next.
THEOREM Invariance == Spec => []IInv
<1>1. Init => IInv
  BY InitIInv
<1>2. IInv /\ [Next]_vars => IInv'
  BY NextIInv
<1> QED
  BY <1>1, <1>2, PTL DEF Spec

(***************************************************************************)
(* What it implies.                                                        *)
(***************************************************************************)
LEMMA FaceTyped ==
  ASSUME FaceOK
  PROVE  FaceTypeOK
<1>1. SUFFICES ASSUME NEW r \in Requests
      PROVE  /\ images[r] \in UNION {[1..n -> Images] : n \in 0..2}
             /\ bar[r] \in 0..1000 /\ loaded[r] \subseteq Models
             /\ \A k \in Positions(r) : /\ worker[r][k] \in {"process", "cascade", "size", "detect", "ended"}
                                        /\ mat[r][k] \in {"nil", "open", "closed", "lost"}
                                        /\ found[r][k] \in Nat /\ bad[r][k] \in Bools
             /\ mutex[r] \in Positions(r) \cup {0}
             /\ inputSize[r] \in Images \cup {None} /\ raced[r] \in Bools
             /\ verdict[r] \in Bools \cup {None}
  BY DEF FaceTypeOK
<1>2. JobOK(r)
  BY <1>1 DEF FaceOK
<1>3. \A k \in Positions(r) : /\ worker[r][k] \in {"process", "cascade", "size", "detect", "ended"}
                              /\ mat[r][k] \in {"nil", "open", "closed", "lost"}
                              /\ found[r][k] \in Nat /\ bad[r][k] \in Bools
  BY <1>2 DEF JobOK, Picture, Bools
<1>4. raced[r] \in Bools
  BY <1>2 DEF JobOK, RacedOK, Bools
<1> QED
  BY <1>2, <1>3, <1>4 DEF JobOK, Shape

\* In any Window ticks in a row an application gets at most Limit passes through
\* unless Redis failed, and a pass is refused only to an application that is busy:
\* whatever the limit, the window, the requests and the order of their passes.
THEOREM RateLimitKept == Spec => []RateKept
<1>1. IInv => RateKept
  <2>1. SUFFICES ASSUME IInv PROVE RateKept
    OBVIOUS
  <2>2. RefusedWhenBusy
    BY <2>1 DEF IInv, RateOK, RefusedWhenBusy
  <2>3. AdmittedInWindow
    <3>1. Window \in 1..Window
      BY DevApiAssumption
    <3> QED
      BY <2>1, <3>1 DEF IInv, RateOK, AdmittedOK, AdmittedInWindow
  <2> QED
    BY <2>2, <2>3 DEF RateKept
<1> QED
  BY <1>1, Invariance, PTL

\* A handler works for an application whose key was good since the request came,
\* in the environment of that key, and looks at no picture of a sandbox: whatever
\* keys are replaced, and however many passes the route has.
THEOREM KnownCallers == Spec => []CallersKept
<1>1. IInv => CallersKept
  <2>1. SUFFICES ASSUME IInv PROVE CallersKept
    OBVIOUS
  <2>2. TypeOK
    BY <2>1, FaceTyped DEF IInv, ApiTyped, TypeOK
  <2>3. ASSUME NEW r \in Requests, pc[r] \in {"handler", "face"}
        PROVE  /\ req[r].key \in was[r]
               /\ ctx[r] = [app |-> req[r].app, sandbox |-> req[r].env = "sandbox"]
               /\ images[r] # <<>> => req[r].env = "live"
    <3>0. CallOK(r) /\ req[r].route \in Routes
      BY <2>1 DEF IInv, CallsOK, ApiTyped, Requested
    <3>1. CallOK(r) /\ 0 < Passes(req[r].route)
      BY <3>0, PassesNat
    <3>2. pc[r] # "idle" /\ todo[r] < Passes(req[r].route)
      BY <2>3, <3>1 DEF CallOK
    <3> QED
      BY <3>1, <3>2 DEF CallOK
  <2> QED
    BY <2>2, <2>3 DEF CallersKept
<1> QED
  BY <1>1, Invariance, PTL

\* The answer about pictures is a function of them, of the threshold and of the
\* models, however the two goroutines share YuNet; when their detections by the
\* cascade overlap, whatever these find, a picture lost to the race may turn a match
\* into none and nothing else; the pictures are let go of, and the process only ends
\* over one that could not be processed, or in such a race.
THEOREM AnswersAboutImages == Spec => []ComparisonsCorrect
<1>1. IInv => ComparisonsCorrect
  <2>1. SUFFICES ASSUME IInv PROVE ComparisonsCorrect
    OBVIOUS
  <2>2. FaceTypeOK /\ CrashExplained
    BY <2>1, FaceTyped DEF IInv
  <2>3. ASSUME NEW r \in Requests, verdict[r] # None
        PROVE  /\ images[r] # <<>> /\ Decided(r) /\ verdict[r] \in {TRUE, FALSE}
               /\ \A k \in Positions(r) : Picture(r, k)
    <3>1. JobOK(r)
      BY <2>1 DEF IInv, FaceOK
    <3> QED
      BY <2>3, <3>1 DEF JobOK, Shape, Free, Bools
  <2>4. VerdictOfImages
    <3>1. ASSUME NEW r \in Requests, verdict[r] # None
          PROVE  \/ verdict[r] = Expected(images[r], bar[r], loaded[r])
                 \/ verdict[r] = FALSE /\ \E k \in Positions(r) : Spoilt(r, k)
      <4>1. /\ verdict[r] = TRUE => Expected(images[r], bar[r], loaded[r])
            /\ Expected(images[r], bar[r], loaded[r]) =>
                 verdict[r] = TRUE \/ \E k \in Positions(r) : Spoilt(r, k)
        BY <2>3, <3>1 DEF Decided
      <4>2. Expected(images[r], bar[r], loaded[r]) \in BOOLEAN
        BY DEF Expected, Seen
      <4> QED
        BY <2>3, <3>1, <4>1, <4>2
    <3> QED
      BY <3>1 DEF VerdictOfImages
  <2>5. PicturesReleased
    BY <2>3 DEF PicturesReleased, Decided, Picture
  <2> QED
    BY <2>2, <2>4, <2>5 DEF ComparisonsCorrect
<1> QED
  BY <1>1, Invariance, PTL
===============================================================================
