------------------------ MODULE Localization_proofs ------------------------
(***************************************************************************)
(* Dead reckoning is bounded in time.  CoastingRunsOut is not inductive: it *)
(* needs that the time coasted is covered by the age of the baseline, and   *)
(* that the baseline is young whenever a sentence is.                       *)
(***************************************************************************)
EXTENDS Localization, NatFacts

\* The constants, one by one.
LEMMA Constants ==
  /\ GpsTimeout \in Nat /\ 0 < GpsTimeout /\ ImuTimeout \in Nat /\ 0 < ImuTimeout
  /\ MaxPrediction \in Nat /\ 0 < MaxPrediction /\ MinBaseline \in Nat /\ 0 < MinBaseline
  /\ ConfirmTime \in Nat /\ MaxBaseline \in Nat /\ MinBaseline < ConfirmTime
  /\ ConfirmTime + GpsTimeout <= MaxBaseline /\ TopSpeed \in Nat
  /\ Reach \in Nat /\ ForwardLimit \in Nat /\ BackwardLimit \in Nat /\ StandingLimit \in Nat
BY TimeAssumption, LimitAssumption, SpeedAssumption

USE Constants

\* A sentence leaves a baseline younger than ConfirmTime.
BaselineIsYoung ==
  fix.age <= GpsTimeout => baseline.age < ConfirmTime + fix.age

\* What was coasted, and what a gap adds to it, happened since the baseline.
CoastIsCovered ==
  pose.set /\ ~fix.fresh =>
    coast + pose.age + 1 <= baseline.age \/ baseline.age = FarBack

IInv == TypeOK /\ BaselineIsYoung /\ CoastIsCovered /\ CoastingRunsOut

\* A place is within reach.
LEMMA PlacesInReach == \A x \in Int : Place(x) \in -Reach..Reach
BY DEF Place, Within

\* A pull is a whole number of steps.
LEMMA GainIsWhole == \A x \in Int : Gain(x) \in Int
BY DEF Gain

LEMMA InitTyped == Init => IInv
<1> SUFFICES ASSUME Init PROVE IInv
  OBVIOUS
<1>1. TypeOK
  <2>1. fix \in [at : -Reach..Reach, speed : Speeds, filtered : BOOLEAN,
                 age : 0..GpsTimeout + 1, fresh : BOOLEAN]
    BY DEF Init, Speeds
  <2>2. baseline \in [at : -Reach..Reach, age : 0..FarBack, set : BOOLEAN]
    BY DEF Init, FarBack
  <2>3. pose \in [at : -Reach..Reach, speed : Speeds, age : 0..MaxPrediction + 1,
                  set : BOOLEAN]
    BY DEF Init, Speeds
  <2>4. imu \in 0..ImuTimeout + 1 /\ coast \in 0..CoastBound
    BY DEF Init, CoastBound
  <2> QED
    BY <2>1, <2>2, <2>3, <2>4 DEF Init, TypeOK
<1> QED
  BY <1>1 DEF Init, IInv, BaselineIsYoung, CoastIsCovered, CoastingRunsOut

\* The measured speeds are speeds, and so is what the low pass makes of them.
LEMMA SpeedsMeasured ==
  ASSUME TypeOK, NEW p, NEW r \in {NoSpeed} \cup Speeds, NEW m \in Measured(p, r)
  PROVE  m \in Speeds /\ Filtered(m) \subseteq Speeds
<1>1. m \in Speeds
  <2>1. 0 \in Speeds
    BY DEF Speeds
  <2>2. Derived(p) \subseteq Speeds
    BY DEF Derived
  <2>3. CASE Confirms(p)
    BY <2>1, <2>3 DEF Measured
  <2>4. CASE ~Confirms(p) /\ r >= 1
    <3>1. r \in Speeds
      BY <2>4 DEF NoSpeed
    <3> QED
      BY <2>1, <2>2, <2>4, <3>1 DEF Measured
  <2>5. CASE ~Confirms(p) /\ ~(r >= 1)
    BY <2>2, <2>5 DEF Measured
  <2> QED
    BY <2>3, <2>4, <2>5
<1>2. fix.speed \in Speeds
  BY DEF TypeOK
<1> QED
  BY <1>1, <1>2 DEF Filtered, Speeds

LEMMA SentenceKeeps ==
  ASSUME IInv, NEW p \in -Reach..Reach, NEW r \in {NoSpeed} \cup Speeds, Sentence(p, r)
  PROVE  IInv'
<1> USE DEF IInv
<1>1. fix'.speed \in Speeds
  <2> PICK s \in IF Measured(p, r) = {} THEN {fix.speed}
                 ELSE IF standing' THEN {0}
                 ELSE UNION {Filtered(m) : m \in Measured(p, r)} : fix'.speed = s
    BY DEF Sentence
  <2>1. 0 \in Speeds /\ fix.speed \in Speeds
    BY DEF Speeds, TypeOK
  <2>2. UNION {Filtered(m) : m \in Measured(p, r)} \subseteq Speeds
    BY SpeedsMeasured
  <2> QED
    BY <2>1, <2>2
<1>2. /\ fix' = [at |-> p, speed |-> fix'.speed, age |-> 0,
                 filtered |-> fix.filtered \/ Measured(p, r) # {},
                 fresh |-> fix.fresh \/ Refreshes(p)]
      /\ baseline' = IF Advances(p) THEN [at |-> p, age |-> 0, set |-> TRUE] ELSE baseline
      /\ UNCHANGED <<imu, pose, valid, speed, calm, coast>>
  BY DEF Sentence
<1>3. TypeOK'
  <2>1. fix' \in [at : -Reach..Reach, speed : Speeds, filtered : BOOLEAN,
                  age : 0..GpsTimeout + 1, fresh : BOOLEAN]
    <3> DEFINE filtered == fix.filtered \/ Measured(p, r) # {}
               fresh == fix.fresh \/ Refreshes(p)
    <3>1. filtered \in BOOLEAN /\ fresh \in BOOLEAN
      OBVIOUS
    <3>2. fix' = [at |-> p, speed |-> fix'.speed, age |-> 0,
                  filtered |-> filtered, fresh |-> fresh]
      BY <1>2
    <3> HIDE DEF filtered, fresh
    <3> QED
      BY <1>1, <3>1, <3>2
  <2>2. baseline' \in [at : -Reach..Reach, age : 0..FarBack, set : BOOLEAN]
    BY <1>2 DEF TypeOK, FarBack
  <2>3. standing' \in BOOLEAN
    BY DEF Sentence, Stands
  <2>4. heard' \subseteq {"gps", "imu", "old"}
    BY DEF Sentence, TypeOK
  <2> QED
    BY <1>2, <2>1, <2>2, <2>3, <2>4 DEF TypeOK
<1>4. baseline'.age < ConfirmTime
  BY <1>2 DEF Advances, MayDerive, Confirms, TypeOK, FarBack
<1>5. ~fix'.fresh => baseline' = baseline
  <2>1. fix'.fresh = (fix.fresh \/ Refreshes(p))
    BY <1>2
  <2>2. ~fix'.fresh => ~Changed(p) /\ ~Confirms(p)
    BY <2>1 DEF Refreshes
  <2>3. ~Changed(p) /\ ~Confirms(p) => ~Advances(p)
    BY DEF Advances, MayDerive, Confirms, Changed, TypeOK, FarBack
  <2> QED
    BY <1>2, <2>2, <2>3
<1> QED
  BY <1>2, <1>3, <1>4, <1>5
     DEF BaselineIsYoung, CoastIsCovered, CoastingRunsOut, TypeOK, FarBack

LEMMA ImuKeeps ==
  ASSUME IInv, ImuPacket
  PROVE  IInv'
<1>1. TypeOK'
  BY DEF IInv, ImuPacket, TypeOK
<1> QED
  BY <1>1 DEF IInv, ImuPacket, BaselineIsYoung, CoastIsCovered, CoastingRunsOut

LEMMA PeriodKeeps ==
  ASSUME IInv, NEW d \in Speeds, Period(d)
  PROVE  IInv'
<1> DEFINE Ask == Initialize(d) \/ Correct(d) \/ Predict(d)
<1> d \in Int
  BY DEF Speeds
<1>1. /\ fix.age \in 0..GpsTimeout + 1 /\ baseline.age \in 0..MaxBaseline + 1
      /\ pose.age \in 0..MaxPrediction + 1 /\ imu \in 0..ImuTimeout + 1
      /\ coast \in 0..CoastBound /\ CoastBound \in Nat
  BY DEF IInv, TypeOK, FarBack, CoastBound
<1>2. /\ fix'.age = Older(fix.age, GpsTimeout) /\ fix'.fresh = (fix.fresh /\ ~valid')
      /\ baseline'.age = Older(baseline.age, MaxBaseline)
      /\ valid' = (imu' <= ImuTimeout /\ fix.age + 1 <= GpsTimeout)
  BY DEF Period, IInv, TypeOK
<1>3. (valid' /\ Ask) \/ (~valid' /\ Blind(d))
  BY DEF Period
<1>4. /\ fix'.age \in 0..GpsTimeout + 1 /\ fix'.age <= fix.age + 1
      /\ fix'.age # GpsTimeout + 1 => fix'.age = fix.age + 1
      /\ baseline'.age \in 1..MaxBaseline + 1 /\ baseline'.age <= baseline.age + 1
      /\ baseline'.age # MaxBaseline + 1 => baseline'.age = baseline.age + 1
  BY <1>1, <1>2 DEF Older, Least
<1>5. /\ Elapsed \in Nat /\ Elapsed <= pose.age + 1
  BY <1>1 DEF Elapsed, Least
<1>6. /\ fix.at \in Int /\ pose.at \in Int /\ baseline.at \in Int /\ pose.speed \in Int
      /\ fix.speed \in Speeds /\ pose.speed \in Speeds /\ 0 \in Speeds
  BY DEF IInv, TypeOK, Speeds
<1>7. BaselineIsYoung'
  BY <1>1, <1>4 DEF IInv, BaselineIsYoung
<1>8. CoastIsCovered'
  <2>1. CASE ~valid' /\ Blind(d)
    <3>1. coast' = coast /\ pose'.set = pose.set /\ fix'.fresh = fix.fresh
          /\ pose'.age = Older(pose.age, MaxPrediction)
      BY <1>2, <2>1 DEF Blind, IInv, TypeOK
    <3>2. pose'.age \in Nat /\ pose'.age <= pose.age + 1
      BY <1>1, <3>1 DEF Older, Least
    <3> QED
      BY <1>1, <1>4, <3>1, <3>2 DEF IInv, CoastIsCovered, FarBack
  <2>2. CASE valid' /\ (Initialize(d) \/ Correct(d))
    <3>1. coast' = 0 /\ pose'.age = 0
      BY <2>2 DEF Initialize, Correct
    <3> QED
      BY <1>4, <3>1 DEF CoastIsCovered, FarBack
  <2>3. CASE valid' /\ Predict(d)
    <3>1. pose'.age = 0 /\ pose.set /\ ~fix.fresh
          /\ coast' = IF pose.speed > 0 THEN Least(coast + Elapsed, CoastBound) ELSE coast
      BY <2>3 DEF Predict
    <3>2. coast' \in Nat /\ coast' <= coast + Elapsed
      BY <1>1, <1>5, <3>1 DEF Least
    <3> QED
      BY <1>1, <1>4, <1>5, <3>1, <3>2 DEF IInv, CoastIsCovered, FarBack
  <2> QED
    BY <1>3, <2>1, <2>2, <2>3
<1>9. CoastingRunsOut'
  <2>1. CASE ~valid'
    BY <1>3, <2>1 DEF IInv, Blind, CoastingRunsOut
  <2>2. CASE valid' /\ (Initialize(d) \/ Correct(d))
    <3>1. coast' = 0
      BY <2>2 DEF Initialize, Correct
    <3> QED
      BY <3>1 DEF CoastingRunsOut
  <2>3. CASE valid' /\ Predict(d)
    <3>1. pose'.age = 0 /\ pose'.set /\ ~fix'.fresh
      BY <1>2, <2>3 DEF Predict
    <3>2. fix'.age <= GpsTimeout
      <4>1. fix.age + 1 <= GpsTimeout
        BY <2>3 DEF Period
      <4> QED
        BY <1>1, <1>4, <4>1
    <3>3. baseline'.age < ConfirmTime + GpsTimeout
      BY <1>4, <1>7, <3>2 DEF BaselineIsYoung
    <3>4. coast' \in Int
      BY <1>1, <1>5, <2>3 DEF Predict, Least
    <3>5. baseline'.age \in Int /\ baseline'.age # FarBack
      BY <1>4, <3>3 DEF FarBack
    <3>6. coast' + 1 <= baseline'.age
      BY <1>8, <3>1, <3>4, <3>5 DEF CoastIsCovered
    <3>7. coast' + 2 <= ConfirmTime + GpsTimeout
      <4> DEFINE age == baseline'.age
                 coasted == coast'
      <4>1. age \in Int /\ coasted \in Int /\ coasted + 1 <= age
            /\ age < ConfirmTime + GpsTimeout
        BY <3>3, <3>4, <3>5, <3>6
      <4> HIDE DEF age, coasted
      <4>2. coasted + 2 <= ConfirmTime + GpsTimeout
        BY <4>1
      <4> QED
        BY <4>2 DEF coasted
    <3> QED
      BY <3>7 DEF CoastingRunsOut
  <2> QED
    BY <1>3, <2>1, <2>2, <2>3
<1>10. TypeOK'
  <2>1. fix' \in [at : -Reach..Reach, speed : Speeds, filtered : BOOLEAN,
                  age : 0..GpsTimeout + 1, fresh : BOOLEAN]
    <3>1. fix'.at \in -Reach..Reach
      BY <1>6, PlacesInReach DEF Period, IInv, TypeOK
    <3>2. (fix.fresh /\ ~valid') \in BOOLEAN
      OBVIOUS
    <3> QED
      BY <1>4, <3>1, <3>2 DEF Period, IInv, TypeOK
  <2>2. baseline' \in [at : -Reach..Reach, age : 0..FarBack, set : BOOLEAN]
    <3>1. baseline'.at \in -Reach..Reach
      BY <1>6, PlacesInReach DEF Period, IInv, TypeOK
    <3>2. /\ baseline' = [at |-> baseline'.at, age |-> baseline'.age, set |-> baseline.set]
          /\ baseline.set \in BOOLEAN
      BY DEF Period, IInv, TypeOK
    <3>3. baseline'.age \in 0..FarBack
      BY <1>4 DEF FarBack
    <3> QED
      BY <3>1, <3>2, <3>3
  <2>3. pose' \in [at : -Reach..Reach, speed : Speeds, age : 0..MaxPrediction + 1,
                   set : BOOLEAN]
    <3> DEFINE predicted == pose.at - d + pose.speed * Elapsed
    <3>1. predicted \in Int
      BY <1>5, <1>6
    <3>2. CASE Initialize(d)
      BY <1>6, <3>2, PlacesInReach DEF Initialize
    <3>3. CASE Correct(d)
      <4>1. Limited(fix.at - d - predicted) \in Int
        BY <1>6, <3>1 DEF Limited, Within
      <4>2. predicted + Gain(Limited(fix.at - d - predicted)) \in Int
        BY <3>1, <4>1, GainIsWhole
      <4>3. Place(predicted + Gain(Limited(fix.at - d - predicted))) \in -Reach..Reach
        BY <4>2, PlacesInReach
      <4>4. pose' = [at |-> Place(predicted + Gain(Limited(fix.at - d - predicted))),
                     speed |-> IF standing THEN 0 ELSE fix.speed, age |-> 0, set |-> TRUE]
        BY <3>3 DEF Correct
      <4> HIDE DEF predicted
      <4> QED
        BY <1>6, <4>3, <4>4
    <3>4. CASE Predict(d)
      <4>1. Place(predicted) \in -Reach..Reach
        BY <3>1, PlacesInReach
      <4>2. pose' = [at |-> Place(predicted), speed |-> IF standing THEN 0 ELSE pose.speed,
                     age |-> 0, set |-> TRUE]
        BY <3>4 DEF Predict
      <4> HIDE DEF predicted
      <4> QED
        BY <1>6, <4>1, <4>2
    <3>5. CASE Blind(d)
      <4>1. Place(pose.at - d) \in -Reach..Reach
        BY <1>6, PlacesInReach
      <4>2. Older(pose.age, MaxPrediction) \in 0..MaxPrediction + 1
        BY <1>1 DEF Older, Least
      <4> QED
        BY <3>5, <4>1, <4>2 DEF Blind, IInv, TypeOK
    <3> QED
      BY <1>3, <3>2, <3>3, <3>4, <3>5
  <2>4. coast' \in 0..CoastBound
    <3>1. CASE Blind(d)
      BY <1>1, <3>1 DEF Blind
    <3>2. CASE Initialize(d) \/ Correct(d)
      BY <1>1, <3>2 DEF Initialize, Correct
    <3>3. CASE Predict(d)
      BY <1>1, <1>5, <3>3 DEF Predict, Least
    <3> QED
      BY <1>3, <3>1, <3>2, <3>3
  <2>5. imu' \in 0..ImuTimeout + 1
    BY <1>1 DEF Period, Older, Least
  <2>6. valid' \in BOOLEAN /\ calm' \in BOOLEAN
    BY <1>2 DEF Period
  <2>7. speed' \in Speeds /\ heard' = {} /\ standing' = standing
    BY DEF Period
  <2> QED
    BY <2>1, <2>2, <2>3, <2>4, <2>5, <2>6, <2>7 DEF IInv, TypeOK
<1> QED
  BY <1>7, <1>8, <1>9, <1>10 DEF IInv

LEMMA StepKeeps == IInv /\ [Next]_vars => IInv'
<1> SUFFICES ASSUME IInv, [Next]_vars PROVE IInv'
  OBVIOUS
<1>1. CASE GpsPacket
  <2> PICK p \in {0} \cup (IF baseline.set THEN {fix.at} ELSE {}),
           r \in {NoSpeed, 0, speed} : Sentence(p, r)
    BY <1>1 DEF GpsPacket
  <2>1. p \in -Reach..Reach /\ r \in {NoSpeed} \cup Speeds
    BY DEF IInv, TypeOK, Speeds
  <2> QED
    BY <2>1, SentenceKeeps
<1>2. CASE ImuPacket
  BY <1>2, ImuKeeps
<1>3. CASE Move
  BY <1>3, PeriodKeeps DEF Move
<1>4. CASE UNCHANGED vars
  BY <1>4 DEF vars, receiverVars, IInv, TypeOK, BaselineIsYoung, CoastIsCovered,
              CoastingRunsOut
<1> QED
  BY <1>1, <1>2, <1>3, <1>4 DEF Next

\* Every state has its type: places, speeds and ages stay within their bounds
\* whatever is received and whenever the loop asks.
THEOREM TypeCorrect == Spec => []TypeOK
<1>1. IInv => TypeOK
  BY DEF IInv
<1> QED
  BY <1>1, InitTyped, StepKeeps, PTL DEF Spec

\* Dead reckoning never goes on longer than the confirmation of standing and
\* the time-out of GPS together, for every choice of the time constants
\* (gps_receiver.cpp:91-98, udp_manager.cpp:91-99).
THEOREM PredictionEnds == Spec => []CoastingRunsOut
<1>1. IInv => CoastingRunsOut
  BY DEF IInv
<1> QED
  BY <1>1, InitTyped, StepKeeps, PTL DEF Spec

------------------------------------------------------------------------------
(***************************************************************************)
(* How long it takes until the pose stands where the vehicle does.  First   *)
(* the baseline is set to the place of the vehicle, then standing is        *)
(* confirmed, then each confirmation pulls the pose on by a step at least.  *)
(***************************************************************************)
AtRest == calm /\ speed = 0

\* What a packet of this period leaves behind.
HeardIsKept ==
  /\ "gps" \in heard => fix.age = 0 /\ baseline.set
  /\ "gps" \in heard /\ "old" \notin heard => fix.at = 0
  /\ "imu" \in heard => imu = 0

RestIsKnown ==
  AtRest =>
    /\ fix.at = 0 /\ baseline.set /\ pose.set
    /\ "gps" \in heard => baseline.age < IF baseline.at = 0 THEN ConfirmTime ELSE MinBaseline

Missing(age, n) == IF age < n THEN n - age ELSE 0

\* Periods until standing is confirmed and the speed of the pose is 0.
ToStand(at, age, stands, v) ==
  IF at # 0 THEN ConfirmTime + 2 + Missing(age, MinBaseline)
  ELSE IF ~stands THEN 2 + Missing(age, ConfirmTime)
  ELSE IF v # 0 THEN 1 ELSE 0

Distance(x) == IF x < 0 THEN -x ELSE x

Left(at, age, stands, fresh, x, v) ==
  IF ToStand(at, age, stands, v) > 0
    THEN (Reach + 1) * (ConfirmTime + 1) + ToStand(at, age, stands, v)
  ELSE IF x = 0 THEN 0
  ELSE Distance(x) * (ConfirmTime + 1) + IF fresh THEN 0 ELSE Missing(age, ConfirmTime)

PeriodsLeft ==
  Left(baseline.at, baseline.age, standing, fix.fresh, pose.at, pose.speed)

LocatedAtTheEnd ==
  PeriodsLeft \in Nat /\ (PeriodsLeft = 0 => pose.speed = 0 /\ pose.at = 0)

StandingConverges ==
  [][AtRest /\ AtRest' =>
       /\ PeriodsLeft' <= PeriodsLeft
       /\ Move => PeriodsLeft' < PeriodsLeft \/ PeriodsLeft = 0]_vars

LEMMA HeardStep ==
  ASSUME IInv, HeardIsKept, [Next]_vars
  PROVE  HeardIsKept'
<1>1. CASE GpsPacket
  <2> PICK p \in {0} \cup (IF baseline.set THEN {fix.at} ELSE {}),
           r \in {NoSpeed, 0, speed} : Sentence(p, r)
    BY <1>1 DEF GpsPacket
  <2>1. /\ fix'.age = 0 /\ fix'.at = p /\ imu' = imu
        /\ heard' = heard \cup {IF p = 0 THEN "gps" ELSE "old"}
        /\ baseline' = IF Advances(p) THEN [at |-> p, age |-> 0, set |-> TRUE] ELSE baseline
    BY DEF Sentence
  <2>2. baseline'.set
    BY <2>1 DEF Advances, IInv, TypeOK
  <2> QED
    BY <2>1, <2>2 DEF HeardIsKept
<1>2. CASE ImuPacket
  BY <1>2 DEF ImuPacket, HeardIsKept
<1>3. CASE Move
  BY <1>3 DEF Move, Period, HeardIsKept
<1>4. CASE UNCHANGED vars
  BY <1>4 DEF vars, receiverVars, HeardIsKept
<1> QED
  BY <1>1, <1>2, <1>3, <1>4 DEF Next

\* What a sentence of a vehicle at rest does: it says where the baseline is, or
\* sets it there; standing is confirmed when the baseline is old enough.
LEMMA SentenceAtRest ==
  ASSUME IInv, baseline.set, NEW r, Sentence(0, r)
  PROVE  /\ fix'.at = 0 /\ baseline'.set
         /\ fix'.fresh = (fix.fresh \/ baseline.at # 0 \/ baseline.age >= ConfirmTime)
         /\ UNCHANGED pose
         /\ baseline.at # 0 =>
              \/ baseline' = baseline /\ baseline.age < MinBaseline
              \/ baseline'.at = 0 /\ baseline'.age = 0
         /\ baseline.at = 0 =>
              /\ baseline'.at = 0
              /\ IF baseline.age >= ConfirmTime
                   THEN standing' /\ baseline'.age = 0
                   ELSE standing' = standing /\ baseline'.age = baseline.age
<1>1. baseline.age \in 0..MaxBaseline + 1 /\ standing \in BOOLEAN
  BY DEF IInv, TypeOK, FarBack
<1>2. /\ Changed(0) <=> baseline.at # 0
      /\ Confirms(0) <=> baseline.at = 0 /\ baseline.age >= ConfirmTime
  BY DEF Changed, Confirms
<1>3. /\ fix'.at = 0 /\ fix'.fresh = (fix.fresh \/ Refreshes(0)) /\ UNCHANGED pose
      /\ standing' = Stands(0)
      /\ baseline' = IF Advances(0) THEN [at |-> 0, age |-> 0, set |-> TRUE] ELSE baseline
  BY DEF Sentence
<1>4. baseline'.set
  BY <1>3
<1>5. fix'.fresh = (fix.fresh \/ baseline.at # 0 \/ baseline.age >= ConfirmTime)
  BY <1>2, <1>3 DEF Refreshes
<1>6. CASE baseline.at # 0
  <2>1. ~Advances(0) => baseline.age < MinBaseline
    BY <1>1, <1>2, <1>6 DEF Advances, MayDerive
  <2> QED
    BY <1>3, <1>4, <1>5, <1>6, <2>1
<1>7. CASE baseline.at = 0
  <2>1. Advances(0) <=> baseline.age >= ConfirmTime
    BY <1>1, <1>2, <1>7 DEF Advances, MayDerive
  <2>2. standing' = (standing \/ baseline.age >= ConfirmTime)
    BY <1>2, <1>3, <1>7 DEF Stands
  <2> QED
    BY <1>1, <1>3, <1>4, <1>5, <1>7, <2>1, <2>2
<1> QED
  BY <1>6, <1>7

LEMMA PlaceIsKept == \A x \in -Reach..Reach : Place(x) = x
BY DEF Place, Within

\* What a period does that ends at rest.
LEMMA PeriodToRest ==
  ASSUME IInv, HeardIsKept, NEW d \in Speeds, Period(d), AtRest'
  PROVE  /\ d = 0 /\ "gps" \in heard /\ heard' = {}
         /\ fix.at = 0 /\ fix'.at = 0 /\ baseline'.set /\ pose'.set
         /\ baseline'.at = baseline.at
         /\ baseline'.age = Older(baseline.age, MaxBaseline)
         /\ ~fix'.fresh /\ UNCHANGED standing
         /\ Initialize(0) \/ Correct(0) \/ Predict(0)
<1>1. d = 0 /\ heard = {"gps", "imu"} /\ heard' = {} /\ UNCHANGED standing
  BY DEF Period, AtRest
<1>2. fix.age = 0 /\ baseline.set /\ fix.at = 0 /\ imu = 0
  BY <1>1 DEF HeardIsKept
<1>3. imu' = 1
  BY <1>2 DEF Period, Older, Least
<1>4. valid' = TRUE
  <2>1. imu' <= ImuTimeout /\ fix.age + 1 <= GpsTimeout
    BY <1>2, <1>3
  <2>2. valid' = (imu' <= ImuTimeout /\ fix.age + 1 <= GpsTimeout)
    BY DEF Period
  <2> QED
    BY <2>1, <2>2
<1>5. Initialize(0) \/ Correct(0) \/ Predict(0)
  BY <1>1, <1>4 DEF Period
<1>6. pose'.set
  BY <1>5 DEF Initialize, Correct, Predict
<1>7. /\ fix'.at = Place(fix.at - 0) /\ ~fix'.fresh
      /\ baseline'.at = Place(baseline.at - 0) /\ baseline'.set = baseline.set
      /\ baseline'.age = Older(baseline.age, MaxBaseline)
  BY <1>1, <1>4 DEF Period, IInv, TypeOK
<1>8. fix.at \in -Reach..Reach /\ baseline.at \in -Reach..Reach
  BY DEF IInv, TypeOK
<1>9. fix'.at = fix.at /\ baseline'.at = baseline.at
  <2>1. fix.at - 0 = fix.at /\ baseline.at - 0 = baseline.at
    BY <1>8
  <2> QED
    BY <1>7, <1>8, <2>1, PlaceIsKept
<1> QED
  BY <1>1, <1>2, <1>5, <1>6, <1>7, <1>9

LEMMA RestStep ==
  ASSUME IInv, HeardIsKept, RestIsKnown, [Next]_vars
  PROVE  RestIsKnown'
<1> SUFFICES ASSUME AtRest'
             PROVE  /\ fix'.at = 0 /\ baseline'.set /\ pose'.set
                    /\ "gps" \in heard' =>
                         baseline'.age < IF baseline'.at = 0 THEN ConfirmTime ELSE MinBaseline
  BY DEF RestIsKnown
<1>1. CASE GpsPacket
  <2> PICK p \in {0} \cup (IF baseline.set THEN {fix.at} ELSE {}),
           r \in {NoSpeed, 0, speed} : Sentence(p, r)
    BY <1>1 DEF GpsPacket
  <2>1. AtRest
    BY DEF Sentence, AtRest
  <2>2. p = 0 /\ baseline.set /\ pose.set
    BY <2>1 DEF RestIsKnown
  <2>3. baseline.age \in Nat
    BY DEF IInv, TypeOK
  <2> QED
    BY <2>2, <2>3, SentenceAtRest
<1>2. CASE ImuPacket
  BY <1>2 DEF ImuPacket, RestIsKnown, AtRest
<1>3. CASE Move
  BY <1>3, PeriodToRest DEF Move
<1>4. CASE UNCHANGED vars
  BY <1>4 DEF vars, receiverVars, RestIsKnown, AtRest
<1> QED
  BY <1>1, <1>2, <1>3, <1>4 DEF Next

------------------------------------------------------------------------------
\* A pull is towards the fix, by one step at least and never beyond it.
LEMMA GainPulls ==
  ASSUME NEW x \in Int
  PROVE  /\ x > 0 => Gain(x) \in 1..x
         /\ x < 0 => Gain(x) \in x..-1
         /\ x = 0 => Gain(x) = 0
<1>1. ASSUME x > 0 PROVE Gain(x) \in 1..x
  <2>1. Gain(x) = (9 * x + 19) \div 20
    BY <1>1 DEF Gain
  <2> QED
    BY <1>1, <2>1
<1>2. ASSUME x < 0 PROVE Gain(x) \in x..-1
  <2>1. Gain(x) = -((19 - 9 * x) \div 20)
    BY <1>2 DEF Gain
  <2>2. (19 - 9 * x) \div 20 \in 1..-x
    BY <1>2
  <2> QED
    BY <2>1, <2>2
<1>3. x = 0 => Gain(x) = 0
  BY DEF Gain
<1> QED
  BY <1>1, <1>2, <1>3

LEMMA PullIsCloser ==
  ASSUME NEW x \in -Reach..Reach, standing
  PROVE  LET y == Place(x + Gain(Limited(0 - 0 - x)))
         IN  /\ y \in -Reach..Reach
             /\ IF x = 0 THEN y = 0 ELSE Distance(y) + 1 <= Distance(x)
<1> DEFINE pull == Limited(0 - 0 - x)
           y == x + Gain(pull)
<1>0. StandingLimit \in Nat \ {0} /\ ForwardLimit \in Nat \ {0}
  BY LimitAssumption
<1>1. /\ pull \in Int
      /\ x = 0 => pull = 0
      /\ x > 0 => pull < 0 /\ -x <= pull
      /\ x < 0 => pull > 0 /\ pull <= -x
  BY <1>0 DEF Limited, Within
<1> HIDE DEF pull
<1>2. /\ pull > 0 => Gain(pull) \in 1..pull
      /\ pull < 0 => Gain(pull) \in pull..-1
      /\ pull = 0 => Gain(pull) = 0
  BY <1>1, GainPulls
<1>3. /\ y \in -Reach..Reach
      /\ IF x = 0 THEN y = 0 ELSE Distance(y) + 1 <= Distance(x)
  BY <1>1, <1>2 DEF Distance
<1>4. Place(y) = y
  BY <1>3, PlaceIsKept
<1> QED
  BY <1>3, <1>4 DEF pull

LEMMA MissingIsNat ==
  ASSUME NEW age, NEW n, age \in Nat, n \in Nat
  PROVE  /\ Missing(age, n) \in 0..n
         /\ age < n => Missing(age + 1, n) < Missing(age, n)
         /\ age >= n => Missing(age, n) = 0
BY DEF Missing

\* The three sizes a rank may have: on the way to standing, away from the
\* place of the vehicle, and there.
LEMMA LeftCases ==
  ASSUME NEW at, NEW age, NEW stands, NEW fresh, NEW x, NEW v,
         at \in Int, age \in Nat, stands \in BOOLEAN, fresh \in BOOLEAN,
         x \in -Reach..Reach, v \in Nat
  PROVE  /\ ToStand(at, age, stands, v) \in Nat
         /\ Left(at, age, stands, fresh, x, v) \in Nat
         /\ Left(at, age, stands, fresh, x, v) = 0
              => ToStand(at, age, stands, v) = 0 /\ x = 0
         /\ ToStand(at, age, stands, v) = 0 => at = 0 /\ stands /\ v = 0
         /\ ToStand(at, age, stands, v) = 0
              => Left(at, age, stands, fresh, x, v) < (Reach + 1) * (ConfirmTime + 1)
         /\ ToStand(at, age, stands, v) > 0
              => Left(at, age, stands, fresh, x, v)
                   = (Reach + 1) * (ConfirmTime + 1) + ToStand(at, age, stands, v)
         /\ (Reach + 1) * (ConfirmTime + 1) \in Nat
<1> DEFINE to == ToStand(at, age, stands, v)
           w == ConfirmTime + 1
           rest == IF fresh THEN 0 ELSE Missing(age, ConfirmTime)
           left == Left(at, age, stands, fresh, x, v)
           top == (Reach + 1) * w
           near == Distance(x) * w + rest
<1>1. /\ Missing(age, MinBaseline) \in Nat /\ Missing(age, ConfirmTime) \in 0..ConfirmTime
      /\ w \in Nat \ {0} /\ rest \in 0..w - 1 /\ 0 \in 0..w - 1
      /\ Distance(x) \in 0..Reach /\ (Distance(x) = 0 => x = 0)
  <2>1. Missing(age, MinBaseline) \in Nat /\ Missing(age, ConfirmTime) \in 0..ConfirmTime
    BY MissingIsNat
  <2>2. w \in Nat \ {0} /\ w - 1 = ConfirmTime
    OBVIOUS
  <2>3. rest \in 0..ConfirmTime
    BY <2>1
  <2>4. Distance(x) \in 0..Reach /\ (Distance(x) = 0 => x = 0)
    BY DEF Distance
  <2> QED
    BY <2>1, <2>2, <2>3, <2>4
<1>2. to \in Nat /\ (to = 0 => at = 0 /\ stands /\ v = 0)
  BY <1>1 DEF ToStand
<1>3. /\ left = IF to > 0 THEN top + to ELSE IF x = 0 THEN 0 ELSE near
  BY DEF Left
<1>4. near \in Nat /\ near < top /\ top \in Nat /\ 0 < top
  <2> DEFINE dist == Distance(x)
             reach == Reach + 1
  <2>1. dist \in Nat /\ reach \in Nat /\ dist + 1 <= reach /\ 0 + 1 <= reach
    BY <1>1
  <2> HIDE DEF w, rest, dist, reach
  <2>2. dist * w + rest \in Nat /\ reach * w + 0 \in Nat
    BY <1>1, <2>1, RankFalls
  <2>3. dist * w + rest < reach * w + 0
    BY <1>1, <2>1, RankFalls
  <2>4. reach * w + 0 = reach * w
    BY <1>1, <2>1
  <2>5. 0 < reach * w
    <3> DEFINE p == reach * w
    <3>1. p \in Nat /\ dist * w + rest < p
      BY <2>2, <2>3, <2>4
    <3>2. dist * w + rest \in Nat
      BY <2>2
    <3> HIDE DEF p
    <3> DEFINE q == dist * w + rest
    <3>3. q \in Nat /\ q < p
      BY <3>1, <3>2
    <3> HIDE DEF q
    <3>4. 0 < p
      BY <3>1, <3>3
    <3> QED
      BY <3>4 DEF p
  <2> QED
    BY <2>2, <2>3, <2>4, <2>5 DEF dist, reach
<1>5. x # 0 => near > 0
  <2>1. CASE x # 0
    <3> DEFINE dist == Distance(x)
    <3>1. dist \in Nat /\ 0 + 1 <= dist
      BY <1>1, <2>1 DEF Distance
    <3> HIDE DEF w, rest, dist
    <3>2. 0 * w + 0 < dist * w + rest
      BY <1>1, <3>1, RankFalls
    <3>3. 0 * w + 0 = 0
      BY <1>1
    <3> QED
      BY <3>2, <3>3 DEF dist
  <2> QED
    BY <2>1
<1> HIDE DEF to, top, near
<1>6. /\ left \in Nat
      /\ left = 0 => to = 0 /\ x = 0
      /\ to = 0 => left < top
      /\ to > 0 => left = top + to
  BY <1>2, <1>3, <1>4, <1>5
<1> QED
  BY <1>2, <1>4, <1>6 DEF to, top

\* Coming nearer to standing outweighs everything else.
LEMMA LeftOrder ==
  ASSUME NEW at, NEW age, NEW stands, NEW fresh, NEW x, NEW v,
         at \in Int, age \in Nat, stands \in BOOLEAN, fresh \in BOOLEAN,
         x \in -Reach..Reach, v \in Nat,
         NEW at1, NEW age1, NEW stands1, NEW fresh1, NEW x1, NEW v1,
         at1 \in Int, age1 \in Nat, stands1 \in BOOLEAN, fresh1 \in BOOLEAN,
         x1 \in -Reach..Reach, v1 \in Nat
  PROVE  LET to == ToStand(at, age, stands, v)
             to1 == ToStand(at1, age1, stands1, v1)
             left == Left(at, age, stands, fresh, x, v)
             left1 == Left(at1, age1, stands1, fresh1, x1, v1)
         IN  /\ to1 < to => left1 < left /\ left1 <= left
             /\ to1 = to /\ to > 0 => left1 = left /\ left1 <= left
<1> DEFINE to == ToStand(at, age, stands, v)
           to1 == ToStand(at1, age1, stands1, v1)
           left == Left(at, age, stands, fresh, x, v)
           left1 == Left(at1, age1, stands1, fresh1, x1, v1)
           top == (Reach + 1) * (ConfirmTime + 1)
<1>1. /\ to \in Nat /\ left \in Nat /\ top \in Nat
      /\ to > 0 => left = top + to
  <2>1. to \in Nat /\ left \in Nat
    BY LeftCases
  <2>2. top \in Nat
    OBVIOUS
  <2>3. to > 0 => left = top + to
    BY DEF Left
  <2> QED
    BY <2>1, <2>2, <2>3
<1>2. /\ to1 \in Nat /\ left1 \in Nat
      /\ to1 = 0 => left1 < top
      /\ to1 > 0 => left1 = top + to1
  <2>1. to1 \in Nat /\ left1 \in Nat
    BY LeftCases
  <2>2. to1 = 0 => left1 < top
    BY LeftCases
  <2>3. to1 > 0 => left1 = top + to1
    BY DEF Left
  <2> QED
    BY <2>1, <2>2, <2>3
<1> HIDE DEF to, to1, left, left1, top
<1>3. /\ to1 < to => left1 < left /\ left1 <= left
      /\ to1 = to /\ to > 0 => left1 = left /\ left1 <= left
  BY <1>1, <1>2
<1> QED
  BY <1>3 DEF to, to1, left, left1

\* What the rank is made of, before and after.
LEMMA LeftTypes ==
  ASSUME TypeOK
  PROVE  /\ baseline.at \in Int /\ baseline.age \in 0..MaxBaseline + 1
         /\ standing \in BOOLEAN /\ fix.fresh \in BOOLEAN
         /\ pose.at \in -Reach..Reach /\ pose.speed \in Nat
BY DEF TypeOK, FarBack, Speeds

LEMMA LeftTypesNext ==
  ASSUME TypeOK'
  PROVE  /\ baseline'.at \in Int /\ baseline'.age \in Nat
         /\ standing' \in BOOLEAN /\ fix'.fresh \in BOOLEAN
         /\ pose'.at \in -Reach..Reach /\ pose'.speed \in Nat
BY DEF TypeOK, FarBack, Speeds

LEMMA SentenceLeft ==
  ASSUME TypeOK', IInv, RestIsKnown, AtRest, NEW r, Sentence(0, r)
  PROVE  PeriodsLeft' <= PeriodsLeft
<1> DEFINE to == ToStand(baseline.at, baseline.age, standing, pose.speed)
           to1 == ToStand(baseline'.at, baseline'.age, standing', pose'.speed)
           left == Left(baseline.at, baseline.age, standing, fix.fresh, pose.at, pose.speed)
           left1 == Left(baseline'.at, baseline'.age, standing', fix'.fresh,
                         pose'.at, pose'.speed)
<1>1. /\ baseline.at \in Int /\ baseline.age \in Nat
      /\ standing \in BOOLEAN /\ fix.fresh \in BOOLEAN
      /\ pose.at \in -Reach..Reach /\ pose.speed \in Nat
  BY LeftTypes DEF IInv
<1>2. /\ baseline'.at \in Int /\ baseline'.age \in Nat
      /\ standing' \in BOOLEAN /\ fix'.fresh \in BOOLEAN
      /\ pose'.at \in -Reach..Reach /\ pose'.speed \in Nat
  BY LeftTypesNext
<1>3. /\ to1 < to => left1 <= left
      /\ to1 = to /\ to > 0 => left1 <= left
  BY <1>1, <1>2, LeftOrder
<1>4. /\ fix'.fresh = (fix.fresh \/ baseline.at # 0 \/ baseline.age >= ConfirmTime)
      /\ UNCHANGED pose
      /\ baseline.at # 0 =>
           \/ baseline' = baseline /\ baseline.age < MinBaseline
           \/ baseline'.at = 0 /\ baseline'.age = 0
      /\ baseline.at = 0 =>
           /\ baseline'.at = 0
           /\ IF baseline.age >= ConfirmTime
                THEN standing' /\ baseline'.age = 0
                ELSE standing' = standing /\ baseline'.age = baseline.age
  BY SentenceAtRest DEF RestIsKnown
<1>5. /\ left \in Nat /\ to \in Nat /\ to1 \in Nat
  BY <1>1, <1>2, LeftCases
<1>6. CASE baseline.at # 0
  <2>1. to = ConfirmTime + 2 + Missing(baseline.age, MinBaseline)
    BY <1>6 DEF ToStand
  <2>2. Missing(baseline.age, MinBaseline) \in Nat
    BY <1>1, MissingIsNat
  <2>3. CASE baseline' = baseline
    <3>1. to1 = to
      BY <1>6, <2>1, <2>3 DEF ToStand
    <3>2. to > 0
      BY <2>1, <2>2
    <3> QED
      BY <1>3, <3>1, <3>2 DEF PeriodsLeft
  <2>4. CASE baseline'.at = 0 /\ baseline'.age = 0
    <3>1. to1 <= ConfirmTime + 2
      BY <2>4 DEF ToStand, Missing
    <3>2. to1 <= to
      BY <1>5, <2>1, <2>2, <3>1
    <3>3. to > 0
      BY <2>1, <2>2
    <3> HIDE DEF to, to1, left, left1
    <3>4. to1 < to \/ (to1 = to /\ to > 0)
      BY <1>5, <3>2, <3>3
    <3>5. left1 <= left
      BY <1>3, <3>4
    <3> QED
      BY <3>5 DEF PeriodsLeft, left, left1
  <2> QED
    BY <1>4, <1>6, <2>3, <2>4
<1>7. CASE baseline.at = 0 /\ baseline.age < ConfirmTime
  <2>1. /\ baseline'.at = baseline.at /\ baseline'.age = baseline.age
        /\ standing' = standing /\ fix'.fresh = fix.fresh /\ pose' = pose
    BY <1>1, <1>4, <1>7
  <2>2. left1 = left
    BY <2>1
  <2> QED
    BY <1>5, <2>2 DEF PeriodsLeft
<1>8. CASE baseline.at = 0 /\ baseline.age >= ConfirmTime
  <2>1. /\ baseline'.at = 0 /\ standing' /\ fix'.fresh /\ pose' = pose
    BY <1>1, <1>4, <1>8
  <2>2. to1 = IF pose.speed # 0 THEN 1 ELSE 0
    BY <2>1 DEF ToStand
  <2>3. CASE ~standing
    <3>1. to >= 2
      BY <1>1, <1>8, <2>3, MissingIsNat DEF ToStand
    <3>2. to1 < to
      BY <1>5, <2>2, <3>1
    <3> QED
      BY <1>3, <3>2 DEF PeriodsLeft
  <2>4. CASE standing /\ pose.speed # 0
    <3>1. to = 1 /\ to1 = 1
      BY <1>8, <2>2, <2>4 DEF ToStand
    <3> QED
      BY <1>3, <3>1 DEF PeriodsLeft
  <2>5. CASE standing /\ pose.speed = 0
    <3>1. to = 0 /\ to1 = 0
      BY <1>8, <2>2, <2>5 DEF ToStand
    <3>2. Missing(baseline.age, ConfirmTime) = 0
      BY <1>1, <1>8, MissingIsNat
    <3>3. left1 = left
      BY <2>1, <3>1, <3>2 DEF Left
    <3> QED
      BY <1>5, <3>3 DEF PeriodsLeft
  <2> QED
    BY <2>3, <2>4, <2>5
<1> QED
  BY <1>1, <1>6, <1>7, <1>8

LEMMA PeriodLeft ==
  ASSUME TypeOK', IInv, HeardIsKept, RestIsKnown, AtRest, AtRest',
         NEW d \in Speeds, Period(d)
  PROVE  PeriodsLeft' <= PeriodsLeft /\ (PeriodsLeft' < PeriodsLeft \/ PeriodsLeft = 0)
<1> DEFINE to == ToStand(baseline.at, baseline.age, standing, pose.speed)
           to1 == ToStand(baseline'.at, baseline'.age, standing', pose'.speed)
           left == Left(baseline.at, baseline.age, standing, fix.fresh, pose.at, pose.speed)
           left1 == Left(baseline'.at, baseline'.age, standing', fix'.fresh,
                         pose'.at, pose'.speed)
<1>1. /\ baseline.at \in Int /\ baseline.age \in Nat
      /\ standing \in BOOLEAN /\ fix.fresh \in BOOLEAN
      /\ pose.at \in -Reach..Reach /\ pose.speed \in Nat
  BY LeftTypes DEF IInv
<1>2. /\ baseline'.at \in Int /\ baseline'.age \in Nat
      /\ standing' \in BOOLEAN /\ fix'.fresh \in BOOLEAN
      /\ pose'.at \in -Reach..Reach /\ pose'.speed \in Nat
  BY LeftTypesNext
<1>3. to1 < to => left1 < left /\ left1 <= left
  BY <1>1, <1>2, LeftOrder
<1>4. /\ left \in Nat /\ left1 \in Nat /\ to \in Nat /\ to1 \in Nat
  BY <1>1, <1>2, LeftCases
<1>5. /\ "gps" \in heard /\ fix.at = 0 /\ baseline'.at = baseline.at
      /\ baseline'.age = Older(baseline.age, MaxBaseline)
      /\ ~fix'.fresh /\ standing' = standing
      /\ Initialize(0) \/ Correct(0) \/ Predict(0)
  BY PeriodToRest
<1>6. pose.set /\ baseline.age < IF baseline.at = 0 THEN ConfirmTime ELSE MinBaseline
  BY <1>5 DEF RestIsKnown
<1>7. baseline'.age = baseline.age + 1
  BY <1>1, <1>5, <1>6 DEF Older, Least
<1>8. SUFFICES left1 <= left /\ (left1 < left \/ left = 0)
  BY DEF PeriodsLeft
<1>9. CASE baseline.at # 0
  <2>1. /\ to = ConfirmTime + 2 + Missing(baseline.age, MinBaseline)
        /\ to1 = ConfirmTime + 2 + Missing(baseline.age + 1, MinBaseline)
    BY <1>5, <1>7, <1>9 DEF ToStand
  <2>2. baseline.age < MinBaseline
    BY <1>6, <1>9
  <2>3. to1 < to
    BY <1>1, <2>1, <2>2, MissingIsNat DEF Missing
  <2> QED
    BY <1>3, <2>3
<1>10. CASE baseline.at = 0 /\ ~standing
  <2>1. /\ to = 2 + Missing(baseline.age, ConfirmTime)
        /\ to1 = 2 + Missing(baseline.age + 1, ConfirmTime)
    BY <1>5, <1>7, <1>10 DEF ToStand
  <2>2. baseline.age < ConfirmTime
    BY <1>6, <1>10
  <2>3. to1 < to
    BY <1>1, <2>1, <2>2, MissingIsNat DEF Missing
  <2> QED
    BY <1>3, <2>3
<1>11. CASE baseline.at = 0 /\ standing
  <2>1. pose'.speed = 0
    BY <1>5, <1>6, <1>11 DEF Initialize, Correct, Predict
  <2>2. to1 = 0
    BY <1>5, <1>11, <2>1 DEF ToStand
  <2>3. CASE pose.speed # 0
    <3>1. to = 1
      BY <1>11, <2>3 DEF ToStand
    <3> QED
      BY <1>3, <2>2, <3>1
  <2>4. CASE pose.speed = 0
    <3> DEFINE w == ConfirmTime + 1
               dist == Distance(pose.at)
               dist1 == Distance(pose'.at)
               rest == IF fix.fresh THEN 0 ELSE Missing(baseline.age, ConfirmTime)
               rest1 == Missing(baseline.age + 1, ConfirmTime)
    <3>1. to = 0
      BY <1>11, <2>4 DEF ToStand
    <3>2. /\ left = IF pose.at = 0 THEN 0 ELSE dist * w + rest
          /\ left1 = IF pose'.at = 0 THEN 0 ELSE dist1 * w + rest1
      BY <1>5, <1>7, <2>2, <3>1 DEF Left
    <3>3. w \in Nat \ {0} /\ w - 1 = ConfirmTime
      OBVIOUS
    <3>4. rest \in 0..w - 1 /\ rest1 \in 0..w - 1
      BY <1>1, <3>3, MissingIsNat
    <3>5. dist \in Nat /\ dist1 \in Nat
      BY <1>1, <1>2 DEF Distance
    <3>6. pose.at - 0 + pose.speed * Elapsed = pose.at
      <4>1. Elapsed \in Int
        BY DEF Elapsed, Least, IInv, TypeOK
      <4> QED
        BY <1>1, <2>4, <4>1
    <3>7. CASE Correct(0)
      <4>1. rest = 0 /\ pose'.at = Place(pose.at + Gain(Limited(0 - 0 - pose.at)))
        BY <1>5, <3>6, <3>7 DEF Correct
      <4>2. IF pose.at = 0 THEN pose'.at = 0 ELSE dist1 + 1 <= dist
        BY <1>1, <1>11, <4>1, PullIsCloser
      <4> HIDE DEF w, dist, dist1, rest, rest1
      <4>3. dist1 + 1 <= dist => dist1 * w + rest1 < dist * w + rest
        BY <3>3, <3>4, <3>5, RankFalls
      <4>4. CASE pose.at = 0
        BY <3>2, <4>2, <4>4
      <4>5. CASE pose.at # 0 /\ pose'.at # 0
        <5>1. left1 = dist1 * w + rest1 /\ left = dist * w + rest
          BY <3>2, <4>5
        <5>2. left1 < left
          BY <4>2, <4>3, <4>5, <5>1
        <5> HIDE DEF left, left1
        <5> QED
          BY <1>4, <5>2
      <4>6. CASE pose.at # 0 /\ pose'.at = 0
        <5>1. left # 0
          BY <1>1, <4>6, LeftCases
        <5>2. left1 = 0
          BY <3>2, <4>6
        <5> HIDE DEF left, left1
        <5> QED
          BY <1>4, <5>1, <5>2
      <4> QED
        BY <4>4, <4>5, <4>6
    <3>8. CASE Predict(0)
      <4>1. rest = Missing(baseline.age, ConfirmTime) /\ pose'.at = pose.at
        BY <1>1, <3>6, <3>8, PlaceIsKept DEF Predict
      <4>2. baseline.age < ConfirmTime
        BY <1>6, <1>11
      <4>3. rest1 < rest
        BY <1>1, <4>1, <4>2, MissingIsNat
      <4>4. dist1 = dist /\ dist1 <= dist
        BY <3>5, <4>1
      <4> HIDE DEF w, dist, dist1, rest, rest1
      <4>5. dist1 * w + rest1 < dist * w + rest
        BY <3>3, <3>4, <3>5, <4>3, <4>4, RankFalls
      <4>6. CASE pose.at = 0
        BY <3>2, <4>1, <4>6
      <4>7. CASE pose.at # 0
        <5>1. left1 < left
          BY <3>2, <4>1, <4>5, <4>7
        <5> HIDE DEF left, left1
        <5> QED
          BY <1>4, <5>1
      <4> QED
        BY <4>6, <4>7
    <3> QED
      BY <1>5, <1>6, <3>7, <3>8 DEF Initialize
  <2> QED
    BY <2>3, <2>4
<1> QED
  BY <1>1, <1>9, <1>10, <1>11

(***************************************************************************)
(* The measure behind StandingIsLocated: while the vehicle stands and is    *)
(* heard, each period brings the pose nearer to standing on its place, for  *)
(* every choice of the time constants and limits (gps_receiver.cpp:67-98,   *)
(* udp_manager.cpp:129-161).                                                *)
(***************************************************************************)
THEOREM StandingComesToRest == Spec => []LocatedAtTheEnd /\ StandingConverges
<1> DEFINE Known == IInv /\ HeardIsKept /\ RestIsKnown
<1>1. Init => Known
  BY InitTyped DEF Init, HeardIsKept, RestIsKnown, AtRest
<1>2. Known /\ [Next]_vars => Known'
  BY StepKeeps, HeardStep, RestStep
<1>3. Known => LocatedAtTheEnd
  <2> SUFFICES ASSUME TypeOK PROVE LocatedAtTheEnd
    BY DEF IInv
  <2> QED
    BY LeftTypes, LeftCases DEF LocatedAtTheEnd, PeriodsLeft
<1>4. Known /\ Known' /\ [Next]_vars =>
        [AtRest /\ AtRest' =>
           /\ PeriodsLeft' <= PeriodsLeft
           /\ Move => PeriodsLeft' < PeriodsLeft \/ PeriodsLeft = 0]_vars
  <2> SUFFICES ASSUME IInv, HeardIsKept, RestIsKnown, TypeOK', Next, AtRest, AtRest'
               PROVE  /\ PeriodsLeft' <= PeriodsLeft
                      /\ Move => PeriodsLeft' < PeriodsLeft \/ PeriodsLeft = 0
    BY DEF IInv
  <2>1. CASE GpsPacket
    <3> PICK p \in {0} \cup (IF baseline.set THEN {fix.at} ELSE {}),
             r \in {NoSpeed, 0, speed} : Sentence(p, r)
      BY <2>1 DEF GpsPacket
    <3>1. p = 0
      BY DEF RestIsKnown
    <3>2. heard' # {}
      BY <3>1 DEF Sentence
    <3>3. ~Move
      BY <3>2 DEF Move, Period
    <3> QED
      BY <3>1, <3>3, SentenceLeft
  <2>2. CASE ImuPacket
    <3>1. heard' # {} /\ UNCHANGED <<fix, baseline, standing, pose>>
      BY <2>2 DEF ImuPacket
    <3>2. ~Move
      BY <3>1 DEF Move, Period
    <3>3. PeriodsLeft' = PeriodsLeft /\ PeriodsLeft \in Nat
      BY <3>1, <1>3 DEF PeriodsLeft, LocatedAtTheEnd
    <3> QED
      BY <3>2, <3>3
  <2>3. CASE Move
    BY <2>3, PeriodLeft DEF Move
  <2> QED
    BY <2>1, <2>2, <2>3 DEF Next
<1> HIDE DEF Known
<1> QED
  BY <1>1, <1>2, <1>3, <1>4, PTL DEF Spec, StandingConverges
=============================================================================
