---------------------------- MODULE Localization ----------------------------
(***************************************************************************)
(* Localization of frenet_planner_node from GPS and IMU (udp_network/).     *)
(*                                                                         *)
(* The two receiver threads keep the last fix and the time of the last IMU  *)
(* packet; once a period the loop asks has_vehicle_state() and, if it may,  *)
(* get_vehicle_state(), which predicts the pose on and pulls it towards a   *)
(* new fix by a limited step.                                               *)
(*                                                                         *)
(* One axis, the direction of travel.  Time is counted in periods of the    *)
(* loop, ages are rounded up.  Places are relative to the vehicle, so they  *)
(* all fall back by what it moves in a period; speeds are per period.       *)
(* Stretches and speeds beyond a bound saturate there.                      *)
(***************************************************************************)
EXTENDS Integers

CONSTANTS
  TopSpeed,        \* the vehicle moves 0..TopSpeed in a period
  Reach,           \* saturation of places
  GpsTimeout,      \* gps_timeout
  ImuTimeout,      \* imu_timeout
  MaxPrediction,   \* max_prediction_time
  MinBaseline,     \* 0.10 s: positions this far apart give a speed
  ConfirmTime,     \* kStationaryConfirmTime
  MaxBaseline,     \* 2.0 s: positions farther apart give none
  ForwardLimit,    \* 0.75 m
  BackwardLimit,   \* 0.05 m while it moves
  StandingLimit    \* 0.30 m backward when it stands

ASSUME SpeedAssumption == TopSpeed \in Nat
ASSUME TimeAssumption ==
  /\ {GpsTimeout, ImuTimeout, MaxPrediction, MinBaseline} \subseteq Nat \ {0}
  /\ ConfirmTime \in Nat /\ MaxBaseline \in Nat
  /\ MinBaseline < ConfirmTime /\ ConfirmTime + GpsTimeout <= MaxBaseline
ASSUME LimitAssumption ==
  /\ {Reach, ForwardLimit, BackwardLimit, StandingLimit} \subseteq Nat
  /\ 0 < ForwardLimit /\ 0 < StandingLimit

Speeds == 0..TopSpeed
FarBack == MaxBaseline + 1     \* saturation of the age of the baseline
CoastBound == 2 * MaxBaseline  \* saturation of coast
NoSpeed == -1                  \* the sentence reports no speed

VARIABLES
  fix,       \* fix_ of GpsReceiver: place, speed, age of the last sentence, and
             \* fresh: position_time_ns is not applied_gps_position_ns_ yet
  baseline,  \* previous_easting_ and previous_position_time_
  standing,  \* stationary_confirmed_
  imu,       \* age of the last IMU packet
  pose,      \* localization_x_, _v_, and the age of localization_update_ns_
  valid,     \* what has_vehicle_state() last answered
  speed,     \* what the vehicle moved in the last period
  (* Observers: they record what happened and guard nothing. *)
  heard,     \* what was heard since the last period: "gps" for a current place
  calm,      \* both were heard in the last period
  coast      \* time predicted on, moving, since a fix was last applied

receiverVars == <<fix, baseline, standing, imu>>
vars == <<receiverVars, pose, valid, speed, heard, calm, coast>>

Least(a, b) == IF a < b THEN a ELSE b
Within(x, lo, hi) == IF x < lo THEN lo ELSE IF x > hi THEN hi ELSE x
Place(x) == Within(x, -Reach, Reach)
Older(age, limit) == Least(age + 1, limit + 1)

Init ==
  /\ fix = [at |-> 0, speed |-> 0, filtered |-> FALSE, age |-> GpsTimeout + 1,
            fresh |-> FALSE]
  /\ baseline = [at |-> 0, age |-> FarBack, set |-> FALSE]
  /\ standing = FALSE
  /\ imu = ImuTimeout + 1
  /\ pose = [at |-> 0, speed |-> 0, age |-> MaxPrediction + 1, set |-> FALSE]
  /\ valid = FALSE
  /\ speed \in Speeds
  /\ heard = {}
  /\ calm = FALSE
  /\ coast = 0

------------------------------------------------------------------------------
(***************************************************************************)
(* GpsReceiver::update_position(), for a sentence with place p and reported *)
(* speed r (NoSpeed for GPGGA).                                             *)
(***************************************************************************)
Changed(p) == ~baseline.set \/ p # baseline.at

\* distance / dt, to a whole step; more than the top speed is thrown away.
Derived(p) ==
  LET d == IF p > baseline.at THEN p - baseline.at ELSE baseline.at - p
  IN {v \in Speeds : (v - 1) * baseline.age < d /\ d < (v + 1) * baseline.age}

MayDerive(p) == /\ baseline.set /\ Changed(p)
                /\ baseline.age \in MinBaseline..MaxBaseline

\* The vehicle has not moved since the baseline, for long enough.
Confirms(p) == baseline.set /\ ~Changed(p) /\ baseline.age >= ConfirmTime

\* The measured speeds; empty if the sentence gives none.
Measured(p, r) ==
  IF Confirms(p) THEN {0}
  ELSE IF MayDerive(p) /\ r < 1 THEN Derived(p)
  ELSE IF r >= 1 THEN {r} \cup IF MayDerive(p) THEN Derived(p) \cap {0} ELSE {}
  ELSE {}

\* Seeded fault: the low pass steps away from the measured speed.
FiltersBackwards(m) == {IF fix.filtered THEN 2 * fix.speed - m ELSE m}

\* The low pass ends between the old speed and the new, nearer to the new.
Filtered(m) ==
  IF ~fix.filtered \/ m = fix.speed THEN {m}
  ELSE ((fix.speed..m) \cup (m..fix.speed)) \ {fix.speed}

Advances(p) ==
  \/ ~baseline.set
  \/ MayDerive(p)
  \/ Confirms(p)
  \/ baseline.age > MaxBaseline

\* Seeded fault: a repeated position never counts as a new fix.
RefreshesOnChange(p) == Changed(p)

\* position_time_ns is set anew.
Refreshes(p) == Changed(p) \/ Confirms(p)

\* Seeded fault: once confirmed, standing is never taken back.
StandsForGood(p) == standing \/ Confirms(p)

Stands(p) == (standing /\ ~Changed(p)) \/ Confirms(p)

Sentence(p, r) ==
  /\ standing' = Stands(p)
  /\ \E s \in IF Measured(p, r) = {} THEN {fix.speed}
              ELSE IF standing' THEN {0}
              ELSE UNION {Filtered(m) : m \in Measured(p, r)} :
       fix' = [at |-> p, speed |-> s, age |-> 0,
               filtered |-> fix.filtered \/ Measured(p, r) # {},
               fresh |-> fix.fresh \/ Refreshes(p)]
  /\ baseline' = IF Advances(p) THEN [at |-> p, age |-> 0, set |-> TRUE] ELSE baseline
  /\ heard' = heard \cup {IF p = 0 THEN "gps" ELSE "old"}
  /\ UNCHANGED <<imu, pose, valid, speed, calm, coast>>

\* A sentence with the place of the vehicle, or the last one sent again.
GpsPacket ==
  \E p \in {0} \cup (IF baseline.set THEN {fix.at} ELSE {}), r \in {NoSpeed, 0, speed} :
    Sentence(p, r)

ImuPacket ==
  /\ imu' = 0
  /\ heard' = heard \cup {"imu"}
  /\ UNCHANGED <<fix, baseline, standing, pose, valid, speed, calm, coast>>

------------------------------------------------------------------------------
(***************************************************************************)
(* get_gps_imu_pose(), after the vehicle has moved by d.                    *)
(***************************************************************************)
\* The gain of 0.45, to the next whole step.
Gain(x) == IF x < 0 THEN -((19 - 9 * x) \div 20) ELSE (9 * x + 19) \div 20

Limited(innovation) ==
  Within(innovation, IF standing THEN -StandingLimit ELSE -BackwardLimit, ForwardLimit)

Elapsed == Least(MaxPrediction, pose.age + 1)

Initialize(d) ==
  /\ ~pose.set
  /\ pose' = [at |-> Place(fix.at - d), speed |-> fix.speed, age |-> 0, set |-> TRUE]
  /\ coast' = 0

Correct(d) ==
  LET predicted == pose.at - d + pose.speed * Elapsed
  IN /\ pose.set /\ fix.fresh
     /\ pose' = [at |-> Place(predicted + Gain(Limited(fix.at - d - predicted))),
                 speed |-> IF standing THEN 0 ELSE fix.speed, age |-> 0, set |-> TRUE]
     /\ coast' = 0

Predict(d) ==
  /\ pose.set /\ ~fix.fresh
  /\ pose' = [at |-> Place(pose.at - d + pose.speed * Elapsed),
              speed |-> IF standing THEN 0 ELSE pose.speed, age |-> 0, set |-> TRUE]
  /\ coast' = IF pose.speed > 0 THEN Least(coast + Elapsed, CoastBound) ELSE coast

\* No pose is asked for; the last one stays where it is.
Blind(d) ==
  /\ pose' = [pose EXCEPT !.at = Place(@ - d), !.age = Older(@, MaxPrediction)]
  /\ UNCHANGED coast

\* One period: the vehicle moves by d, then the loop asks.
Period(d) ==
  /\ imu' = Older(imu, ImuTimeout)
  /\ valid' = (imu' <= ImuTimeout /\ fix.age + 1 <= GpsTimeout)
  /\ fix' = [fix EXCEPT !.at = Place(@ - d), !.age = Older(@, GpsTimeout),
                        !.fresh = @ /\ ~valid']
  /\ baseline' = [baseline EXCEPT !.at = Place(@ - d), !.age = Older(@, MaxBaseline)]
  /\ \/ valid' /\ (Initialize(d) \/ Correct(d) \/ Predict(d))
     \/ ~valid' /\ Blind(d)
  /\ speed' = d
  /\ calm' = (heard = {"gps", "imu"})
  /\ heard' = {}
  /\ UNCHANGED standing

Move == \E d \in Speeds : Period(d)

Next == GpsPacket \/ ImuPacket \/ Move

Spec == Init /\ [][Next]_vars

\* The loop sleeps to its next period and waits for nothing else.
FairSpec == Spec /\ WF_vars(Move)

------------------------------------------------------------------------------
TypeOK ==
  /\ fix \in [at : -Reach..Reach, speed : Speeds, filtered : BOOLEAN,
              age : 0..GpsTimeout + 1, fresh : BOOLEAN]
  /\ baseline \in [at : -Reach..Reach, age : 0..FarBack, set : BOOLEAN]
  /\ pose \in [at : -Reach..Reach, speed : Speeds, age : 0..MaxPrediction + 1,
               set : BOOLEAN]
  /\ standing \in BOOLEAN /\ valid \in BOOLEAN /\ calm \in BOOLEAN
  /\ imu \in 0..ImuTimeout + 1
  /\ speed \in Speeds
  /\ heard \subseteq {"gps", "imu", "old"}
  /\ coast \in 0..CoastBound

\* However the sentences come, dead reckoning ends soon after the last new fix:
\* a place that is repeated for ConfirmTime counts as standing still, and silence
\* takes the pose away (gps_receiver.cpp:91-98, udp_manager.cpp:91-99).
CoastingRunsOut == coast + 2 <= ConfirmTime + GpsTimeout

\* Once the vehicle stands for good and is heard every period, the pose in the
\* end stands on its place, though each fix may pull it by a step only and the
\* sentences repeat one place (udp_manager.cpp:129-161).
StandingIsLocated ==
  <>[](calm /\ speed = 0) => <>[](pose.speed = 0 /\ pose.at = 0)

\* Once it moves for good, standing is forgotten and the pose moves with it
\* (gps_receiver.cpp:79).
MotionIsTracked ==
  <>[](calm /\ speed = TopSpeed)
    => <>[](pose.speed = TopSpeed /\ pose.at - fix.at \in -1..1)
=============================================================================
