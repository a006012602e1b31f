----------------------------- MODULE PlannerNode -----------------------------
(***************************************************************************)
(* frenet_planner_node in closed loop: main.cpp calls FrenetPlanner::Plan() *)
(* (MergeFsm), turns the answer into a datagram (PlannerLoop), and the      *)
(* vehicle drives on the path it was last sent, which decides where the     *)
(* next call happens.                                                       *)
(*                                                                         *)
(* The vehicle moves by at most one position per period and stands still in *)
(* the period after a stop path: MPC and brakes are inside that abstraction.*)
(* On a "yield" path it goes no further than the stop line.                 *)
(***************************************************************************)
EXTENDS MergeFsm

CONSTANTS MaxTransientFailCycles, None,  \* see PlannerLoop
          Pose                           \* the vehicle state

VARIABLES
  plan_fail_streak, last_cp, last_vehicle_state, out,
  age, resends, vetoed, gap, parity,
  ego,        \* where the vehicle is
  kept,       \* what the path in last_cp is: see Kept
  authority,  \* how far the path in last_cp may lead
  detoured,   \* AVOID has moved the vehicle in this merge zone
  calm        \* the last period met none of the disturbances

Loop == INSTANCE PlannerLoop WITH
          VehicleStates <- {Pose}, AgeBound <- MaxTransientFailCycles + 1

ASSUME LoopAssumption ==
  /\ MaxTransientFailCycles \in Nat
  /\ None \notin {Pose} \cup Loop!PathKinds \cup Loop!Datagrams

(***************************************************************************)
(* The zones as they are configured (params.yaml:45-88, read at one         *)
(* position for the 0.5 m the vehicle drives in a period): the resends that *)
(* a failing Plan() is allowed end within the stop buffer, a commit is      *)
(* decided ahead of the stop line, the line of a checkpoint lies beyond the *)
(* checkpoint before, and zones do not overlap                              *)
(* (frenet_planner.cpp:241-256 rejects highway zones out of order).         *)
(***************************************************************************)
ASSUME SpacingAssumption ==
  /\ \A z \in ZoneIds :
       /\ Zones[z].completion <= Length
       /\ 0 < Zones[z].stop_buffer
       /\ MaxTransientFailCycles <= Zones[z].stop_buffer
       /\ Zones[z].stop_buffer < Zones[z].commit_distance
       /\ Zones[z].start < Conflict(z, 1) - Zones[z].stop_buffer
       /\ \A i \in DOMAIN Zones[z].checkpoints :
            i + 1 \in DOMAIN Zones[z].checkpoints =>
              Conflict(z, i) < Conflict(z, i + 1) - Zones[z].stop_buffer
  /\ \A y, z \in ZoneIds : y # z =>
       \/ Zones[y].completion + 1 < Zones[z].start
       \/ Zones[z].completion + 1 < Zones[y].start

fsmVars == vars
loopVars == <<plan_fail_streak, last_cp, last_vehicle_state, out,
              age, resends, vetoed, gap, parity>>
nodeVars == <<fsmVars, loopVars, ego, kept, authority, detoured, calm>>

\* "none": no path or a stop path; "planned"; "avoid": planned by AVOID;
\* "blocked": the locked path, after Plan() found it blocked.
Kept == {"none", "planned", "avoid", "blocked"}

NodeInit ==
  /\ Init
  /\ Loop!Init
  /\ ego = 0
  /\ kept = "none"
  /\ authority = 0
  /\ detoured = FALSE
  /\ calm = FALSE
------------------------------------------------------------------------------
(***************************************************************************)
(* The vehicle in the period before the call, on the path it was sent.      *)
(***************************************************************************)
Driving == out # None /\ out.path \in Loop!PlanKinds

Advance == Driving /\ ego < authority /\ ego' = ego + 1

Move ==
  /\ ego' = ego \/ Advance
  /\ detoured' = (Active(merge) /\ (detoured \/ (kept = "avoid" /\ ego' # ego)))

(***************************************************************************)
(* What main.cpp makes of the answer of Plan().                             *)
(***************************************************************************)
Limit(path) ==
  IF path # "yield" THEN Length
  ELSE IF StopS(merge') > ego' THEN StopS(merge') ELSE ego'

Succeed ==
  /\ result' \in Paths
  /\ Loop!PlanSucceeds(Pose, IF result' = "yield" THEN "hold" ELSE "drive")
  /\ kept' = IF result' = "avoid" THEN "avoid" ELSE "planned"
  /\ authority' = Limit(result')

Discard == kept' = "none" /\ authority' = 0

Block ==
  /\ result' = "blocked"
  /\ Loop!CollisionBlocked(Pose)
  /\ Discard

\* This call found the locked path blocked and cancelled the commit.
Cancelled == Replaying(ego') /\ ~Committed(merge')

Resend ==
  /\ result' = "transient"
  /\ Loop!ResendLastPath(Pose)
  /\ kept' = IF Cancelled /\ kept # "none" THEN "blocked" ELSE kept
  /\ UNCHANGED authority

Abandon ==
  /\ result' = "transient"
  /\ Loop!GiveUp(Pose)
  /\ Discard

React == Succeed \/ Block \/ Resend \/ Abandon

(***************************************************************************)
(* One period.  A calm one has localization, the same safe gap as every     *)
(* other calm one, no avoidance, candidates, and a clear locked path.       *)
(***************************************************************************)
PlanCalmly ==
  /\ \/ ReplayLockedPath(ego')
     \/ LowSpeedFallback(ego')
     \/ \E far \in BOOLEAN :
          \/ ReachConflict(ego', OpenGap, far, FALSE, "valid")
          \/ PlanUncommitted(ego', OpenGap, far, FALSE, "valid")
  /\ calm' = TRUE

PlanDisturbed ==
  /\ \/ LockedPathExhausted(ego')
     \/ LockedPathBlocked(ego')
     \/ \E verdict \in Verdicts, far \in BOOLEAN, avoiding \in BOOLEAN,
           outcome \in {"valid"} \cup Failures :
          Plan(ego', verdict, far, avoiding, outcome)
  /\ calm' = FALSE

Cycle ==
  /\ Move
  /\ PlanCalmly \/ PlanDisturbed
  /\ React

\* The vehicle state is not valid in this period: Plan() is not called.
LoseLocalization ==
  /\ Move
  /\ Loop!LocalizationLost
  /\ calm' = FALSE
  /\ UNCHANGED <<fsmVars, kept, authority>>

NodeNext == Cycle \/ LoseLocalization

\* Every period does.
Tick == parity' = 1 - parity

NodeSpec == NodeInit /\ [][NodeNext]_nodeVars

(***************************************************************************)
(* The loop runs for ever (a sleep of one period between two iterations),   *)
(* and a vehicle that is given paths to drive on again and again moves.     *)
(***************************************************************************)
FairSpec == NodeSpec /\ WF_parity(Tick) /\ SF_ego(Advance)

------------------------------------------------------------------------------
\* Of its own it says that last_cp holds a path to drive on exactly when the node
\* has planned one that no failure has replaced since.
NodeTypeOK ==
  /\ TypeOK
  /\ Loop!TypeOK
  /\ ego \in 0..Length
  /\ kept \in Kept
  /\ authority \in 0..Length
  /\ detoured \in BOOLEAN
  /\ calm \in BOOLEAN
  /\ last_cp \in Loop!PlanKinds <=> kept # "none"

InStopZone(s) == Active(merge) /\ StopS(merge) <= s /\ s < ConflictS(merge)

(***************************************************************************)
(* Once past the stop line the vehicle goes on only under a lock, unless    *)
(* AVOID moved it in this zone, whatever is resent after a rejected or      *)
(* cancelled commit, a failure or a localization gap                        *)
(* (frenet_planner.cpp:421-437, 834-841, 1108-1122 with main.cpp:77-97,     *)
(* 143-169).  Not from the line on: a commit cancelled just before it       *)
(* leaves the old path to be resent, and each of the MaxTransientFailCycles *)
(* resends drives one position further.                                     *)
(***************************************************************************)
StopLineHeld ==
  [][InStopZone(ego) /\ ego' > ego =>
       \/ merge.gap_locked \/ detoured'
       \/ ego' < StopS(merge) + MaxTransientFailCycles]_nodeVars

(***************************************************************************)
(* The locked path is never driven on after Plan() has found it blocked     *)
(* (main.cpp:149-151: "if a past driving path is reused although the new    *)
(* candidates were all removed for collision, the vehicle keeps following   *)
(* a path that has already become dangerous").                              *)
(***************************************************************************)
BlockedLockedPathNotReused == kept = "blocked" => ~Driving

(***************************************************************************)
(* No commit, rejection, cancellation, failure or emergency stop leaves the *)
(* planner where it waits for ever: once periods are calm for good, every   *)
(* merge is completed (frenet_planner.cpp:455-457 names the deadlock in     *)
(* front of the conflict point this avoids).                                *)
(***************************************************************************)
MergeCompletes == <>[]calm => <>[](~Active(merge))
==============================================================================
