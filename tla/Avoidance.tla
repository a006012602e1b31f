------------------------------ MODULE Avoidance ------------------------------
(***************************************************************************)
(* Driving around standing obstacles: the AvoidanceContext of               *)
(* FrenetPlanner::Plan() (frenet_planner.cpp:455-575, 815-1012) with        *)
(* frenet/avoidance_selector.cpp, the candidates it chooses from            *)
(* (Candidates), the object list of object_udp_bridge_node, the reaction of *)
(* main.cpp to a failed call, and the vehicle on the path it was sent.      *)
(*                                                                         *)
(* The bridge numbers the objects by their place in the list, so ids change *)
(* when the list does: a Stranger beside the road may be listed before the  *)
(* obstacles or not.  In a period of the loop the vehicle moves by at most  *)
(* one position, and Plan() is called.  The vehicle stands on a stop path,  *)
(* and stays where it is once it touches an obstacle.  No merge zone is     *)
(* near.                                                                    *)
(***************************************************************************)
EXTENDS Candidates, Sequences

CONSTANTS
  Length,          \* of the road
  Worlds,          \* sequences of places of obstacles
  Strangers,       \* places of an object beside the road
  MaxSlots,        \* kMaxSlots
  Cruise, Slow,    \* target speed, and the one a tight path is planned with
  Detection,       \* detection_distance
  VehicleLength,   \* vehicle_shape_.length + safety_margin
  ShiftStart,      \* shift_start_distance
  HalfLane,        \* lane_width / 2
  AvoidOffset,     \* avoid_offset
  SideMargin,      \* kDirectionExtraMargin
  ShiftTolerance,  \* lateral_tolerance
  ClearDistance,   \* behind the obstacle, to end the manoeuvre
  Recenter,        \* kRecenterDistM
  MaxTransientFailCycles,
  CallsPerPosition \* the vehicle is that slow at least

Places == [s : Int, d : Int]

\* ObjectInfo::parse_data() and params.yaml: distances are not negative, and no
\* candidate is made that stands.
ASSUME AvoidanceAssumption ==
  /\ Length \in Nat /\ MaxSlots \in Nat
  /\ Worlds \subseteq Seq(Places) /\ Strangers \subseteq Places
  /\ Cruise \in Int /\ Slow \in Int
  /\ \A step \in SpeedSteps : Cruise + step > 0 /\ Slow + step > 0
  /\ Detection \in Nat /\ VehicleLength \in Nat
  /\ ShiftStart \in Nat /\ HalfLane \in Nat
  /\ AvoidOffset \in Nat /\ SideMargin \in Nat /\ ShiftTolerance \in Nat
  /\ ClearDistance \in Nat /\ Recenter \in Nat \ {0}
  /\ MaxTransientFailCycles \in Nat /\ CallsPerPosition \in Nat

\* params.yaml:35, 133: a manoeuvre begins out of reach of the obstacle, and the
\* filter looks further than the next position.
ASSUME EarlyEnough == Reach < ShiftStart /\ 1 < Lookahead

\* A path sent again is replaced before the vehicle has come far on it.
ASSUME ShortResend == CallsPerPosition > MaxTransientFailCycles + 1

VARIABLES
  world,      \* the obstacles
  stranger,   \* the object listed before them: a set of at most one
  ego,        \* position, and whether below kLowSpeedFallbackV
  avoidance,  \* AvoidanceContext avoidance_
  path,       \* the path that was sent
  plan_fail_streak,
  moved,      \* the vehicle's part of the period is over
  (* Observer. *)
  calm        \* no failure of generation, no change of the list so far

avoidVars == <<world, stranger, ego, avoidance, path, plan_fail_streak, moved, calm>>

NoContext == [phase |-> "NONE", id |-> 0, s |-> 0, d |-> 0, target |-> 0]
NoPath == [kind |-> "none"]
StopPath == [kind |-> "stop"]
Phases == {"NONE", "TRACKING", "SHIFT", "PASS"}

\* The list of the bridge: the first MaxSlots objects, numbered from 1.
Listed(ahead, w) ==
  LET all == (IF ahead = {} THEN <<>> ELSE <<CHOOSE p \in ahead : TRUE>>) \o w
  IN  SubSeq(all, 1, IF Len(all) < MaxSlots THEN Len(all) ELSE MaxSlots)

AvoidInit ==
  /\ world \in Worlds
  /\ stranger \in {{}} \cup {{p} : p \in Strangers}
  /\ ego = [s |-> 0, d |-> 0, slow |-> TRUE]
  /\ avoidance = NoContext
  /\ path = NoPath
  /\ plan_fail_streak = 0
  /\ moved = FALSE
  /\ calm = TRUE
------------------------------------------------------------------------------
(***************************************************************************)
(* The context, at the start of a call that is not in the low speed branch. *)
(***************************************************************************)
Active(a) == a.phase # "NONE"
Maneuvering(a) == a.phase \in {"SHIFT", "PASS"}

\* The stored place follows the object that has the id now.
Refreshed(a, objs) ==
  IF Active(a) /\ a.id \in DOMAIN objs
    THEN [a EXCEPT !.s = objs[a.id].s, !.d = objs[a.id].d] ELSE a

Begins(a, e) == a.phase = "TRACKING" /\ a.s - e.s <= ShiftStart

\* Seeded fault: the phase is reset, the rest of the context is kept.
KeepsOldObstacle(a, e) ==
  IF a.phase = "SHIFT" /\ Abs(e.d - a.target) <= ShiftTolerance
    THEN [a EXCEPT !.phase = "PASS"]
  ELSE IF Maneuvering(a) /\ a.s - e.s < -ClearDistance THEN [a EXCEPT !.phase = "NONE"]
  ELSE a

Advanced(a, e) ==
  IF a.phase = "SHIFT" /\ Abs(e.d - a.target) <= ShiftTolerance
    THEN [a EXCEPT !.phase = "PASS"]
  ELSE IF Maneuvering(a) /\ a.s - e.s < -ClearDistance THEN NoContext
  ELSE a

\* Seeded fault: the configured distance only.
ConfiguredRange == Detection

\* What a candidate at the target speed is examined for is a little more than
\* this, since its margin grows with time; slower candidates see less far.
AcquisitionRange == Larger(Detection, Cruise * Lookahead + VehicleLength)

Ahead(objs, e) ==
  {i \in DOMAIN objs : objs[i].s > e.s /\ objs[i].s - e.s <= AcquisitionRange}

InLane(objs, e) == {i \in Ahead(objs, e) : Abs(objs[i].d) <= HalfLane}

NearestInLane(objs, e) ==
  CHOOSE i \in InLane(objs, e) : \A j \in InLane(objs, e) :
    objs[i].s < objs[j].s \/ (objs[i].s = objs[j].s /\ i <= j)

IsSideClear(objs, e, offset) ==
  \A i \in Ahead(objs, e) : Abs(objs[i].d - offset) >= Width

FirstOffset(objs, e) ==
  IF IsSideClear(objs, e, AvoidOffset) \/ ~IsSideClear(objs, e, -AvoidOffset)
    THEN AvoidOffset ELSE -AvoidOffset

\* FindStaticAvoidanceTarget(), when there is no context.
Acquired(a, objs, e) ==
  IF Active(a) \/ InLane(objs, e) = {} THEN a
  ELSE LET i == NearestInLane(objs, e)
       IN  [phase |-> "TRACKING", id |-> i, s |-> objs[i].s, d |-> objs[i].d,
            target |-> FirstOffset(objs, e)]
------------------------------------------------------------------------------
\* Seeded fault: it stays out during the manoeuvre.
StaysOut(a, begins, objs) ==
  {objs[i] : i \in {j \in DOMAIN objs : ~(Active(a) /\ j = a.id)}}

(***************************************************************************)
(* Candidates of the call.  While an obstacle is tracked and its manoeuvre  *)
(* does not begin yet, the collision filter does not look at it.            *)
(***************************************************************************)
PlanningObstacles(a, begins, objs) ==
  {objs[i] : i \in {j \in DOMAIN objs : ~(a.phase = "TRACKING" /\ ~begins /\ j = a.id)}}

\* CandidateCurvatureSpeedLimit(): a path that turns is a slow one.
SpeedLimit(c, e) == IF 2 * Abs(c.to - e.d) > Span(c) THEN Slow ELSE Cruise

\* A call's candidates: the valid ones, and whether the collision filter
\* dropped any.  AVOID plans with the target speed and again with what the best
\* path allows; paths that are still too fast for their turn are dropped last.
AvoidCandidates(e, target, places) ==
  LET first == FilterByCollision(ResolveManeuver(e, target, Cruise), e, places)
      speed == IF first = {} THEN Cruise ELSE SpeedLimit(SelectBest(first, e, target), e)
      made == ResolveManeuver(e, target, speed)
      clear == FilterByCollision(made, e, places)
  IN  [valid |-> {c \in clear : c.speed <= SpeedLimit(c, e)},
       blocked |-> clear # made, target |-> target]

LaneCandidates(e, places) ==
  LET made == ResolveManeuver(e, 0, Cruise)
      clear == FilterByCollision(made, e, places)
  IN  [valid |-> clear, blocked |-> clear # made, target |-> 0]

CostOf(cands, e) ==
  Cost(SelectBest(cands.valid, e, cands.target), e, cands.target)

\* The right side, when it alone is possible or costs no more than a
\* twentieth above the left.
ChooseRight(left, right, e) ==
  /\ right.valid # {}
  /\ \/ left.valid = {}
     \/ 20 * (CostOf(right, e) - CostOf(left, e)) <= Larger(1, CostOf(left, e))

LeftOf(a) == a.d + Width + SideMargin
RightOf(a) == a.d - Width - SideMargin

\* The context and the candidates when the manoeuvre is to begin: the side is
\* fixed with the first call that finds a way past.
Begin(a, e, places) ==
  LET left == AvoidCandidates(e, LeftOf(a), places)
      right == AvoidCandidates(e, RightOf(a), places)
      Go(side) == [context |-> [a EXCEPT !.phase = "SHIFT", !.target = side.target],
                   cands |-> side]
  IN  IF ChooseRight(left, right, e) THEN Go(right)
      ELSE IF left.valid # {} THEN Go(left)
      ELSE [context |-> a,
            cands |-> [left EXCEPT !.blocked = left.blocked \/ right.blocked]]

\* What a call of Plan() makes of the context, and its candidates.
Resolve(objs, e) ==
  LET seen == Refreshed(avoidance, objs)
      begins == Begins(seen, e)
      a == Acquired(IF begins THEN seen ELSE Advanced(seen, e), objs, e)
      places == PlanningObstacles(a, begins, objs)
  IN  IF begins THEN Begin(a, e, places)
      ELSE [context |-> a,
            cands |-> IF Maneuvering(a) THEN AvoidCandidates(e, a.target, places)
                      ELSE LaneCandidates(e, places)]
------------------------------------------------------------------------------
(***************************************************************************)
(* The reaction of main.cpp: the path that is sent.                         *)
(***************************************************************************)
Drives(p) == p.kind \in {"plan", "crawl"}

\* Where path p leads to across the road, one position on.
NextD(p) == p.d + Part(p.to - p.d, ego.s + 1 - p.s, p.span)

\* The number of calls in a row, at one position, that led to the same place.
Held(p) ==
  IF Drives(path) /\ path.kind = p.kind /\ NextD(path) = NextD(p)
    THEN IF path.held < CallsPerPosition THEN path.held + 1 ELSE path.held
    ELSE 1

Sent(p) == path' = [p EXCEPT !.held = Held(p)]

Drive(kind, e, to, span) ==
  /\ Sent([kind |-> kind, s |-> e.s, d |-> e.d, to |-> to, span |-> span, held |-> 0])
  /\ plan_fail_streak' = 0

Fail == plan_fail_streak' =
  IF plan_fail_streak > MaxTransientFailCycles THEN plan_fail_streak ELSE plan_fail_streak + 1

\* COLLISION_BLOCKED.
Stop == Fail /\ path' = StopPath

\* Any other failure: the last path once more, for a while.
Resend ==
  /\ Fail
  /\ IF path = NoPath \/ plan_fail_streak >= MaxTransientFailCycles
       THEN path' = StopPath
       ELSE IF Drives(path) THEN Sent(path) ELSE UNCHANGED path

\* Seeded fault: the branch that was removed, which held the vehicle in place
\* while a manoeuvre was near (frenet_planner.cpp:465-468).
HoldsInPlace(e) ==
  /\ e.slow
  /\ IF Maneuvering(avoidance) \/ (avoidance.phase = "TRACKING" /\ avoidance.s - e.s <= ShiftStart)
       THEN path' = StopPath /\ plan_fail_streak' = 0
       ELSE Drive("crawl", e, 0, Recenter)
  /\ UNCHANGED avoidance

\* Below kLowSpeedFallbackV: a path to the centre, or to the side of a
\* manoeuvre that is near.  Neither context nor obstacles are looked at again.
LowSpeedFallback(e) ==
  LET near == avoidance.phase = "TRACKING" /\ avoidance.s - e.s <= ShiftStart
  IN  /\ e.slow
      /\ Drive("crawl", e, IF near \/ Maneuvering(avoidance) THEN avoidance.target ELSE 0,
               Recenter)
      /\ UNCHANGED avoidance

PlanPath(objs, e) ==
  LET r == Resolve(objs, e)
  IN  /\ ~e.slow
      /\ avoidance' = r.context
      /\ IF r.cands.valid # {}
           THEN LET c == SelectBest(r.cands.valid, e, r.cands.target)
                IN  Drive("plan", e, c.to, Span(c))
           ELSE IF r.cands.blocked THEN Stop
           ELSE Resend

\* The acceleration at hand rules all candidates out before the collision
\* filter: a manoeuvre does not begin, the rest of the context moves on.
GenerationFails(objs, e) ==
  LET seen == Refreshed(avoidance, objs)
  IN  /\ ~e.slow
      /\ avoidance' = IF Begins(seen, e) THEN seen ELSE Acquired(Advanced(seen, e), objs, e)
      /\ Resend

------------------------------------------------------------------------------
(***************************************************************************)
(* The vehicle, the simulator's list and the period of the loop.            *)
(***************************************************************************)
Touches(e) == \E i \in 1..Len(world) : Overlaps(e.s, e.d, world[i])

Driving == Drives(path) /\ ego.s < Length /\ ~Touches(ego)

Advance ==
  /\ ~moved /\ moved' = TRUE
  /\ Driving
  /\ path.held = CallsPerPosition
  /\ ego' = [s |-> ego.s + 1, d |-> NextD(path), slow |-> FALSE]
  /\ path' = [path EXCEPT !.held = 0]
  /\ UNCHANGED <<world, stranger, avoidance, plan_fail_streak, calm>>

Stay ==
  /\ ~moved /\ moved' = TRUE
  /\ ego' = [ego EXCEPT !.slow = ego.slow \/ ~Driving]
  /\ UNCHANGED <<world, stranger, avoidance, path, plan_fail_streak, calm>>

\* A call of Plan() with the list of that moment, and what main.cpp sends.
Cycle ==
  /\ moved /\ moved' = FALSE
  /\ stranger' \in {{}} \cup {{p} : p \in Strangers}
  /\ LET objs == Listed(stranger', world)
     IN  \/ /\ LowSpeedFallback(ego) \/ PlanPath(objs, ego)
            /\ calm' = (calm /\ stranger' = stranger)
         \/ GenerationFails(objs, ego) /\ calm' = FALSE
  /\ UNCHANGED <<world, ego>>

AvoidNext == Advance \/ Stay \/ Cycle

AvoidSpec == AvoidInit /\ [][AvoidNext]_avoidVars

\* The periods go on, and a vehicle that is again and again given a path that
\* leads the same way moves.
Goes == moved' = ~moved

FairAvoidSpec == AvoidSpec /\ WF_moved(Goes) /\ SF_avoidVars(Advance)

------------------------------------------------------------------------------
AvoidTypeOK ==
  /\ world \in Worlds
  /\ \A p \in stranger : p \in Strangers
  /\ ego.s \in 0..Length /\ ego.d \in Int /\ ego.slow \in BOOLEAN
  /\ avoidance.phase \in Phases /\ avoidance.id \in 0..MaxSlots
  /\ avoidance.phase = "NONE" => avoidance = NoContext
  /\ path.kind \in {"none", "stop", "plan", "crawl"}
  /\ plan_fail_streak \in 0..MaxTransientFailCycles + 1
  /\ moved \in BOOLEAN /\ calm \in BOOLEAN

(***************************************************************************)
(* A vehicle above crawling speed never drives into a listed obstacle: not  *)
(* on a path planned while its collision filter left the tracked obstacle   *)
(* out, not on such a path sent again, and whatever becomes of the ids.     *)
(***************************************************************************)
ContactOnlyCrawling ==
  [][~Touches(ego) /\ Touches(ego') => path.kind = "crawl"]_avoidVars

\* Where a path of an avoidance may end, and the lane.
Edge == Larger(AvoidOffset, Width + SideMargin + HalfLane) + Tolerance

\* Obstacles in a row across the road, without a gap that the vehicle fits in.
Barred ==
  \A d \in -Edge..Edge : \E i \in DOMAIN world :
    world[i].s = world[1].s /\ Abs(world[i].d - d) < Width

(***************************************************************************)
(* The promise of avoidance_selector.cpp:70-74 and                          *)
(* frenet_planner.cpp:990-992: with both sides blocked no candidate passes  *)
(* the collision check and the planner ends in a safe stop.  No call fails  *)
(* to generate and the list stays as it is.                                 *)
(***************************************************************************)
BlockedRoadStops == calm /\ Barred => ~Touches(ego)

(***************************************************************************)
(* One obstacle in the way, whatever its side: as long as no call fails to  *)
(* generate and the list stays as it is, the vehicle is never told to stop. *)
(* An obstacle comes into sight of the candidates at the target speed       *)
(* before it is registered.  There must be a slower candidate, and it must  *)
(* not see the obstacle yet; from then on the filter leaves the tracked     *)
(* obstacle out, until the manoeuvre begins where there is room for it.     *)
(***************************************************************************)
LoneObstacleNeverStops == calm /\ Len(world) = 1 => path # StopPath

\* The list stays one way.
ListSettles == <>[](stranger = {}) \/ <>[](stranger # {})

(***************************************************************************)
(* The vehicle never stands in front of an obstacle for good: whichever     *)
(* calls fail, and whatever object has the id of the obstacle when the list *)
(* settles, it comes to the end of the road, unless it touches an obstacle. *)
(* A stop path lets the vehicle stand, the speed of a vehicle that stands   *)
(* leads to the low speed branch, and that one must not lead to a stop path *)
(* again (frenet_planner.cpp:465-468).                                      *)
(***************************************************************************)
KeepsGoing == ListSettles => <>(ego.s = Length \/ Touches(ego))
==============================================================================
