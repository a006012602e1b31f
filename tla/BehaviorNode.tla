---------------------------- MODULE BehaviorNode ----------------------------
(***************************************************************************)
(* The 10 Hz loop of behavior_node (behavior_planner).                      *)
(*                                                                         *)
(* One action is one iteration of spin(): spinOnce() runs the callbacks     *)
(* that are queued, of which only the last of each topic leaves a trace,    *)
(* and runOnce() turns what is then known into a feature, a decision and    *)
(* two messages.  Everything runs on one thread.  The only memory between   *)
(* iterations is the last messages and the id of the vehicle followed.      *)
(*                                                                         *)
(* Places are a link and metres along it; lateral places are decimetres;    *)
(* published speeds are decimetres per second, which makes the formulas of  *)
(* the code exact.  Time-to-collision tests are cross-multiplied.           *)
(***************************************************************************)
EXTENDS MGeo, Sequences

CONSTANTS
  Maps,          \* the maps the node may have loaded
  Lights,        \* what the provider may say of a traffic light
  EgoMessages(_),    \* [link, s, speed] on a map; link NoLink if off the map
  ObjectMessages(_), \* lists of [id, type, link, s, lat, speed, braking]
  None               \* nothing received, nothing published

NoLink == 0
NoLead == -1                     \* last_lead_vehicle_id_ without a leader
NoVehicle == [id |-> NoLead]
DefaultSpeed == 139              \* 13.9 m/s, for links without a limit
LaneWidth == 35                  \* kLaneWidth
FrontLookahead == 120            \* kFrontLookahead
StopLookahead == 200
LeadBonus == 4
StopWindow == 30                 \* a stop line is heeded from here on
Unbounded == 1000000             \* 1e9: a gap nobody fills

\* MGeoLoader::load(): link numbers are positive, NoLink is none of them; a link
\* has two ends, a length, and neighbours or none.
ASSUME MapsAssumption ==
  \A m \in Maps :
    /\ m.links \subseteq Nat \ {NoLink} /\ IsFiniteSet(m.links)
    /\ m.from \in [m.links -> Nat] /\ m.to \in [m.links -> Nat]
    /\ m.length \in [m.links -> Nat] /\ m.limit \in [m.links -> Nat]
    /\ m.base \in [m.links -> Int] /\ m.offset \in [m.links -> Int]
    /\ m.left \in [m.links -> m.links \cup {NoLink}]
    /\ m.right \in [m.links -> m.links \cup {NoLink}]

Objects(m) ==
  [id : Int, type : {"vehicle", "pedestrian", "obstacle"}, link : m.links \cup {NoLink},
   s : Nat, lat : Int, speed : Int, braking : Int]

\* findNearestLink(): a place is on a link of the map, not before its start.
ASSUME MessagesAssumption ==
  \A m \in Maps :
    /\ None \notin EgoMessages(m)
    /\ EgoMessages(m) \subseteq [link : m.links \cup {NoLink}, s : Nat, speed : Int]
    /\ ObjectMessages(m) \subseteq Seq(Objects(m))

VARIABLES
  map, lights,            \* loaded in the constructor, never written again
  ego,                    \* ego_, None while ego_received_ is false
  objects,                \* objects_
  last_lead_vehicle_id,   \* of FeatureBuilder
  feature,                \* the UrbanFeature published last, None before the first
  context                 \* the BehaviorContext published last, None before

vars == <<map, lights, ego, objects, last_lead_vehicle_id, feature, context>>

Least(S, bound) == CHOOSE x \in S \cup {bound} : \A y \in S \cup {bound} : x <= y
AtLeast(a, b) == IF a < b THEN b ELSE a
AtMost(a, b) == IF a < b THEN a ELSE b
AbsOf(a) == IF a < 0 THEN -a ELSE a

Init ==
  /\ map \in Maps
  /\ lights \in [map.stops -> Lights]
  /\ ego = None
  /\ objects = <<>>
  /\ last_lead_vehicle_id = NoLead
  /\ feature = None
  /\ context = None

(***************************************************************************)
(* projectEgo(): the route reference line runs through every place; base    *)
(* and offset place each link along and beside it.                          *)
(***************************************************************************)
RouteS(link, s) == IF link = NoLink THEN s ELSE map.base[link] + s
RouteD(link) == IF link = NoLink THEN 0 ELSE map.offset[link]

------------------------------------------------------------------------------
(***************************************************************************)
(* FeatureBuilder::build(), for the ego message e and the objects seen.     *)
(* `gate` holds the objects that pass the geometric test of the corridor,   *)
(* which depends on shapes the map record leaves out.                       *)
(***************************************************************************)
Target(side, link) == IF link = NoLink THEN NoLink ELSE map[side][link]

\* forward_in_topology && geometry_front_gate, with the gap it then has.
TopologyGap(e, o) == FindForwardDistance(map, e.link, e.s, o.link, o.s, FrontLookahead)
InFront(e, o, gate) == o.id \in gate /\ TopologyGap(e, o) # NotFound

Neighbour(e, o) == o.link \in {e.link, Target("left", e.link), Target("right", e.link)}
Gap(e, o, gate) ==
  IF InFront(e, o, gate) THEN TopologyGap(e, o)
  ELSE IF Neighbour(e, o) THEN o.s - e.s
  ELSE RouteS(o.link, o.s) - RouteS(e.link, e.s)

RelativeD(e, o) == RouteD(o.link) + o.lat - RouteD(e.link)
\* side is "left" (dir = 1) or "right" (dir = -1)
Beside(e, o, side, dir) ==
  \/ o.link = Target(side, e.link)
  \/ 2 * AbsOf(RelativeD(e, o) - dir * LaneWidth) < LaneWidth

\* ttc < num/den, for an object ahead that ego closes in on
TtcBelow(e, o, gap, num, den) ==
  gap > 0 /\ e.speed > o.speed /\ den * gap < num * (e.speed - o.speed)

LaneSafe(e, seen, gate, side, dir) ==
  LET gaps == {Gap(e, o, gate) : o \in {p \in seen : Beside(e, p, side, dir)}}
  IN /\ e.link \in map.movable[side] /\ Target(side, e.link) # NoLink
     /\ Least({g \in gaps : g >= 0}, Unbounded) >= 12
     /\ Least({-g : g \in {h \in gaps : h < 0}}, Unbounded) >= 15

\* ObjectFeature::valid: an object that is off the route or off the map, which
\* has no link here, is not looked at any further.
Valid(o) == o.link # NoLink

\* The vehicles that may lead, by their place in the list.
Leaders(e, list, gate) ==
  {i \in DOMAIN list : /\ Valid(list[i])
                       /\ list[i].type = "vehicle"
                       /\ InFront(e, list[i], gate)
                       /\ Gap(e, list[i], gate) > 0}

\* The first of least score: the id followed last has a bonus.
Lead(e, list, gate, last) ==
  LET Score(i) == Gap(e, list[i], gate) - (IF list[i].id = last THEN LeadBonus ELSE 0)
      all == Leaders(e, list, gate)
      Wins(i) == \A j \in all : Score(i) < Score(j) \/ (Score(i) = Score(j) /\ i <= j)
  IN IF all = {} THEN NoVehicle ELSE list[CHOOSE i \in all : Wins(i)]

\* predicted_front_ttc < 1.2 or required_deceleration > 6: a leader that brakes is
\* expected to go on braking, one that accelerates (negative) to keep its speed.
LeadEmergency(e, lead, gap) ==
  LET closing == AtLeast(e.speed - lead.speed, 0)
      predicted == e.speed - AtLeast(lead.speed - AtLeast(lead.braking, 0), 0)
  IN \/ predicted > 0 /\ 5 * gap < 6 * predicted
     \/ closing * closing > IF gap > 8 THEN 12 * (gap - 8) ELSE 6

\* Seeded fault: only the leader counts, not an obstacle before it.
EmergencyRiskOfLead(e, front, lead, gate) ==
  lead # NoVehicle /\ LeadEmergency(e, lead, Gap(e, lead, gate))

EmergencyRisk(e, front, lead, gate) ==
  \/ \E o \in front : TtcBelow(e, o, Gap(e, o, gate), 1, 1)
  \/ lead # NoVehicle /\ LeadEmergency(e, lead, Gap(e, lead, gate))

Feature(e, list, gate, last) ==
  LET seen == {o \in {list[i] : i \in DOMAIN list} : Valid(o)}
      front == {o \in seen : InFront(e, o, gate) /\ Gap(e, o, gate) > 0}
      lead == Lead(e, list, gate, last)
      stop == FindNextStopLine(map, e.link, e.s, StopLookahead)
  IN [gate |-> gate,
      link |-> e.link,
      speed |-> e.speed,
      stop |-> stop,
      light |-> IF stop = NoStopLine THEN "UNKNOWN" ELSE lights[stop.node],
      stop_line_s |-> RouteS(e.link, e.s) + stop.distance,
      lead |-> lead,
      front_gap |-> IF lead = NoVehicle THEN Unbounded ELSE Gap(e, lead, gate),
      front |-> {[id |-> o.id, type |-> o.type, gap |-> Gap(e, o, gate),
                  ttc_below_1 |-> TtcBelow(e, o, Gap(e, o, gate), 1, 1)] : o \in front},
      left_lane_safe |-> LaneSafe(e, seen, gate, "left", 1),
      right_lane_safe |-> LaneSafe(e, seen, gate, "right", -1),
      pedestrian_risk |-> \E o \in seen :
         /\ o.type = "pedestrian"
         /\ Gap(e, o, gate) \in 1..14
         /\ AbsOf(RelativeD(e, o)) < LaneWidth,
      emergency_risk |-> EmergencyRisk(e, front, lead, gate)]
------------------------------------------------------------------------------
(***************************************************************************)
(* HardRuleFilter::apply()                                                  *)
(***************************************************************************)
StopLineConstraint(f) == f.stop # NoStopLine /\ f.stop.distance <= StopWindow
EmergencyStop(f) == f.emergency_risk

\* Seeded fault: a yellow light does not stop.
ForceStopOnRed(f) ==
  \/ StopLineConstraint(f) /\ f.light = "RED"
  \/ f.pedestrian_risk
  \/ EmergencyStop(f)

ForceStop(f) ==
  \/ StopLineConstraint(f) /\ f.light \in {"RED", "YELLOW"}
  \/ f.pedestrian_risk
  \/ EmergencyStop(f)

(***************************************************************************)
(* BehaviorScorer::score(): LeadIsNear is front_vehicle.ttc < 3, LeadIsSlow *)
(* front_vehicle.speed + 1 < ego.speed.                                     *)
(***************************************************************************)
HasLead(f) == f.lead # NoVehicle
LeadIsNear(f) == HasLead(f) /\ TtcBelow(f, f.lead, f.front_gap, 3, 1)
LeadIsSlow(f) == HasLead(f) /\ f.lead.speed + 1 < f.speed

Behaviors == <<"KEEP", "FOLLOW", "LEFT_CHANGE", "RIGHT_CHANGE", "STOP", "EMERGENCY_STOP">>

Enabled(f) ==
  [KEEP |-> TRUE,
   FOLLOW |-> HasLead(f),
   LEFT_CHANGE |-> f.left_lane_safe,
   RIGHT_CHANGE |-> f.right_lane_safe,
   STOP |-> ForceStop(f),
   EMERGENCY_STOP |-> EmergencyStop(f)]

Score(f) ==
  [KEEP |-> IF ~HasLead(f) THEN 70 ELSE IF LeadIsNear(f) THEN 35 ELSE 60,
   FOLLOW |-> IF LeadIsNear(f) THEN 85 ELSE 70,
   LEFT_CHANGE |-> IF LeadIsSlow(f) THEN 85 ELSE 45,
   RIGHT_CHANGE |-> IF LeadIsSlow(f) THEN 80 ELSE 40,
   STOP |-> 100000,
   EMERGENCY_STOP |-> 1000000]

Candidates(f) == {i \in 1..6 : Enabled(f)[Behaviors[i]]}
Points(f, i) == Score(f)[Behaviors[i]]

\* Seeded fault: among equals the last candidate wins.
WinsLast(f, i) ==
  \A j \in Candidates(f) :
    Points(f, i) > Points(f, j) \/ (Points(f, i) = Points(f, j) /\ i >= j)

(***************************************************************************)
(* BehaviorDecision::decide(): the first enabled candidate of highest score.*)
(***************************************************************************)
Wins(f, i) ==
  \A j \in Candidates(f) :
    Points(f, i) > Points(f, j) \/ (Points(f, i) = Points(f, j) /\ i <= j)
Selected(f) == Behaviors[CHOOSE i \in Candidates(f) : Wins(f, i)]

SpeedLimit(f) == IF f.link = NoLink \/ map.limit[f.link] = 0
                   THEN DefaultSpeed ELSE 10 * map.limit[f.link]

\* Seeded fault: not clamped at zero.
FollowSpeedUnclamped(f) ==
  AtMost(10 * f.lead.speed + 4 * f.front_gap - 20 - 6 * f.speed, SpeedLimit(f))

\* lead speed + 0.4 * (gap - (5 + 1.5 * speed)), clamped
FollowSpeed(f) ==
  AtMost(AtLeast(10 * f.lead.speed + 4 * f.front_gap - 20 - 6 * f.speed, 0), SpeedLimit(f))

DesiredSpeed(f, behavior) ==
  IF behavior \in {"STOP", "EMERGENCY_STOP"} THEN 0
  ELSE IF behavior = "FOLLOW" THEN FollowSpeed(f) ELSE SpeedLimit(f)

TargetLink(f, behavior) ==
  IF behavior = "KEEP" THEN f.link
  ELSE IF behavior = "LEFT_CHANGE" THEN Target("left", f.link)
  ELSE IF behavior = "RIGHT_CHANGE" THEN Target("right", f.link) ELSE NoLink

Decide(f) ==
  LET behavior == Selected(f)
  IN [selected |-> behavior,
      force_stop |-> ForceStop(f),
      stop_before_s |-> IF StopLineConstraint(f) THEN f.stop_line_s - 6 ELSE Unbounded,
      target_link |-> TargetLink(f, behavior),
      desired_speed |-> DesiredSpeed(f, behavior)]
------------------------------------------------------------------------------
\* spinOnce() and, once an ego message has arrived, runOnce().
Waiting ==
  /\ ego = None
  /\ \E list \in ObjectMessages(map) : objects' = list
  /\ UNCHANGED <<map, lights, ego, last_lead_vehicle_id, feature, context>>

Iterate ==
  \E e \in EgoMessages(map) \cup ({ego} \ {None}),
     list \in ObjectMessages(map) \cup {objects} :
    \E gate \in SUBSET {list[i].id : i \in DOMAIN list} :
      /\ ego' = e
      /\ objects' = list
      /\ feature' = Feature(e, list, gate, last_lead_vehicle_id)
      /\ last_lead_vehicle_id' = feature'.lead.id
      /\ context' = Decide(feature')
      /\ UNCHANGED <<map, lights>>

Next == Waiting \/ Iterate
Spec == Init /\ [][Next]_vars

------------------------------------------------------------------------------
\* UrbanFeature and BehaviorContext
Features(m) ==
  [gate : SUBSET Int, link : m.links \cup {NoLink}, speed : Int,
   stop : [node : Nat, distance : Nat], light : Lights \cup {"UNKNOWN"}, stop_line_s : Int,
   lead : Objects(m) \cup {NoVehicle}, front_gap : Int,
   front : SUBSET [id : Int, type : {"vehicle", "pedestrian", "obstacle"}, gap : Int,
                   ttc_below_1 : BOOLEAN],
   left_lane_safe : BOOLEAN, right_lane_safe : BOOLEAN,
   pedestrian_risk : BOOLEAN, emergency_risk : BOOLEAN]

Contexts(m) ==
  [selected : {Behaviors[i] : i \in 1..6}, force_stop : BOOLEAN, stop_before_s : Int,
   target_link : m.links \cup {NoLink}, desired_speed : Nat]

ASSUME NoneAssumption == \A m \in Maps : None \notin Features(m) \cup Contexts(m)

\* A feature and a decision are published together, from the first ego message on.
TypeOK ==
  /\ map \in Maps
  /\ lights \in [map.stops -> Lights]
  /\ ego \in EgoMessages(map) \cup {None}
  /\ objects \in ObjectMessages(map) \cup {<<>>}
  /\ last_lead_vehicle_id \in Int
  /\ feature \in Features(map) \cup {None} /\ (feature = None <=> ego = None)
  /\ context \in Contexts(map) \cup {None} /\ (context = None <=> ego = None)

Decided == feature # None

(***************************************************************************)
(* Whoever is the leader, anything ahead that would be hit within a second  *)
(* makes the decision an emergency stop (feature_builder.cpp:158-160, then  *)
(* the rule, the score and the choice).                                     *)
(***************************************************************************)
ImminentCollisionStops ==
  Decided /\ (\E o \in feature.front : o.ttc_below_1)
    => context.selected = "EMERGENCY_STOP" /\ context.desired_speed = 0

(***************************************************************************)
(* The scores, taken together, allow a lane change only to get past a       *)
(* leader that is slower by more than 1 m/s and at least 3 s away           *)
(* (behavior_scorer.cpp, behavior_decision.cpp:64-67).                      *)
(***************************************************************************)
LaneChangeIsForSlowLeader ==
  Decided /\ context.selected \in {"LEFT_CHANGE", "RIGHT_CHANGE"}
    => LeadIsSlow(feature) /\ ~LeadIsNear(feature)

(***************************************************************************)
(* If every way ahead meets a red or yellow stop line within the window,    *)
(* the decision is to stand, whichever of them the search settles for.      *)
(***************************************************************************)
RedOnEveryWayStops ==
  Decided =>
    LET first == FirstStopLines(map, ego.link, ego.s)
    IN first # {} /\ (\A w \in first : /\ w.distance <= StopWindow
                                      /\ lights[w.node] \in {"RED", "YELLOW"})
         => context.desired_speed = 0

(***************************************************************************)
(* An object that passes the geometric gate is ahead exactly if some way    *)
(* along the links leads to it within the lookahead, and its gap is the     *)
(* length of such a way, though not always of the shortest                  *)
(* (mgeo_loader.cpp:199-262).                                               *)
(***************************************************************************)
GapIsOfSomeWay ==
  Decided =>
    \A i \in DOMAIN objects :
      LET o == objects[i]
          ways == {w \in WalkLengths(map, ego.link, ego.s, o.link, o.s) : w <= FrontLookahead}
      IN ego.link # NoLink /\ o.link # ego.link /\ o.id \in feature.gate =>
           IF ways = {} THEN ~InFront(ego, o, feature.gate)
           ELSE TopologyGap(ego, o) \in ways

(***************************************************************************)
(* What the test RedLightForcesStop says of a feature, said of the node:    *)
(* if the first stop line on the shortest way ahead is red and within the   *)
(* window, the node asks for a stop.                                        *)
(***************************************************************************)
RedAheadForcesStop ==
  Decided =>
    LET first == FirstStopLines(map, ego.link, ego.s)
    IN \A w \in first :
         /\ w.distance <= StopWindow
         /\ lights[w.node] = "RED"
         /\ \A v \in first : v = w \/ w.distance < v.distance
         => context.force_stop
==============================================================================
