----------------------------- MODULE PlannerLoop -----------------------------
(***************************************************************************)
(* The 20 Hz loop of frenet_planner_node (frenet_planner/src/main.cpp).     *)
(*                                                                         *)
(* One action is one iteration of `while (true)`.  The loop decides which  *)
(* path the MPC is given: the one Plan() has just produced, the last one   *)
(* it kept (last_cp), or a one-point stop path.  A path is abstracted to   *)
(* what the MPC makes of it:                                               *)
(*   "drive"  at least two points and a reference speed to follow,          *)
(*   "hold"   a path of Plan() whose speed profile stops (WAIT, fallback), *)
(*   "stop"   MakeStopPath(): one point at the ego pose, v = 0.             *)
(* Whether localization is valid, what the vehicle state is and what       *)
(* Plan() answers come from outside the loop and are chosen freely.        *)
(***************************************************************************)
EXTENDS Integers

CONSTANTS
  MaxTransientFailCycles,  \* kMaxTransientFailCycles
  VehicleStates,           \* what get_vehicle_state() may return
  None,                    \* no path kept, no state kept, nothing sent
  AgeBound                 \* saturation of the observer `age`

PlanKinds == {"drive", "hold"}
PathKinds == PlanKinds \cup {"stop"}
Datagrams == [path : PathKinds, ego : VehicleStates]

ASSUME NoneAssumption == None \notin VehicleStates \cup PathKinds \cup Datagrams
ASSUME MaxFailAssumption == MaxTransientFailCycles \in Nat
ASSUME AgeAssumption == AgeBound \in Nat /\ AgeBound > MaxTransientFailCycles

VARIABLES
  plan_fail_streak,    \* failures of Plan() since it last succeeded
  last_cp,             \* last path kept, None while has_last_cp is false
  last_vehicle_state,  \* None while has_last_vehicle_state is false
  out,                 \* the datagram this iteration sent, None if it sent none
  (* Observers: they record what happened and guard nothing. *)
  age,                 \* iterations since Plan() last produced a path
  resends,             \* how often that path was sent again
  vetoed,              \* a COLLISION_BLOCKED verdict came after that path
  gap,                 \* localization was lost after that path
  parity               \* flips, so that no iteration looks like stuttering

loopVars == <<plan_fail_streak, last_cp, last_vehicle_state>>
observers == <<age, resends, vetoed, gap, parity>>
vars == <<loopVars, out, observers>>

\* The streak is only compared with MaxTransientFailCycles, so counting stops
\* one above it: StreakBound.
StreakBound == MaxTransientFailCycles + 1
Bump(n, bound) == IF n < bound THEN n + 1 ELSE bound

Init ==
  /\ plan_fail_streak = 0
  /\ last_cp = None
  /\ last_vehicle_state = None
  /\ out = None
  /\ age = AgeBound
  /\ resends = 0
  /\ vetoed = FALSE
  /\ gap = FALSE
  /\ parity = 0

(***************************************************************************)
(* send_planned_path(): one datagram with the path and the ego snapshot.   *)
(***************************************************************************)
SendPlannedPath(path, ego) == out' = [path |-> path, ego |-> ego]

Observe(a, r, v, g) ==
  /\ age' = a
  /\ resends' = r
  /\ vetoed' = v
  /\ gap' = g
  /\ parity' = 1 - parity

(***************************************************************************)
(* Seeded faults.  Each is an action below with one plausible slip; the    *)
(* properties at the end of the module are strong enough to tell.          *)
(***************************************************************************)
\* ...the stop path is sent before any vehicle state is known
LostSendsUnchecked ==
  /\ SendPlannedPath("stop", last_vehicle_state)
  /\ Observe(Bump(age, AgeBound), resends, vetoed, TRUE)
  /\ UNCHANGED loopVars

\* ...a gap in localization starts the streak again
LostClearsStreak ==
  /\ IF last_vehicle_state = None
       THEN out' = None
       ELSE SendPlannedPath("stop", last_vehicle_state)
  /\ plan_fail_streak' = 0
  /\ Observe(Bump(age, AgeBound), resends, vetoed, TRUE)
  /\ UNCHANGED <<last_cp, last_vehicle_state>>

\* ...a stop path is sent for the collision, but the old path stays in last_cp
BlockedKeepsPath(vs) ==
  /\ last_vehicle_state' = vs
  /\ plan_fail_streak' = Bump(plan_fail_streak, StreakBound)
  /\ SendPlannedPath("stop", vs)
  /\ Observe(Bump(age, AgeBound), resends, TRUE, gap)
  /\ UNCHANGED last_cp

\* ...the streak is compared before it is incremented
ResendOnceMore(vs) ==
  /\ last_vehicle_state' = vs
  /\ plan_fail_streak' = Bump(plan_fail_streak, StreakBound)
  /\ last_cp # None
  /\ plan_fail_streak <= MaxTransientFailCycles
  /\ SendPlannedPath(last_cp, vs)
  /\ Observe(Bump(age, AgeBound),
             IF last_cp \in PlanKinds THEN Bump(resends, StreakBound) ELSE resends,
             vetoed, gap)
  /\ UNCHANGED last_cp
------------------------------------------------------------------------------
\* has_vehicle_state() is false: once a pose is known a stop path at that pose
\* replaces whatever the MPC follows; last_cp and the streak are left alone.
LocalizationLost ==
  /\ IF last_vehicle_state = None
       THEN out' = None
       ELSE SendPlannedPath("stop", last_vehicle_state)
  /\ Observe(Bump(age, AgeBound), resends, vetoed, TRUE)
  /\ UNCHANGED loopVars

\* Plan() returned a path of kind k: it is kept and sent.
PlanSucceeds(vs, k) ==
  /\ last_vehicle_state' = vs
  /\ plan_fail_streak' = 0
  /\ last_cp' = k
  /\ SendPlannedPath(k, vs)
  /\ Observe(0, 0, FALSE, FALSE)

\* What every failure of Plan() does.
PlanFails(vs) ==
  /\ last_vehicle_state' = vs
  /\ plan_fail_streak' = Bump(plan_fail_streak, StreakBound)

\* last_failure_reason() is COLLISION_BLOCKED: the kept path is replaced too.
CollisionBlocked(vs) ==
  /\ PlanFails(vs)
  /\ last_cp' = "stop"
  /\ SendPlannedPath("stop", vs)
  /\ Observe(Bump(age, AgeBound), resends, TRUE, gap)

\* Any other failure within the grace: the last valid path is sent again.
ResendLastPath(vs) ==
  /\ PlanFails(vs)
  /\ last_cp # None
  /\ plan_fail_streak' <= MaxTransientFailCycles
  /\ SendPlannedPath(last_cp, vs)
  /\ Observe(Bump(age, AgeBound),
             IF last_cp \in PlanKinds THEN Bump(resends, StreakBound) ELSE resends,
             vetoed, gap)
  /\ UNCHANGED last_cp

\* Any other failure with nothing to resend, or beyond the grace.
GiveUp(vs) ==
  /\ PlanFails(vs)
  /\ \/ last_cp = None
     \/ plan_fail_streak' > MaxTransientFailCycles
  /\ last_cp' = "stop"
  /\ SendPlannedPath("stop", vs)
  /\ Observe(Bump(age, AgeBound), resends, vetoed, gap)

Next ==
  \/ LocalizationLost
  \/ \E vs \in VehicleStates :
       \/ \E k \in PlanKinds : PlanSucceeds(vs, k)
       \/ CollisionBlocked(vs)
       \/ ResendLastPath(vs)
       \/ GiveUp(vs)

Spec == Init /\ [][Next]_vars

------------------------------------------------------------------------------
TypeOK ==
  /\ plan_fail_streak \in 0..StreakBound
  /\ last_cp \in PathKinds \cup {None}
  /\ last_vehicle_state \in VehicleStates \cup {None}
  /\ out \in Datagrams \cup {None}
  /\ age \in 0..AgeBound
  /\ resends \in 0..StreakBound
  /\ vetoed \in BOOLEAN
  /\ gap \in BOOLEAN
  /\ parity \in {0, 1}

Sent(kind) == out # None /\ out.path = kind

(***************************************************************************)
(* A path of Plan() that was produced before a COLLISION_BLOCKED verdict    *)
(* is never sent after it (main.cpp:148-156: "past driving paths must not  *)
(* be reused"), whatever transient failures and localization gaps follow.  *)
(***************************************************************************)
VetoedPathNeverSent == vetoed => ~Sent("drive") /\ ~Sent("hold")

(***************************************************************************)
(* One success of Plan() pays for at most MaxTransientFailCycles resends    *)
(* of its path, even when failures are interleaved with localization gaps  *)
(* (main.cpp:62-64, 157-169).                                               *)
(***************************************************************************)
ResendBudget == resends <= MaxTransientFailCycles

(***************************************************************************)
(* A drive path older than the grace is sent only after localization was    *)
(* lost since it was planned.  The comment at main.cpp:62-64 promises more: *)
(* 5 cycles, 0.25 s at 20 Hz; but cycles without localization do not count. *)
(***************************************************************************)
StaleOnlyAfterGap == Sent("drive") => age <= MaxTransientFailCycles \/ gap

(***************************************************************************)
(* The loop implements the lease: the allowance is what the streak leaves   *)
(* of the grace while last_cp is a path of Plan().                          *)
(***************************************************************************)
Lease == INSTANCE DriveLease WITH
  Budget <- MaxTransientFailCycles,
  allowance <- IF last_cp \in PlanKinds
                 THEN MaxTransientFailCycles - plan_fail_streak ELSE 0,
  order <- IF out = None THEN None
           ELSE IF out.path \in PlanKinds THEN "follow" ELSE "stop"
ImplementsLease == Lease!LeaseSpec
==============================================================================
