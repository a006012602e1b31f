--------------------------- MODULE Pipeline_proofs ---------------------------
(***************************************************************************)
(* Theorems about the planner loop, alone and with the network and the MPC  *)
(* behind it, for every grace length, every set of vehicle states and every *)
(* delay of a datagram.                                                     *)
(***************************************************************************)
EXTENDS Pipeline, NatFacts

\* The type of a step is settled by the assumptions on the constants.
USE MaxFailAssumption, AgeAssumption

\* Saturated counting stays within its bound and moves by at most one.
LEMMA BumpBounded ==
  ASSUME NEW bound \in Nat, NEW n \in 0..bound
  PROVE  /\ Bump(n, bound) \in 0..bound
         /\ n < bound => Bump(n, bound) = n + 1
         /\ n = bound => Bump(n, bound) = bound
<1>1. CASE n < bound
  BY <1>1 DEF Bump
<1>2. CASE n = bound
  BY <1>2 DEF Bump
<1>3. QED
  BY <1>1, <1>2

LEMMA TypeStep == TypeOK /\ [Next]_vars => TypeOK'
<1> SUFFICES ASSUME TypeOK, [Next]_vars PROVE TypeOK'
  OBVIOUS
<1> USE DEF TypeOK, StreakBound, PlanKinds, PathKinds, Datagrams, SendPlannedPath, Observe
<1>0. /\ StreakBound \in Nat /\ AgeBound \in Nat
      /\ plan_fail_streak \in 0..StreakBound /\ resends \in 0..StreakBound
      /\ age \in 0..AgeBound
      /\ 1 - parity \in {0, 1}
  OBVIOUS
<1>1. /\ Bump(age, AgeBound) \in 0..AgeBound
      /\ Bump(plan_fail_streak, StreakBound) \in 0..StreakBound
      /\ Bump(resends, StreakBound) \in 0..StreakBound
      /\ 1 - parity \in {0, 1}
  BY <1>0, BumpBounded DEF Bump
<1>2. CASE LocalizationLost
  BY <1>1, <1>2 DEF LocalizationLost, loopVars
<1>3. ASSUME NEW vs \in VehicleStates, NEW k \in PlanKinds, PlanSucceeds(vs, k)
      PROVE  TypeOK'
  <2>1. out' \in Datagrams /\ last_cp' \in PathKinds
    BY <1>3 DEF PlanSucceeds
  <2>2. age' \in 0..AgeBound /\ resends' \in 0..StreakBound /\ plan_fail_streak' \in 0..StreakBound
    BY <1>3 DEF PlanSucceeds
  <2>3. vetoed' \in BOOLEAN /\ gap' \in BOOLEAN /\ parity' \in {0, 1}
    BY <1>1, <1>3 DEF PlanSucceeds
  <2>4. last_vehicle_state' \in VehicleStates
    BY <1>3 DEF PlanSucceeds
  <2>5. QED
    BY <2>1, <2>2, <2>3, <2>4
<1>4. ASSUME NEW vs \in VehicleStates, CollisionBlocked(vs)
      PROVE  TypeOK'
  BY <1>1, <1>4 DEF CollisionBlocked, PlanFails
<1>5. ASSUME NEW vs \in VehicleStates, ResendLastPath(vs)
      PROVE  TypeOK'
  BY <1>1, <1>5 DEF ResendLastPath, PlanFails
<1>6. ASSUME NEW vs \in VehicleStates, GiveUp(vs)
      PROVE  TypeOK'
  BY <1>1, <1>6 DEF GiveUp, PlanFails
<1>7. CASE UNCHANGED vars
  BY <1>7 DEF vars, loopVars, observers
<1>8. QED
  BY <1>2, <1>3, <1>4, <1>5, <1>6, <1>7 DEF Next

LEMMA TypeInit == Init => TypeOK
<1> SUFFICES ASSUME Init PROVE TypeOK
  OBVIOUS
<1>1. vetoed \in BOOLEAN /\ gap \in BOOLEAN
  BY DEF Init
<1>2. QED
  BY <1>1 DEF Init, TypeOK, StreakBound

(***************************************************************************)
(* TypeOK is an invariant: in particular no datagram is ever built from a   *)
(* path or a vehicle state the loop does not have yet.                     *)
(***************************************************************************)
THEOREM TypeCorrect == Spec => []TypeOK
BY TypeInit, TypeStep, PTL DEF Spec

------------------------------------------------------------------------------
(***************************************************************************)
(* The inductive invariant: while a path of Plan() is kept, the streak is   *)
(* within the grace and counts exactly its resends (and its age, if no gap  *)
(* came in between); after a collision verdict only the stop path is kept.  *)
(***************************************************************************)
KeptPathWithinGrace ==
  last_cp \in PlanKinds =>
    /\ plan_fail_streak <= MaxTransientFailCycles
    /\ resends = plan_fail_streak
    /\ ~gap => age = plan_fail_streak

VetoDiscards ==
  vetoed => last_cp = "stop" /\ Sent("stop")

SentIsKept == Sent("drive") => last_cp = "drive"

SilentWithoutPose == last_vehicle_state = None => ~vetoed /\ out = None

IInv ==
  /\ KeptPathWithinGrace
  /\ VetoDiscards
  /\ SentIsKept
  /\ ResendBudget
  /\ SilentWithoutPose

\* A datagram is never mistaken for None.
LEMMA SentIsDatagram ==
  ASSUME NEW path \in PathKinds, NEW ego \in VehicleStates, SendPlannedPath(path, ego)
  PROVE  out' # None /\ out'.path = path
BY NoneAssumption DEF SendPlannedPath, Datagrams

LEMMA InvInit == Init => IInv
BY NoneAssumption
   DEF Init, IInv, KeptPathWithinGrace, VetoDiscards, SentIsKept, ResendBudget,
       SilentWithoutPose, Sent, PlanKinds, PathKinds

LEMMA InvStep ==
  ASSUME TypeOK, TypeOK', IInv, [Next]_vars
  PROVE  IInv'
<1> USE DEF IInv, KeptPathWithinGrace, VetoDiscards, SentIsKept, ResendBudget,
            SilentWithoutPose, Sent, PlanKinds
\* A gap freezes the loop's own state; only the stop path can be sent.
<1>1. CASE LocalizationLost
  <2>1. /\ last_cp' = last_cp
        /\ plan_fail_streak' = plan_fail_streak
        /\ last_vehicle_state' = last_vehicle_state
        /\ resends' = resends
        /\ gap'
        /\ vetoed' <=> vetoed
    BY <1>1 DEF LocalizationLost, loopVars, Observe
  <2>2. CASE last_vehicle_state = None
    <3>1. out' = None
      BY <1>1, <2>2 DEF LocalizationLost
    <3>2. QED
      BY <2>1, <2>2, <3>1
  <2>3. CASE last_vehicle_state # None
    <3>1. out' # None /\ out'.path = "stop"
      BY <1>1, <2>3, SentIsDatagram DEF LocalizationLost, TypeOK, PathKinds
    <3>2. QED
      BY <2>1, <2>3, <3>1
  <2>4. QED
    BY <2>2, <2>3
<1>2. ASSUME NEW vs \in VehicleStates, NEW k \in PlanKinds, PlanSucceeds(vs, k)
      PROVE  IInv'
  <2>1. out' # None /\ out'.path = k
    BY <1>2, SentIsDatagram DEF PlanSucceeds, PathKinds
  <2>2. last_vehicle_state' # None
    BY <1>2, NoneAssumption DEF PlanSucceeds
  <2>3. QED
    BY <1>2, <2>1, <2>2 DEF PlanSucceeds, Observe
\* The verdict replaces the kept path in the same iteration.
<1>3. ASSUME NEW vs \in VehicleStates, CollisionBlocked(vs)
      PROVE  IInv'
  <2>1. out' # None /\ out'.path = "stop"
    BY <1>3, SentIsDatagram DEF CollisionBlocked, PathKinds
  <2>2. last_cp' = "stop" /\ resends' = resends /\ last_vehicle_state' = vs
    BY <1>3 DEF CollisionBlocked, PlanFails, Observe
  <2>3. last_vehicle_state' # None
    BY <2>2, NoneAssumption
  <2>4. QED
    BY <2>1, <2>2, <2>3
<1>4. ASSUME NEW vs \in VehicleStates, ResendLastPath(vs)
      PROVE  IInv'
  <2>1. /\ last_cp' = last_cp
        /\ vetoed' <=> vetoed
        /\ gap' <=> gap
        /\ last_vehicle_state' = vs
        /\ plan_fail_streak' <= MaxTransientFailCycles
    BY <1>4 DEF ResendLastPath, PlanFails, Observe
  <2>2. last_vehicle_state' # None
    BY <2>1, NoneAssumption
  <2>3. out' # None /\ out'.path = last_cp
    BY <1>4, SentIsDatagram DEF ResendLastPath, TypeOK
  \* The streak is below its saturation, so it counts exactly.
  <2>4. plan_fail_streak' = plan_fail_streak + 1
    BY <1>4 DEF ResendLastPath, PlanFails, Bump, TypeOK, StreakBound
  <2>5. CASE last_cp \in PlanKinds
    <3>1. resends' = resends + 1
      BY <2>1, <2>4, <2>5, <1>4 DEF ResendLastPath, Observe, Bump, TypeOK, StreakBound
    <3>2. ~gap => age' = age + 1
      BY <2>1, <2>4, <2>5, <1>4 DEF ResendLastPath, Observe, Bump, TypeOK
    <3>3. QED
      BY <2>1, <2>2, <2>3, <2>4, <2>5, <3>1, <3>2 DEF TypeOK
  <2>6. CASE last_cp \notin PlanKinds
    <3>1. resends' = resends
      BY <1>4, <2>6 DEF ResendLastPath, Observe
    <3>2. QED
      BY <2>1, <2>2, <2>3, <2>6, <3>1
  <2>7. QED
    BY <2>5, <2>6
<1>5. ASSUME NEW vs \in VehicleStates, GiveUp(vs)
      PROVE  IInv'
  <2>1. out' # None /\ out'.path = "stop"
    BY <1>5, SentIsDatagram DEF GiveUp, PathKinds
  <2>2. /\ last_cp' = "stop"
        /\ resends' = resends
        /\ last_vehicle_state' = vs
    BY <1>5 DEF GiveUp, PlanFails, Observe
  <2>3. last_vehicle_state' # None
    BY <2>2, NoneAssumption
  <2>4. QED
    BY <2>1, <2>2, <2>3
<1>6. CASE UNCHANGED vars
  BY <1>6 DEF vars, loopVars, observers
<1>7. QED
  BY <1>1, <1>2, <1>3, <1>4, <1>5, <1>6 DEF Next

\* The loop of main.cpp keeps all parts of the invariant: what is kept is
\* within the grace, and no veto is outlived by what it vetoed.
THEOREM Invariance == Spec => []IInv
<1>1. TypeOK /\ TypeOK' /\ IInv /\ [Next]_vars => IInv'
  BY InvStep
<1>2. QED
  BY InvInit, TypeCorrect, <1>1, PTL DEF Spec

------------------------------------------------------------------------------
(***************************************************************************)
(* No path of Plan() survives a collision verdict that came after it.       *)
(***************************************************************************)
THEOREM VetoIsFinal == Spec => []VetoedPathNeverSent
<1>1. IInv => VetoedPathNeverSent
  BY DEF IInv, VetoDiscards, VetoedPathNeverSent, Sent
<1>2. QED
  BY <1>1, Invariance, PTL

(***************************************************************************)
(* A path of Plan() is sent again at most MaxTransientFailCycles times.     *)
(***************************************************************************)
THEOREM ResendsAreBounded == Spec => []ResendBudget
<1>1. IInv => ResendBudget
  BY DEF IInv
<1>2. QED
  BY <1>1, Invariance, PTL

(***************************************************************************)
(* Without a gap in localization a drive path is never older than the       *)
(* grace: gaps are the only way to the staleness the comment rules out.     *)
(***************************************************************************)
THEOREM StalenessNeedsGap == Spec => []StaleOnlyAfterGap
<1>1. TypeOK /\ IInv => StaleOnlyAfterGap
  BY DEF TypeOK, IInv, KeptPathWithinGrace, SentIsKept, StaleOnlyAfterGap, PlanKinds, Sent
<1>2. QED
  BY <1>1, TypeCorrect, Invariance, PTL

LEMMA LeaseInitially == Init => Lease!LeaseInit
BY NoneAssumption DEF Init, Lease!LeaseInit, PathKinds, PlanKinds

LEMMA LeaseStep ==
  ASSUME TypeOK, TypeOK', IInv, [Next]_vars
  PROVE  [Lease!LeaseNext]_(Lease!leaseVars)
<1> USE DEF Lease!leaseVars, Lease!LeaseNext, Lease!Grant, Lease!Reuse, Lease!Suspend,
            Lease!Revoke, PlanKinds
\* Losing localization suspends the lease.
<1>1. CASE LocalizationLost
  <2>1. UNCHANGED <<last_cp, plan_fail_streak, last_vehicle_state>>
    BY <1>1 DEF LocalizationLost, loopVars
  <2>2. CASE last_vehicle_state = None
    <3>1. out' = None
      BY <1>1, <2>2 DEF LocalizationLost
    <3>2. out = None
      BY <2>2 DEF IInv, SilentWithoutPose
    <3>3. QED
      BY <2>1, <3>1, <3>2
  <2>3. CASE last_vehicle_state # None
    <3>1. out' # None /\ out'.path = "stop"
      BY <1>1, <2>3, SentIsDatagram DEF LocalizationLost, TypeOK, PathKinds
    <3>2. QED
      BY <2>1, <3>1
  <2>4. QED
    BY <2>2, <2>3
\* A success of Plan() grants a new one.
<1>2. ASSUME NEW vs \in VehicleStates, NEW k \in PlanKinds, PlanSucceeds(vs, k)
      PROVE  Lease!Grant
  <2>1. out' # None /\ out'.path = k
    BY <1>2, SentIsDatagram DEF PlanSucceeds, PathKinds
  <2>2. last_cp' = k /\ plan_fail_streak' = 0
    BY <1>2 DEF PlanSucceeds
  <2>3. QED
    BY <2>1, <2>2
\* A collision verdict revokes it.
<1>3. ASSUME NEW vs \in VehicleStates, CollisionBlocked(vs)
      PROVE  Lease!Revoke
  <2>1. out' # None /\ out'.path = "stop"
    BY <1>3, SentIsDatagram DEF CollisionBlocked, PathKinds
  <2>2. last_cp' = "stop"
    BY <1>3 DEF CollisionBlocked
  <2>3. QED
    BY <2>1, <2>2
\* A resend spends one reuse, or repeats a stop that costs nothing.
<1>4. ASSUME NEW vs \in VehicleStates, ResendLastPath(vs)
      PROVE  Lease!Reuse \/ Lease!Suspend
  <2>1. /\ last_cp' = last_cp
        /\ plan_fail_streak' = plan_fail_streak + 1
        /\ plan_fail_streak' <= MaxTransientFailCycles
    BY <1>4 DEF ResendLastPath, PlanFails, Bump, TypeOK, StreakBound
  <2>2. out' # None /\ out'.path = last_cp
    BY <1>4, SentIsDatagram DEF ResendLastPath, TypeOK
  <2>3. CASE last_cp \in PlanKinds
    <3>1. plan_fail_streak \in Nat
      BY DEF TypeOK, StreakBound
    <3>2. MaxTransientFailCycles - plan_fail_streak > 0
      BY <2>1, <3>1
    <3>3. MaxTransientFailCycles - plan_fail_streak'
            = (MaxTransientFailCycles - plan_fail_streak) - 1
      BY <2>1, <3>1
    <3>4. QED
      BY <2>1, <2>2, <2>3, <3>2, <3>3
  <2>4. CASE last_cp \notin PlanKinds
    <3>1. last_cp = "stop"
      BY <1>4, <2>4 DEF ResendLastPath, TypeOK, PathKinds
    <3>2. QED
      BY <2>1, <2>2, <3>1
  <2>5. QED
    BY <2>3, <2>4
\* Beyond the grace whatever is left is revoked.
<1>5. ASSUME NEW vs \in VehicleStates, GiveUp(vs)
      PROVE  Lease!Revoke
  <2>1. out' # None /\ out'.path = "stop"
    BY <1>5, SentIsDatagram DEF GiveUp, PathKinds
  <2>2. last_cp' = "stop"
    BY <1>5 DEF GiveUp
  <2>3. QED
    BY <2>1, <2>2
<1>6. CASE UNCHANGED vars
  BY <1>6 DEF vars, loopVars
<1>7. QED
  BY <1>1, <1>2, <1>3, <1>4, <1>5, <1>6 DEF Next

(***************************************************************************)
(* The loop implements the lease of DriveLease: each iteration grants,      *)
(* reuses, suspends or revokes.                                             *)
(***************************************************************************)
THEOREM LoopImplementsLease == Spec => ImplementsLease
<1>1. TypeOK /\ TypeOK' /\ IInv /\ [Next]_vars => [Lease!LeaseNext]_(Lease!leaseVars)
  BY LeaseStep
<1>2. QED
  BY LeaseInitially, <1>1, TypeCorrect, Invariance, PTL DEF Spec, ImplementsLease, Lease!LeaseSpec
------------------------------------------------------------------------------
(***************************************************************************)
(* The pipeline.  For the variables of the loop a step is one of the loop,  *)
(* none at all, or a restart of the planner.                                *)
(***************************************************************************)
Restarted ==
  /\ plan_fail_streak' = 0 /\ last_cp' = None /\ last_vehicle_state' = None
  /\ out' = None
  /\ Observe(AgeBound, 0, FALSE, FALSE)

LEMMA LoopStep ==
  ASSUME [PipelineNext]_pipelineVars
  PROVE  [Next]_vars \/ Restarted
<1>1. CASE PlanAndSend
  BY <1>1 DEF PlanAndSend, Next
<1>2. CASE Veto
  BY <1>2 DEF Veto, Next
<1>3. CASE RestartPlanner
  BY <1>3 DEF RestartPlanner, Restarted
<1>4. CASE UNCHANGED vars
  BY <1>4
<1>5. QED
  BY <1>1, <1>2, <1>3, <1>4
     DEF PipelineNext, Iterate, ParseData, FollowPath, RestartMpc, pipelineVars

\* What is proved of the loop holds over restarts.
LEMMA RestartedLoop ==
  ASSUME TypeOK, Restarted
  PROVE  TypeOK' /\ IInv' /\ Lease!Forget
<1>1. vetoed' \in BOOLEAN /\ gap' \in BOOLEAN /\ vetoed' = FALSE /\ out' = None
  BY DEF Restarted, Observe
<1>2. parity' \in {0, 1}
  BY DEF Restarted, Observe, TypeOK
<1>3. TypeOK'
  BY <1>1, <1>2 DEF Restarted, Observe, TypeOK, StreakBound
<1>4. IInv'
  BY <1>1, NoneAssumption
     DEF Restarted, Observe, IInv, KeptPathWithinGrace, VetoDiscards, SentIsKept,
         ResendBudget, SilentWithoutPose, Sent, PlanKinds, PathKinds
<1>5. Lease!Forget
  BY NoneAssumption DEF Restarted, Lease!Forget, PlanKinds, PathKinds
<1>6. QED
  BY <1>3, <1>4, <1>5

LEMMA LoopOfPipeline == PipelineSpec => [](TypeOK /\ IInv)
<1>1. PipelineInit => TypeOK /\ IInv
  BY TypeInit, InvInit DEF PipelineInit
<1>2. TypeOK /\ IInv /\ [PipelineNext]_pipelineVars => (TypeOK /\ IInv)'
  <2> SUFFICES ASSUME TypeOK, IInv, [PipelineNext]_pipelineVars
               PROVE  (TypeOK /\ IInv)'
    OBVIOUS
  <2>1. CASE [Next]_vars
    <3>1. TypeOK'
      BY <2>1, TypeStep
    <3>2. QED
      BY <2>1, <3>1, InvStep
  <2>2. CASE Restarted
    BY <2>2, RestartedLoop
  <2>3. QED
    BY <2>1, <2>2, LoopStep
<1>3. QED
  BY <1>1, <1>2, PTL DEF PipelineSpec

(***************************************************************************)
(* The lease holds over restarts of the planner: a restart forgets it, and  *)
(* nothing of it comes back.                                                *)
(***************************************************************************)
THEOREM PipelineImplementsLease == PipelineSpec => ImplementsLease
<1>1. PipelineInit => Lease!LeaseInit
  BY LeaseInitially DEF PipelineInit
<1>2. /\ TypeOK /\ IInv /\ (TypeOK /\ IInv)'
      /\ [PipelineNext]_pipelineVars
      => [Lease!LeaseNext]_(Lease!leaseVars)
  <2> SUFFICES ASSUME TypeOK, IInv, TypeOK', [PipelineNext]_pipelineVars
               PROVE  [Lease!LeaseNext]_(Lease!leaseVars)
    OBVIOUS
  <2>1. CASE [Next]_vars
    BY <2>1, LeaseStep
  <2>2. CASE Restarted
    BY <2>2, RestartedLoop DEF Lease!LeaseNext
  <2>3. QED
    BY <2>1, <2>2, LoopStep
<1>3. QED
  BY <1>1, <1>2, LoopOfPipeline, PTL DEF PipelineSpec, ImplementsLease, Lease!LeaseSpec

(***************************************************************************)
(* Restarts are no way to a stale drive path either.                        *)
(***************************************************************************)
THEOREM PipelineStalenessNeedsGap == PipelineSpec => []StaleOnlyAfterGap
<1>1. TypeOK /\ IInv => StaleOnlyAfterGap
  BY DEF TypeOK, IInv, KeptPathWithinGrace, SentIsKept, StaleOnlyAfterGap, PlanKinds, Sent
<1>2. QED
  BY <1>1, LoopOfPipeline, PTL

------------------------------------------------------------------------------
(***************************************************************************)
(* Datagrams.                                                               *)
(***************************************************************************)
LEMMA OvertakenFields ==
  ASSUME network \subseteq InFlight, NEW e \in Overtaken
  PROVE  \E d \in network :
           /\ d.behind < MaxDelay
           /\ e.path = d.path /\ e.behind = d.behind + 1
           /\ e.vetoed = d.vetoed /\ e.before = d.before
           /\ e \in InFlight
<1>1. PICK d \in network : d.behind < MaxDelay /\ e = [d EXCEPT !.behind = @ + 1]
  BY DEF Overtaken
<1>2. d \in InFlight
  OBVIOUS
<1>3. e \in InFlight /\ e.behind = d.behind + 1
  BY <1>1, <1>2, DelayAssumption DEF InFlight
<1>4. e.path = d.path /\ e.vetoed = d.vetoed /\ e.before = d.before
  BY <1>1, <1>2 DEF InFlight
<1>5. QED
  BY <1>1, <1>3, <1>4

LEMMA OutdatedFields ==
  ASSUME NEW d \in InFlight
  PROVE  LET e == [Outdated(d) EXCEPT !.before = TRUE]
         IN  e \in InFlight /\ e.before = TRUE /\ e.behind = d.behind
<1> DEFINE old == d.path \in PlanKinds
<1>1. old \in BOOLEAN
  OBVIOUS
<1> HIDE DEF old
<1>2. Outdated(d) = [d EXCEPT !.vetoed = old]
  BY DEF Outdated, old
<1>3. QED
  BY <1>1, <1>2 DEF InFlight

\* What the planner sends is of the present verdict.
LEMMA SentIsCurrent ==
  ASSUME TypeOK', IInv', out' # None
  PROVE  /\ ~(vetoed' /\ out'.path \in PlanKinds)
         /\ [path |-> out'.path, behind |-> 0, before |-> FALSE,
             vetoed |-> vetoed' /\ out'.path \in PlanKinds] \in InFlight
<1>1. out'.path \in PathKinds
  BY DEF TypeOK, Datagrams
<1>2. ~(vetoed' /\ out'.path \in PlanKinds)
  BY DEF IInv, VetoDiscards, Sent, PlanKinds
<1>3. QED
  BY <1>1, <1>2, DelayAssumption DEF InFlight
\* The datagrams under way are those of before, delayed, and the one sent now.
LEMMA Published ==
  ASSUME network \subseteq InFlight, NEW before \in SUBSET InFlight,
         TypeOK', IInv', Publish(before),
         NEW e \in network'
  PROVE  /\ e \in InFlight
         /\ \/ e \in before
            \/ out' # None /\ e.behind = 0 /\ e.before = FALSE /\ e.vetoed = FALSE
<1>1. CASE e \in before
  BY <1>1
<1>2. CASE e \notin before
  <2>1. /\ out' # None
        /\ e = [path |-> out'.path, behind |-> 0, before |-> FALSE,
                vetoed |-> vetoed' /\ out'.path \in PlanKinds]
    BY <1>2 DEF Publish
  <2>2. e \in InFlight
    BY <2>1, SentIsCurrent
  <2>3. e.behind = 0 /\ e.before = FALSE
    BY <2>1
  <2>4. e.vetoed = (vetoed' /\ out'.path \in PlanKinds)
    BY <2>1
  <2>5. e.vetoed = FALSE
    BY <2>1, <2>4, SentIsCurrent
  <2>6. QED
    BY <2>1, <2>2, <2>3, <2>5
<1>3. QED
  BY <1>1, <1>2

(***************************************************************************)
(* The inductive invariant of the channel: only what was sent before the    *)
(* last verdict can be out of date, everything sent before it is behind     *)
(* everything sent since, and once one of the latter was stored, what was   *)
(* sent before can only come late.                                          *)
(***************************************************************************)
OnlyOldIsVetoed == \A d \in network : d.vetoed => d.before
OldIsBehind == \A d, e \in network : d.before /\ ~e.before => d.behind > e.behind
OldComesLate == told => \A d \in network : d.before => d.behind > newest

CInv == OnlyOldIsVetoed /\ OldIsBehind /\ OldComesLate /\ VetoHeard

ChannelTypeOK ==
  /\ network \subseteq InFlight
  /\ received \in Stored \cup {None}
  /\ used \in PathKinds \cup {None}
  /\ newest \in 0..MaxDelay + 1
  /\ told \in BOOLEAN

\* A path stored is never mistaken for None.
LEMMA ChannelTypeStep ==
  ASSUME TypeOK', IInv', ChannelTypeOK, [PipelineNext]_pipelineVars
  PROVE  ChannelTypeOK'
<1> USE DelayAssumption DEF ChannelTypeOK
<1>1. \A e \in Overtaken : e \in InFlight
  BY OvertakenFields
<1>2. CASE PlanAndSend
  <2> DEFINE before == IF out' = None THEN network ELSE Overtaken
  <2>1. before \in SUBSET InFlight
    BY <1>1
  <2>2. Publish(before)
    BY <1>2 DEF PlanAndSend
  <2> HIDE DEF before
  <2>3. network' \subseteq InFlight
    BY <2>1, <2>2, Published
  <2>4. newest' \in 0..MaxDelay + 1
    BY <1>2 DEF PlanAndSend, Number, Later
  <2>5. QED
    BY <1>2, <2>3, <2>4 DEF PlanAndSend
<1>3. CASE Veto
  <2> DEFINE before == {[Outdated(d) EXCEPT !.before = TRUE] : d \in Overtaken}
  <2>1. before \in SUBSET InFlight
    BY <1>1, OutdatedFields
  <2>2. Publish(before)
    BY <1>3 DEF Veto
  <2> HIDE DEF before
  <2>3. network' \subseteq InFlight
    BY <2>1, <2>2, Published
  <2>4. newest' \in 0..MaxDelay + 1
    BY <1>3 DEF Veto, Number, Later
  <2>5. received' \in Stored \cup {None}
    <3>1. CASE received = None
      BY <1>3, <3>1 DEF Veto
    <3>2. CASE received # None
      <4> DEFINE old == received.path \in PlanKinds
      <4>1. old \in BOOLEAN
        OBVIOUS
      <4>2. received' = [received EXCEPT !.vetoed = old]
        BY <1>3, <3>2 DEF Veto, Outdated
      <4> HIDE DEF old
      <4>3. QED
        BY <3>2, <4>1, <4>2 DEF Stored
    <3>3. QED
      BY <3>1, <3>2
  <2>6. QED
    BY <1>3, <2>3, <2>4, <2>5 DEF Veto
<1>4. ASSUME NEW d \in network, ParseData(d)
      PROVE  ChannelTypeOK'
  <2> DEFINE late == d.behind > newest
  <2>1. late \in BOOLEAN
    OBVIOUS
  <2>2. received' = [path |-> d.path, vetoed |-> d.vetoed, late |-> late]
    BY <1>4 DEF ParseData
  <2> HIDE DEF late
  <2>3. received' \in Stored
    BY <2>1, <2>2 DEF Stored, InFlight
  <2>4. newest' \in 0..MaxDelay + 1
    BY <1>4 DEF ParseData, InFlight
  <2>5. told' \in BOOLEAN
    BY <1>4 DEF ParseData
  <2>6. QED
    BY <1>4, <2>3, <2>4, <2>5 DEF ParseData
<1>5. CASE FollowPath
  BY <1>5 DEF FollowPath, Stored
<1>6. CASE RestartPlanner
  BY <1>6 DEF RestartPlanner
<1>7. CASE RestartMpc
  BY <1>7 DEF RestartMpc
<1>8. CASE UNCHANGED pipelineVars
  BY <1>8 DEF pipelineVars
<1>9. QED
  BY <1>2, <1>3, <1>4, <1>5, <1>6, <1>7, <1>8 DEF PipelineNext, Iterate

(***************************************************************************)
(* Types of the whole pipeline.                                             *)
(***************************************************************************)
THEOREM PipelineTypeCorrect == PipelineSpec => []PipelineTypeOK
<1>1. PipelineInit => ChannelTypeOK
  <2> SUFFICES ASSUME PipelineInit PROVE ChannelTypeOK
    OBVIOUS
  <2>1. told \in BOOLEAN
    BY DEF PipelineInit
  <2>2. QED
    BY <2>1, DelayAssumption DEF PipelineInit, ChannelTypeOK
<1>2. TypeOK' /\ IInv' /\ ChannelTypeOK /\ [PipelineNext]_pipelineVars => ChannelTypeOK'
  BY ChannelTypeStep
<1>3. TypeOK /\ ChannelTypeOK => PipelineTypeOK
  BY DEF ChannelTypeOK, PipelineTypeOK
<1>4. QED
  BY <1>1, <1>2, <1>3, LoopOfPipeline, PTL DEF PipelineSpec
LEMMA ChannelStep ==
  ASSUME TypeOK', IInv', ChannelTypeOK, ChannelTypeOK', CInv,
         [PipelineNext]_pipelineVars
  PROVE  CInv'
<1> USE DelayAssumption
<1> USE DEF CInv, OnlyOldIsVetoed, OldIsBehind, OldComesLate
<1>0. network \subseteq InFlight
  BY DEF ChannelTypeOK
\* Whatever is sent pushes the rest, and what was stored, one place back.
<1>1. CASE PlanAndSend
  <2>1. /\ Publish(IF out' = None THEN network ELSE Overtaken)
        /\ Number
        /\ UNCHANGED <<received, told>>
    BY <1>1 DEF PlanAndSend
  <2>2. VetoHeard'
    BY <2>1 DEF VetoHeard
  <2>3. CASE out' = None
    <3>1. network' = network /\ newest' = newest
      BY <2>1, <2>3 DEF Publish, Number
    <3>2. QED
      BY <2>1, <2>2, <3>1
  <2>4. CASE out' # None
    <3>1. Publish(Overtaken) /\ newest' = Later(newest)
      BY <2>1, <2>4 DEF Number
    <3>2. Overtaken \in SUBSET InFlight
      BY <1>0, OvertakenFields
    <3>3. \A e \in network' :
            \/ \E d \in network : /\ e.behind = d.behind + 1
                                  /\ e.vetoed = d.vetoed /\ e.before = d.before
            \/ e.behind = 0 /\ e.before = FALSE /\ e.vetoed = FALSE
      <4> SUFFICES ASSUME NEW e \in network'
                   PROVE  \/ \E d \in network :
                                /\ e.behind = d.behind + 1
                                /\ e.vetoed = d.vetoed /\ e.before = d.before
                          \/ e.behind = 0 /\ e.before = FALSE /\ e.vetoed = FALSE
        OBVIOUS
      <4>1. \/ e \in Overtaken
            \/ e.behind = 0 /\ e.before = FALSE /\ e.vetoed = FALSE
        BY <1>0, <3>1, <3>2, Published
      <4>2. e \in Overtaken => \E d \in network :
                                  /\ e.behind = d.behind + 1
                                  /\ e.vetoed = d.vetoed /\ e.before = d.before
        BY <1>0, OvertakenFields
      <4>3. QED
        BY <4>1, <4>2
    <3>4. \A d \in network : d.behind \in 0..MaxDelay
      BY <1>0 DEF InFlight
    <3>5. OnlyOldIsVetoed'
      BY <3>3
    <3>6. OldIsBehind'
      BY <3>3, <3>4
    <3>7. OldComesLate'
      <4>0. told' = told
        BY <2>1
      <4> SUFFICES ASSUME told, NEW e \in network', e.before
                   PROVE  e.behind > newest'
        BY <4>0 DEF OldComesLate
      <4>1. PICK d \in network : /\ e.behind = d.behind + 1
                                /\ e.vetoed = d.vetoed /\ e.before = d.before
        BY <3>3
      <4>2. d.behind > newest /\ d.behind \in 0..MaxDelay /\ newest \in 0..MaxDelay + 1
        BY <3>4, <4>1 DEF ChannelTypeOK
      <4>3. newest' = newest + 1
        BY <3>1, <4>2 DEF Later
      <4>4. QED
        BY <4>1, <4>2, <4>3
    <3>8. QED
      BY <2>2, <3>5, <3>6, <3>7
  <2>5. QED
    BY <2>3, <2>4
\* A verdict puts everything under way on the other side.
<1>2. CASE Veto
  <2> DEFINE before == {[Outdated(d) EXCEPT !.before = TRUE] : d \in Overtaken}
  <2>1. Publish(before) /\ told' = FALSE
    BY <1>2 DEF Veto
  <2>2. \A e \in before : e \in InFlight /\ e.before = TRUE /\ e.behind > 0
    <3> SUFFICES ASSUME NEW e \in before
                 PROVE  e \in InFlight /\ e.before = TRUE /\ e.behind > 0
      OBVIOUS
    <3>1. PICK d \in Overtaken : e = [Outdated(d) EXCEPT !.before = TRUE]
      OBVIOUS
    <3>2. d \in InFlight /\ d.behind > 0
      BY <1>0, OvertakenFields DEF InFlight
    <3>3. QED
      BY <3>1, <3>2, OutdatedFields
  <2>3. before \in SUBSET InFlight
    BY <2>2
  <2> HIDE DEF before
  <2>4. \A e \in network' :
          \/ e.before = TRUE /\ e.behind > 0
          \/ e.behind = 0 /\ e.before = FALSE /\ e.vetoed = FALSE
    BY <1>0, <2>1, <2>2, <2>3, Published
  <2>5. OnlyOldIsVetoed' /\ OldIsBehind'
    BY <2>4
  <2>6. OldComesLate' /\ VetoHeard'
    BY <2>1 DEF VetoHeard
  <2>7. QED
    BY <2>5, <2>6
\* What is out of date is old, and if the MPC had heard, it comes late.
<1>3. ASSUME NEW d \in network, ParseData(d)
      PROVE  CInv'
  <2> DEFINE late == d.behind > newest
  <2>1. /\ received' = [path |-> d.path, vetoed |-> d.vetoed, late |-> late]
        /\ newest' = IF d.behind < newest THEN d.behind ELSE newest
        /\ told' = (told \/ ~d.before)
        /\ network' = network
    BY <1>3 DEF ParseData
  <2>2. OnlyOldIsVetoed' /\ OldIsBehind'
    BY <2>1
  <2>3. \A e \in network : e.behind \in 0..MaxDelay
    BY <1>0 DEF InFlight
  <2>4. newest \in 0..MaxDelay + 1
    BY DEF ChannelTypeOK
  <2>5. OldComesLate'
    <3> SUFFICES ASSUME told', NEW e \in network, e.before
                 PROVE  e.behind > newest'
      BY <2>1
    <3>1. CASE told
      BY <2>1, <2>3, <2>4, <3>1
    <3>2. CASE ~d.before
      BY <2>1, <2>3, <2>4, <3>2
    <3>3. QED
      BY <2>1, <3>1, <3>2
  <2>6. VetoHeard'
    <3> SUFFICES ASSUME told', d.vetoed
                 PROVE  late
      BY <2>1 DEF VetoHeard
    <3>1. d.before
      OBVIOUS
    <3>2. told
      BY <2>1, <3>1
    <3>3. QED
      BY <3>1, <3>2
  <2>7. QED
    BY <2>2, <2>5, <2>6
<1>4. CASE FollowPath \/ RestartPlanner \/ UNCHANGED pipelineVars
  <2>1. UNCHANGED <<network, received, newest, told>>
    BY <1>4 DEF FollowPath, RestartPlanner, pipelineVars
  <2>2. QED
    BY <2>1 DEF VetoHeard
<1>5. CASE RestartMpc
  <2>1. UNCHANGED <<network, newest, told>> /\ received' = None
    BY <1>5 DEF RestartMpc
  <2>2. QED
    BY <2>1 DEF VetoHeard
<1>6. QED
  BY <1>1, <1>2, <1>3, <1>4, <1>5 DEF PipelineNext, Iterate

(***************************************************************************)
(* Whatever is lost, doubled, delayed or restarted: once the MPC has heard  *)
(* of a collision verdict it reads no path from before it, unless that path *)
(* comes late.                                                              *)
(***************************************************************************)
THEOREM VerdictIsHeard == PipelineSpec => []VetoHeard
<1>1. PipelineInit => ChannelTypeOK /\ CInv
  <2> SUFFICES ASSUME PipelineInit PROVE ChannelTypeOK /\ CInv
    OBVIOUS
  <2>1. told \in BOOLEAN /\ told = FALSE /\ network = {} /\ received = None
    BY DEF PipelineInit
  <2>2. ChannelTypeOK
    BY <2>1, DelayAssumption DEF PipelineInit, ChannelTypeOK
  <2>3. CInv
    BY <2>1 DEF CInv, OnlyOldIsVetoed, OldIsBehind, OldComesLate, VetoHeard
  <2>4. QED
    BY <2>2, <2>3
<1>2. /\ TypeOK' /\ IInv' /\ ChannelTypeOK /\ CInv /\ [PipelineNext]_pipelineVars
      => (ChannelTypeOK /\ CInv)'
  BY ChannelTypeStep, ChannelStep
<1>3. CInv => VetoHeard
  BY DEF CInv
<1>4. QED
  BY <1>1, <1>2, <1>3, LoopOfPipeline, PTL DEF PipelineSpec

------------------------------------------------------------------------------
(***************************************************************************)
(* How long a drive path can go on.  The resends left to the planner and    *)
(* the sends after which the youngest drive datagram can no longer arrive   *)
(* make one number, which only a success of Plan() raises.                  *)
(***************************************************************************)
Behinds == {d.behind : d \in {e \in network : e.path = "drive"}}
Underway == Behinds # {}
Youngest == CHOOSE b \in Behinds : \A c \in Behinds : b <= c
SendsToGo == IF Underway THEN MaxDelay + 1 - Youngest ELSE 0
Allowance == IF last_cp = "drive" THEN MaxTransientFailCycles - plan_fail_streak ELSE 0
DriveLeft == Allowance * (MaxDelay + 2) + SendsToGo

DriveLeftBounded ==
  DriveLeft \in 0..MaxTransientFailCycles * (MaxDelay + 2) + MaxDelay + 1

(***************************************************************************)
(* The measure behind FailureStopsVehicle: while planning fails, every      *)
(* iteration that sends a datagram and leaves a drive datagram under way    *)
(* lowers DriveLeft, and nothing but a success raises it.                   *)
(***************************************************************************)
LastDriveRunsOut ==
  [][/\ DriveLeft' > DriveLeft => Iterate /\ age' = 0
     /\ Iterate /\ out' # None /\ age' > 0 /\ Underway' => DriveLeft' < DriveLeft]_pipelineVars

LEMMA YoungestUnderway ==
  ASSUME network \subseteq InFlight
  PROVE  /\ Underway => /\ Youngest \in Behinds /\ Youngest \in 0..MaxDelay
                        /\ \A c \in Behinds : Youngest <= c
         /\ SendsToGo \in 0..MaxDelay + 1
         /\ Behinds \subseteq 0..MaxDelay
<1>1. Behinds \subseteq 0..MaxDelay
  BY DEF Behinds, InFlight
<1>2. ASSUME Underway
      PROVE  /\ Youngest \in Behinds /\ Youngest \in 0..MaxDelay
             /\ \A c \in Behinds : Youngest <= c
  <2>1. Behinds \in SUBSET Nat /\ Behinds # {}
    BY <1>1, <1>2, DelayAssumption DEF Underway
  <2>2. \E x \in Behinds : \A y \in Behinds : x <= y
    BY <2>1, LeastElement
  <2>3. QED
    BY <1>1, <2>2 DEF Youngest
<1>3. SendsToGo \in 0..MaxDelay + 1
  BY <1>2, DelayAssumption DEF SendsToGo
<1>4. QED
  BY <1>1, <1>2, <1>3

LEMMA AllowanceBounded ==
  ASSUME TypeOK, IInv
  PROVE  Allowance \in 0..MaxTransientFailCycles
BY DEF TypeOK, IInv, KeptPathWithinGrace, Allowance, StreakBound, PlanKinds

LEMMA DriveLeftIsBounded ==
  ASSUME TypeOK, IInv, network \subseteq InFlight
  PROVE  DriveLeftBounded
<1>1. Allowance \in 0..MaxTransientFailCycles /\ SendsToGo \in 0..MaxDelay + 1
  BY AllowanceBounded, YoungestUnderway
<1>2. MaxDelay + 2 \in Nat
  BY DelayAssumption
<1>3. /\ Allowance * (MaxDelay + 2) \in Nat
      /\ MaxTransientFailCycles * (MaxDelay + 2) \in Nat
      /\ Allowance * (MaxDelay + 2) <= MaxTransientFailCycles * (MaxDelay + 2)
  BY <1>1, <1>2, ProductMonotone
<1> DEFINE used_up == Allowance * (MaxDelay + 2)
           full == MaxTransientFailCycles * (MaxDelay + 2)
<1>4. used_up \in Nat /\ full \in Nat /\ used_up <= full
  BY <1>3
<1>5. DriveLeftBounded <=> used_up + SendsToGo \in 0..full + MaxDelay + 1
  BY DEF DriveLeftBounded, DriveLeft
<1> HIDE DEF used_up, full
<1>6. QED
  BY <1>1, <1>4, <1>5, DelayAssumption

\* A datagram is overtaken when another is sent; a drive datagram that may
\* still arrive was under way before, or is the one sent now.
LEMMA DrivesAreOvertaken ==
  ASSUME network \subseteq InFlight, TypeOK', PlanAndSend \/ Veto, out' # None
  PROVE  \A b \in Behinds' : \/ out'.path = "drive"
                             \/ \E c \in Behinds : b = c + 1
<1> SUFFICES ASSUME NEW b \in Behinds', out'.path # "drive"
             PROVE  \E c \in Behinds : b = c + 1
  OBVIOUS
<1>1. PICK e \in network' : e.path = "drive" /\ b = e.behind
  BY DEF Behinds
<1> DEFINE new == [path |-> out'.path, behind |-> 0, before |-> FALSE,
                   vetoed |-> vetoed' /\ out'.path \in PlanKinds]
<1>2. new.path = out'.path
  OBVIOUS
<1>3. e # new
  BY <1>1, <1>2
<1>4. \E d \in Overtaken : d.path = e.path /\ d.behind = e.behind
  <2>1. CASE PlanAndSend
    <3>1. network' = Overtaken \cup {new}
      BY <2>1 DEF PlanAndSend, Publish
    <3>2. e \in Overtaken
      BY <3>1, <1>3
    <3>3. QED
      BY <3>2
  <2>2. CASE Veto
    <3>1. network' = {[Outdated(d) EXCEPT !.before = TRUE] : d \in Overtaken} \cup {new}
      BY <2>2 DEF Veto, Publish
    <3>2. PICK d \in Overtaken : e = [Outdated(d) EXCEPT !.before = TRUE]
      BY <3>1, <1>3
    <3>3. d \in InFlight
      BY OvertakenFields
    <3>4. e.path = d.path
      BY <3>2, <3>3 DEF Outdated, InFlight
    <3>5. e.behind = d.behind
      BY <3>2, <3>3, OutdatedFields
    <3>6. QED
      BY <3>4, <3>5
  <2>3. QED
    BY <2>1, <2>2
<1>5. PICK d \in Overtaken : d.path = e.path /\ d.behind = e.behind
  BY <1>4
<1>6. PICK c \in network : d.path = c.path /\ d.behind = c.behind + 1
  BY OvertakenFields
<1>7. c.behind \in Behinds
  BY <1>1, <1>5, <1>6 DEF Behinds
<1>8. QED
  BY <1>1, <1>5, <1>6, <1>7

\* One send more brings every drive datagram under way closer to its end.
LEMMA OvertakingLowers ==
  ASSUME network \subseteq InFlight, (network \subseteq InFlight)', TypeOK',
         PlanAndSend \/ Veto, out' # None, out'.path # "drive"
  PROVE  /\ SendsToGo' <= SendsToGo
         /\ Underway' => SendsToGo' < SendsToGo
<1>1. CASE Underway'
  <2>1. /\ Youngest' \in Behinds' /\ Youngest' \in 0..MaxDelay
    <3>1. \A b \in Behinds' : b \in 0..MaxDelay
      BY DEF Behinds, InFlight
    <3>2. Behinds' \in SUBSET Nat /\ Behinds' # {}
      BY <1>1, <3>1, DelayAssumption DEF Underway
    <3>3. \E x \in Behinds' : \A y \in Behinds' : x <= y
      BY <3>2, LeastElement
    <3>4. QED
      BY <3>1, <3>3 DEF Youngest
  <2>2. PICK c \in Behinds : Youngest' = c + 1
    BY <2>1, DrivesAreOvertaken
  <2>3. /\ Underway /\ Youngest \in 0..MaxDelay /\ Youngest <= c /\ c \in 0..MaxDelay
    BY YoungestUnderway DEF Underway
  <2>4. SendsToGo' = MaxDelay + 1 - (c + 1) /\ SendsToGo = MaxDelay + 1 - Youngest
    BY <1>1, <2>2, <2>3 DEF SendsToGo
  <2>5. QED
    BY <2>3, <2>4, DelayAssumption
<1>2. CASE ~Underway'
  <2>1. SendsToGo' = 0
    BY <1>2 DEF SendsToGo
  <2>2. QED
    BY <1>2, <2>1, YoungestUnderway
<1>3. QED
  BY <1>1, <1>2

\* What an iteration without a success does to the resends that are left.
LEMMA AllowanceStep ==
  ASSUME TypeOK, TypeOK', IInv, Iterate, age' > 0
  PROVE  /\ Allowance' <= Allowance
         /\ out' # None /\ out'.path = "drive" => Allowance' + 1 <= Allowance
<1> USE DEF PlanKinds, PathKinds
<1>1. /\ plan_fail_streak \in 0..StreakBound /\ StreakBound \in Nat
      /\ plan_fail_streak' \in 0..StreakBound
  BY DEF TypeOK, StreakBound
<1>2. last_cp = "drive" => plan_fail_streak <= MaxTransientFailCycles
  BY DEF IInv, KeptPathWithinGrace
<1>3. CASE LocalizationLost
  <2>1. Allowance' = Allowance
    BY <1>3 DEF LocalizationLost, loopVars, Allowance
  <2>2. out' # None => out'.path = "stop"
    BY <1>3, SentIsDatagram, <1>1 DEF LocalizationLost, TypeOK
  <2>3. QED
    BY <2>1, <2>2, AllowanceBounded
<1>4. ASSUME NEW vs \in VehicleStates, NEW k \in PlanKinds, PlanSucceeds(vs, k) PROVE FALSE
  BY <1>4 DEF PlanSucceeds, Observe
<1>5. ASSUME NEW vs \in VehicleStates, GiveUp(vs) \/ CollisionBlocked(vs)
      PROVE  Allowance' = 0 /\ out'.path = "stop"
  BY <1>5, SentIsDatagram DEF GiveUp, CollisionBlocked, Allowance
<1>6. ASSUME NEW vs \in VehicleStates, ResendLastPath(vs)
      PROVE  /\ Allowance' <= Allowance
             /\ out'.path = "drive" => Allowance' + 1 <= Allowance
  <2>1. /\ last_cp \in PathKinds /\ last_cp' = last_cp /\ SendPlannedPath(last_cp, vs)
        /\ plan_fail_streak' = Bump(plan_fail_streak, StreakBound)
    BY <1>6 DEF ResendLastPath, PlanFails, TypeOK
  <2>2. out'.path = last_cp
    BY <2>1, SentIsDatagram
  <2>3. CASE last_cp = "drive"
    <3>1. plan_fail_streak' = plan_fail_streak + 1
      BY <1>1, <1>2, <2>1, <2>3, BumpBounded DEF StreakBound
    <3>2. /\ Allowance = MaxTransientFailCycles - plan_fail_streak
          /\ Allowance' = MaxTransientFailCycles - plan_fail_streak'
      BY <2>1, <2>3 DEF Allowance
    <3>3. QED
      BY <1>1, <3>1, <3>2
  <2>4. CASE last_cp # "drive"
    BY <2>1, <2>2, <2>4 DEF Allowance
  <2>5. QED
    BY <2>3, <2>4
<1>7. QED
  BY <1>3, <1>4, <1>5, <1>6, AllowanceBounded DEF Iterate, PlanAndSend, Veto

LEMMA DriveLeftStep ==
  ASSUME TypeOK, IInv, TypeOK', IInv', network \subseteq InFlight, (network \subseteq InFlight)',
         [PipelineNext]_pipelineVars
  PROVE  /\ DriveLeft' > DriveLeft => Iterate /\ age' = 0
         /\ Iterate /\ out' # None /\ age' > 0 /\ Underway' => DriveLeft' < DriveLeft
<1> DEFINE w == MaxDelay + 2
<1>1. /\ w \in Nat \ {0} /\ Allowance \in Nat /\ SendsToGo \in 0..w - 1
      /\ DriveLeft = Allowance * w + SendsToGo
  <2>1. Allowance \in Nat /\ SendsToGo \in 0..MaxDelay + 1
    BY AllowanceBounded, YoungestUnderway
  <2>2. w \in Nat \ {0} /\ w - 1 = MaxDelay + 1
    BY DelayAssumption
  <2>3. QED
    BY <2>1, <2>2 DEF DriveLeft
<1>2. /\ Allowance' \in Nat /\ SendsToGo' \in 0..w - 1
      /\ DriveLeft' = Allowance' * w + SendsToGo'
  <2>1. Allowance' \in Nat
    <3>1. plan_fail_streak' \in Nat
      BY DEF TypeOK, StreakBound
    <3>2. (last_cp \in PlanKinds => plan_fail_streak <= MaxTransientFailCycles)'
      BY DEF IInv, KeptPathWithinGrace
    <3>3. CASE last_cp' = "drive"
      <4>1. PICK n \in Nat : /\ n <= MaxTransientFailCycles
                             /\ Allowance' = MaxTransientFailCycles - n
        BY <3>1, <3>2, <3>3 DEF Allowance, PlanKinds
      <4>2. QED
        BY <4>1
    <3>4. CASE last_cp' # "drive"
      BY <3>4 DEF Allowance
    <3>5. QED
      BY <3>3, <3>4
  <2>2. SendsToGo' \in 0..MaxDelay + 1
    <3>1. \A b \in Behinds' : b \in 0..MaxDelay
      BY DEF Behinds, InFlight
    <3>2. CASE Underway'
      <4>1. Behinds' \in SUBSET Nat /\ Behinds' # {}
        BY <3>1, <3>2, DelayAssumption DEF Underway
      <4>2. \E x \in Behinds' : \A y \in Behinds' : x <= y
        BY <4>1, LeastElement
      <4>3. Youngest' \in 0..MaxDelay
        BY <3>1, <4>2 DEF Youngest
      <4>4. PICK b \in 0..MaxDelay : SendsToGo' = MaxDelay + 1 - b
        BY <3>2, <4>3 DEF SendsToGo
      <4>5. QED
        BY <4>4, DelayAssumption
    <3>3. CASE ~Underway'
      <4>1. SendsToGo' = 0
        BY <3>3 DEF SendsToGo
      <4>2. QED
        BY <4>1, DelayAssumption
    <3>4. QED
      BY <3>2, <3>3
  <2>3. w - 1 = MaxDelay + 1
    BY DelayAssumption
  <2>4. QED
    BY <2>1, <2>2, <2>3 DEF DriveLeft
<1> HIDE DEF w
<1>3. age' \in Nat /\ (Iterate => age' = 0 \/ age' > 0)
  BY DEF TypeOK
<1>4. ASSUME Iterate, age' > 0, out' # None
      PROVE  DriveLeft' <= DriveLeft /\ (Underway' => DriveLeft' < DriveLeft)
  <2> DEFINE left == Allowance * w + SendsToGo
             next == Allowance' * w + SendsToGo'
  <2>0. DriveLeft = left /\ DriveLeft' = next /\ left \in Nat /\ next \in Nat
    BY <1>1, <1>2, RankFalls
  <2>1. CASE out'.path = "drive"
    <3>1. Allowance' + 1 <= Allowance
      BY <1>4, <2>1, AllowanceStep
    <3>2. next < left
      BY <1>1, <1>2, <3>1, RankFalls
    <3> HIDE DEF left, next
    <3>3. QED
      BY <2>0, <3>2
  <2>2. CASE out'.path # "drive"
    <3>1. Allowance' <= Allowance
      BY <1>4, AllowanceStep
    <3>2. SendsToGo' <= SendsToGo /\ (Underway' => SendsToGo' < SendsToGo)
      BY <1>4, <2>2, OvertakingLowers DEF Iterate
    <3>3. next <= left /\ (Underway' => next < left)
      BY <1>1, <1>2, <3>1, <3>2, RankFalls
    <3> HIDE DEF left, next
    <3>4. QED
      BY <2>0, <3>3
  <2>3. QED
    BY <2>1, <2>2
<1>5. ASSUME network' = network PROVE SendsToGo' = SendsToGo
  BY <1>5 DEF SendsToGo, Underway, Youngest, Behinds
<1>6. ASSUME network' = network, Allowance' <= Allowance
      PROVE  DriveLeft' <= DriveLeft
  <2>1. SendsToGo' <= SendsToGo
    BY <1>1, <1>5, <1>6
  <2>2. Allowance' * w + SendsToGo' <= Allowance * w + SendsToGo
    BY <1>1, <1>2, <1>6, <2>1, RankFalls
  <2>3. QED
    BY <1>1, <1>2, <2>2
<1>7. ASSUME Iterate, age' > 0, out' = None PROVE DriveLeft' <= DriveLeft
  <2>1. PlanAndSend
    BY <1>7, SentIsDatagram DEF Iterate, Veto, CollisionBlocked, PathKinds
  <2>2. network' = network
    BY <1>7, <2>1 DEF PlanAndSend, Publish
  <2>3. QED
    BY <1>6, <1>7, <2>2, AllowanceStep
<1>8. ASSUME RestartPlanner PROVE DriveLeft' <= DriveLeft
  <2>1. network' = network /\ Allowance' = 0
    BY <1>8, NoneAssumption DEF RestartPlanner, Allowance, PathKinds, PlanKinds
  <2>2. QED
    BY <1>1, <1>6, <2>1
<1>9. ASSUME UNCHANGED <<network, last_cp, plan_fail_streak>> PROVE DriveLeft' <= DriveLeft
  <2>1. Allowance' = Allowance
    BY <1>9 DEF Allowance
  <2>2. QED
    BY <1>1, <1>6, <1>9, <2>1
<1>10. ~Iterate => DriveLeft' <= DriveLeft
  <2>1. ASSUME NEW d \in network, ParseData(d) PROVE DriveLeft' <= DriveLeft
    BY <1>9, <2>1 DEF ParseData, vars, loopVars
  <2>2. CASE FollowPath
    BY <1>9, <2>2 DEF FollowPath, vars, loopVars
  <2>3. CASE RestartMpc
    BY <1>9, <2>3 DEF RestartMpc, vars, loopVars
  <2>4. CASE UNCHANGED pipelineVars
    BY <1>9, <2>4 DEF pipelineVars, vars, loopVars
  <2>5. QED
    BY <1>8, <2>1, <2>2, <2>3, <2>4 DEF PipelineNext
<1>11. DriveLeft' \in Nat /\ DriveLeft \in Nat
  <2>1. Allowance * w + SendsToGo \in Nat
    BY <1>1, RankFalls
  <2>2. Allowance' * w + SendsToGo' \in Nat
    BY <1>1, <1>2, RankFalls
  <2>3. QED
    BY <1>1, <1>2, <2>1, <2>2
<1>12. QED
  BY <1>3, <1>4, <1>7, <1>10, <1>11

(***************************************************************************)
(* When planning fails for good, drive datagrams run out: after at most     *)
(* MaxTransientFailCycles * (MaxDelay + 2) + MaxDelay + 1 iterations that   *)
(* send a datagram none can arrive any more, whatever is lost, doubled,     *)
(* reordered or restarted (frenet_planner/src/main.cpp:143-169).            *)
(***************************************************************************)
THEOREM LastDriveIsBounded == PipelineSpec => []DriveLeftBounded /\ LastDriveRunsOut
<1>1. TypeOK /\ IInv /\ PipelineTypeOK => DriveLeftBounded
  BY DriveLeftIsBounded DEF PipelineTypeOK
<1>2. /\ TypeOK /\ IInv /\ PipelineTypeOK /\ (TypeOK /\ IInv /\ PipelineTypeOK)'
      /\ [PipelineNext]_pipelineVars
      => [/\ DriveLeft' > DriveLeft => Iterate /\ age' = 0
          /\ Iterate /\ out' # None /\ age' > 0 /\ Underway'
               => DriveLeft' < DriveLeft]_pipelineVars
  <2> SUFFICES ASSUME TypeOK, IInv, PipelineTypeOK, (TypeOK /\ IInv /\ PipelineTypeOK)',
                      [PipelineNext]_pipelineVars
               PROVE  /\ DriveLeft' > DriveLeft => Iterate /\ age' = 0
                      /\ Iterate /\ out' # None /\ age' > 0 /\ Underway'
                           => DriveLeft' < DriveLeft
    OBVIOUS
  <2>1. network \subseteq InFlight /\ (network \subseteq InFlight)'
    BY DEF PipelineTypeOK
  <2>2. QED
    BY <2>1, DriveLeftStep
<1>3. QED
  BY <1>1, <1>2, LoopOfPipeline, PipelineTypeCorrect, PTL DEF PipelineSpec, LastDriveRunsOut
=============================================================================
