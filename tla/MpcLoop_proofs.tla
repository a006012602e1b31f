---------------------------- MODULE MpcLoop_proofs ----------------------------
(***************************************************************************)
(* Theorems about the MPC loop, for every timeout, recovery duration, limit *)
(* and optimiser.                                                           *)
(***************************************************************************)
EXTENDS MpcLoop, TLAPS

(***************************************************************************)
(* A projected control is inside the box and within one rate step of the    *)
(* previous one, if that was inside the box (constraints.cpp,               *)
(* mpc_solver.cpp:10-20): the rate limit cannot push it out again.          *)
(***************************************************************************)
LEMMA ProjectionRespectsLimits ==
  ASSUME NEW u \in [delta : Int, accel : Int], NEW prev \in Controls
  PROVE  /\ Project(u, prev) \in Controls
         /\ WithinRate(Project(u, prev).delta, prev.delta)
<1> DEFINE b == Clip(u.delta, -SteerMax, SteerMax)
           a == Clip(u.accel, AccelMin, AccelMax)
           step == Clip(b - prev.delta, -SteerStep, SteerStep)
<1>1. b \in -SteerMax..SteerMax /\ a \in AccelMin..AccelMax
  BY LimitsAssumption DEF Clip
<1>2. prev.delta \in -SteerMax..SteerMax
  BY DEF Controls
<1>3. step \in -SteerStep..SteerStep
  <2> HIDE DEF b
  <2>1. QED
    BY <1>1, <1>2, LimitsAssumption DEF Clip
<1>4. prev.delta + step \in -SteerMax..SteerMax
  <2> DEFINE p == prev.delta
  <2> HIDE DEF b
  <2>1. CASE b - p < -SteerStep
    <3>1. step = -SteerStep
      BY <2>1 DEF Clip
    <3>2. QED
      BY <2>1, <3>1, <1>1, <1>2, LimitsAssumption
  <2>2. CASE b - p > SteerStep
    <3>1. step = SteerStep
      BY <2>2, <1>1, <1>2, LimitsAssumption DEF Clip
    <3>2. QED
      BY <2>2, <3>1, <1>1, <1>2, LimitsAssumption
  <2>3. CASE b - p \in -SteerStep..SteerStep
    <3>1. step = b - p
      BY <2>3, <1>1, <1>2, LimitsAssumption DEF Clip
    <3>2. QED
      BY <3>1, <1>1, <1>2
  <2>4. QED
    BY <2>1, <2>2, <2>3, <1>1, <1>2, LimitsAssumption
<1>5. Project(u, prev) = [delta |-> prev.delta + step, accel |-> a]
  BY DEF Project, ClipControl, ClipSteeringRate
<1> HIDE DEF b, a, step
<1>6. WithinRate(prev.delta + step, prev.delta)
  BY <1>2, <1>3, LimitsAssumption DEF WithinRate
<1>7. QED
  BY <1>1, <1>4, <1>5, <1>6 DEF Controls

LEMMA BumpInRange ==
  ASSUME NEW n \in 0..RunBound
  PROVE  Bump(n) \in 1..RunBound /\ Bump(n) <= n + 1
BY TimingAssumption DEF Bump, RunBound

\* What an input becomes on the wire: one of throttle and brake is zero.
LEMMA CommandOfInput ==
  ASSUME NEW delta \in -SteerMax..SteerMax, NEW raw \in AccelMin..AccelMax,
         SendCtrlCmd(delta, raw)
  PROVE  /\ cmd' \in Commands
         /\ cmd'.steer = delta
         /\ cmd'.accel - cmd'.brake = raw
         /\ raw >= 0 => cmd'.accel = raw /\ cmd'.brake = 0
<1> DEFINE up == AtLeast(raw, 0)
           down == AtLeast(-raw, 0)
<1>1. up \in 0..AccelMax /\ down \in Nat /\ up - down = raw
  BY LimitsAssumption DEF AtLeast
<1>2. raw >= 0 => up = raw /\ down = 0
  BY LimitsAssumption DEF AtLeast
<1>3. cmd' = [steer |-> delta, accel |-> up, brake |-> down]
  BY DEF SendCtrlCmd
<1> HIDE DEF up, down
<1>4. QED
  BY <1>1, <1>2, <1>3 DEF Commands

(***************************************************************************)
(* What the tail of an iteration guarantees, whatever the optimiser does.   *)
(***************************************************************************)
Assisted(recovery) == recovery > 0 /\ Stuck

LEMMA SolveOutcome ==
  ASSUME pp \in Received, NEW prev \in Controls, NEW warm \in {"empty", "plan"},
         NEW recovery \in 0..RecoveryDuration,
         SolveAndSend(prev, warm, recovery)
  PROVE  /\ last_control' \in Controls
         /\ warm_start' \in {"empty", "plan"}
         /\ cmd' \in Commands
         /\ pp' = pp /\ acted' = pp /\ parity' = 1 - parity
         /\ recovery_cycles_left' = IF Assisted(recovery) THEN recovery - 1 ELSE recovery
         /\ pulse' = IF Assisted(recovery) THEN Bump(pulse) ELSE 0
         /\ rest' = IF Stuck /\ ~Assisted(recovery) THEN Bump(rest) ELSE 0
         /\ pp.path # "empty" =>
              /\ last_control'.delta = cmd'.steer
              /\ last_control'.accel = cmd'.accel - cmd'.brake
              /\ WithinRate(cmd'.steer, prev.delta)
         /\ Assisted(recovery) => cmd'.accel >= LaunchAccel /\ cmd'.brake = 0
<1>1. /\ pp' = pp /\ acted' = pp /\ parity' = 1 - parity
      /\ recovery_cycles_left' = IF Assisted(recovery) THEN recovery - 1 ELSE recovery
      /\ pulse' = IF Assisted(recovery) THEN Bump(pulse) ELSE 0
      /\ rest' = IF Stuck /\ ~Assisted(recovery) THEN Bump(rest) ELSE 0
  BY DEF SolveAndSend, Assisted
<1>2. CASE pp.path = "empty"
  <2>1. SendCtrlCmd(0, FailAccel) /\ last_control' = prev /\ warm_start' = warm
    BY <1>2 DEF SolveAndSend
  <2>2. 0 \in -SteerMax..SteerMax /\ FailAccel \in AccelMin..AccelMax
    BY LimitsAssumption, InputsAssumption
  <2>3. cmd' \in Commands
    BY <2>1, <2>2, CommandOfInput
  <2>4. ~Assisted(recovery)
    BY <1>2 DEF Assisted, Stuck, ForwardIntent
  <2>5. QED
    BY <1>1, <1>2, <2>1, <2>3, <2>4
<1>3. CASE pp.path # "empty"
  <2>1. PICK raw \in RawControls :
          LET u == Project(raw, prev)
              accel_raw == IF Assisted(recovery) THEN AtLeast(u.accel, LaunchAccel)
                           ELSE u.accel
          IN /\ SendCtrlCmd(u.delta, accel_raw)
             /\ last_control' = [u EXCEPT !.accel = accel_raw]
    BY <1>3 DEF SolveAndSend, Assisted
  <2> DEFINE u == Project(raw, prev)
             accel_raw == IF Assisted(recovery) THEN AtLeast(u.accel, LaunchAccel)
                          ELSE u.accel
  <2>2. u \in Controls /\ WithinRate(u.delta, prev.delta)
    BY ProjectionRespectsLimits, InputsAssumption
  <2>3. SendCtrlCmd(u.delta, accel_raw) /\ last_control' = [u EXCEPT !.accel = accel_raw]
    BY <2>1
  <2> HIDE DEF u
  <2>4. u.delta \in -SteerMax..SteerMax /\ u.accel \in AccelMin..AccelMax
    BY <2>2 DEF Controls
  <2>5. /\ accel_raw \in AccelMin..AccelMax
        /\ Assisted(recovery) => accel_raw >= LaunchAccel
    BY <2>4, LimitsAssumption, InputsAssumption DEF AtLeast
  <2> HIDE DEF accel_raw
  <2>6. /\ cmd' \in Commands
        /\ cmd'.steer = u.delta
        /\ cmd'.accel - cmd'.brake = accel_raw
        /\ accel_raw >= 0 => cmd'.accel = accel_raw /\ cmd'.brake = 0
    BY <2>3, <2>4, <2>5, CommandOfInput
  <2>7. last_control' = [delta |-> u.delta, accel |-> accel_raw]
    BY <2>2, <2>3 DEF Controls
  <2>8. last_control' \in Controls
    BY <2>4, <2>5, <2>7 DEF Controls
  <2>9. warm_start' = "plan"
    BY <1>3 DEF SolveAndSend
  <2>10. Assisted(recovery) => cmd'.accel >= LaunchAccel /\ cmd'.brake = 0
    BY <2>5, <2>6, InputsAssumption, LimitsAssumption
  <2>11. WithinRate(cmd'.steer, prev.delta)
    BY <2>2, <2>6
  <2>12. QED
    BY <1>1, <2>6, <2>7, <2>8, <2>9, <2>10, <2>11
<1>4. QED
  BY <1>2, <1>3
------------------------------------------------------------------------------
(***************************************************************************)
(* The inductive invariant adds, to what the runs check, how the episode    *)
(* counter and the pulse counter stand to the observers: an episode counts  *)
(* exactly the stuck iterations without assist, a pulse has used up what    *)
(* is missing from recovery_cycles_left, and the two never overlap.         *)
(***************************************************************************)
EpisodeIsEarned == stuck_cycles <= rest

PulseUsesUp ==
  /\ recovery_cycles_left < RecoveryDuration
  /\ recovery_cycles_left > 0 => stuck_cycles = 0
  /\ StuckTimeout > 1 =>
       /\ recovery_cycles_left > 0 => pulse = RecoveryDuration - recovery_cycles_left
       /\ recovery_cycles_left = 0 => pulse <= RecoveryDuration
       /\ recovery_cycles_left = 0 /\ pulse > 0 => stuck_cycles = 0

IInv ==
  /\ EpisodeIsEarned
  /\ PulseUsesUp
  /\ MemoryIsWhatWasSent
  /\ AssistOnlyWhenStuck
  /\ acted # None => pp # None /\ cmd \in Commands
  /\ acted = None => pulse = 0

LEMMA InitCorrect == Init => TypeOK /\ IInv
<1> SUFFICES ASSUME Init PROVE TypeOK /\ IInv
  OBVIOUS
<1>1. ZeroControl \in Controls
  BY LimitsAssumption DEF ZeroControl, Controls
<1>2. TypeOK
  BY <1>1, TimingAssumption DEF Init, TypeOK, RunBound
<1>3. IInv
  BY TimingAssumption DEF Init, IInv, EpisodeIsEarned, PulseUsesUp, MemoryIsWhatWasSent,
                          AssistOnlyWhenStuck
<1>4. QED
  BY <1>2, <1>3

LEMMA StepCorrect ==
  ASSUME TypeOK, IInv, [Next]_vars
  PROVE  TypeOK' /\ IInv'
<1> USE TimingAssumption
<1> USE DEF EpisodeIsEarned, PulseUsesUp, MemoryIsWhatWasSent, AssistOnlyWhenStuck
\* The receiver thread touches nothing but the path.
<1>1. ASSUME NEW p \in Received, ReceivePath(p)
      PROVE  TypeOK' /\ IInv'
  <2>1. pp' = p /\ UNCHANGED <<memory, cmd, observers>>
    BY <1>1 DEF ReceivePath
  <2>2. p # None
    BY NoneReceivedAssumption
  <2>3. QED
    BY <2>1, <2>2 DEF TypeOK, IInv, memory, observers
<1>2. CASE WaitForPath
  <2>1. acted = None /\ pulse = 0
    BY <1>2 DEF WaitForPath, IInv
  <2>2. cmd' \in Commands
    BY <1>2, LimitsAssumption, InputsAssumption DEF WaitForPath, Commands
  <2>3. QED
    BY <1>2, <2>1, <2>2 DEF WaitForPath, TypeOK, IInv, memory
\* The four branches of an iteration with a path differ in what the stuck
\* check leaves; SolveOutcome does the rest.
<1>3. CASE NotStuck
  <2>1. /\ pp \in Received /\ pp # None /\ ~Stuck /\ stuck_cycles' = 0
        /\ SolveAndSend(last_control, warm_start, 0)
    BY <1>3 DEF NotStuck, TypeOK
  <2>2. ~Assisted(0)
    BY <2>1 DEF Assisted
  <2>3. /\ last_control' \in Controls /\ warm_start' \in {"empty", "plan"}
        /\ cmd' \in Commands
        /\ pp' = pp /\ acted' = pp /\ parity' = 1 - parity
        /\ recovery_cycles_left' = 0 /\ pulse' = 0 /\ rest' = 0
        /\ pp.path # "empty" => /\ last_control'.delta = cmd'.steer
                                /\ last_control'.accel = cmd'.accel - cmd'.brake
    BY <2>1, <2>2, SolveOutcome DEF TypeOK
  <2>4. QED
    BY <2>1, <2>3 DEF TypeOK, IInv, RunBound
<1>4. CASE CountStuck
  <2>1. /\ pp \in Received /\ pp # None /\ Stuck /\ stuck_cycles' = stuck_cycles + 1
        /\ stuck_cycles + 1 < StuckTimeout /\ recovery_cycles_left = 0
        /\ SolveAndSend(last_control, warm_start, 0)
    BY <1>4 DEF CountStuck, TypeOK
  <2>2. ~Assisted(0)
    BY DEF Assisted
  <2>3. /\ last_control' \in Controls /\ warm_start' \in {"empty", "plan"}
        /\ cmd' \in Commands
        /\ pp' = pp /\ acted' = pp /\ parity' = 1 - parity
        /\ recovery_cycles_left' = 0 /\ pulse' = 0 /\ rest' = Bump(rest)
        /\ pp.path # "empty" => /\ last_control'.delta = cmd'.steer
                                /\ last_control'.accel = cmd'.accel - cmd'.brake
    BY <2>1, <2>2, SolveOutcome DEF TypeOK
  <2>4. rest' \in 0..RunBound /\ stuck_cycles' <= rest' /\ stuck_cycles' \in 0..(StuckTimeout - 1)
    BY <2>1, <2>3 DEF TypeOK, IInv, Bump, RunBound
  <2>5. QED
    BY <2>1, <2>3, <2>4 DEF TypeOK, IInv, RunBound
<1>5. CASE StartRecovery
  <2>1. /\ pp \in Received /\ pp # None /\ Stuck /\ stuck_cycles' = 0
        /\ stuck_cycles + 1 >= StuckTimeout /\ recovery_cycles_left = 0
        /\ SolveAndSend(ZeroControl, "empty", RecoveryDuration)
    BY <1>5 DEF StartRecovery, TypeOK
  <2>2. Assisted(RecoveryDuration)
    BY <2>1 DEF Assisted
  <2>3. ZeroControl \in Controls /\ RecoveryDuration \in 0..RecoveryDuration
    BY LimitsAssumption DEF ZeroControl, Controls
  <2>4. /\ last_control' \in Controls /\ warm_start' \in {"empty", "plan"}
        /\ cmd' \in Commands
        /\ pp' = pp /\ acted' = pp /\ parity' = 1 - parity
        /\ recovery_cycles_left' = RecoveryDuration - 1 /\ pulse' = Bump(pulse) /\ rest' = 0
        /\ pp.path # "empty" => /\ last_control'.delta = cmd'.steer
                                /\ last_control'.accel = cmd'.accel - cmd'.brake
        /\ cmd'.accel >= LaunchAccel /\ cmd'.brake = 0
    BY <2>1, <2>2, <2>3, SolveOutcome
  <2>5. pulse' \in 0..RunBound /\ (StuckTimeout > 1 => pulse' = 1)
    BY <2>1, <2>4 DEF TypeOK, IInv, Bump, RunBound
  <2>6. pp.path = "drive" /\ pp.ego \in StoppedStates
    BY <2>1 DEF Stuck, ForwardIntent, EgoStopped
  <2>7. QED
    BY <2>1, <2>4, <2>5, <2>6 DEF TypeOK, IInv, RunBound
<1>6. CASE ContinueRecovery
  <2>1. /\ pp \in Received /\ pp # None /\ Stuck /\ stuck_cycles' = stuck_cycles
        /\ recovery_cycles_left > 0
        /\ SolveAndSend(last_control, warm_start, recovery_cycles_left)
    BY <1>6 DEF ContinueRecovery, TypeOK
  <2>2. Assisted(recovery_cycles_left)
    BY <2>1 DEF Assisted
  <2>3. /\ last_control' \in Controls /\ warm_start' \in {"empty", "plan"}
        /\ cmd' \in Commands
        /\ pp' = pp /\ acted' = pp /\ parity' = 1 - parity
        /\ recovery_cycles_left' = recovery_cycles_left - 1
        /\ pulse' = Bump(pulse) /\ rest' = 0
        /\ pp.path # "empty" => /\ last_control'.delta = cmd'.steer
                                /\ last_control'.accel = cmd'.accel - cmd'.brake
        /\ cmd'.accel >= LaunchAccel /\ cmd'.brake = 0
    BY <2>1, <2>2, SolveOutcome DEF TypeOK
  <2>4. /\ stuck_cycles' = 0
        /\ pulse' \in 0..RunBound
        /\ StuckTimeout > 1 => pulse' = RecoveryDuration - recovery_cycles_left'
    BY <2>1, <2>3 DEF TypeOK, IInv, Bump, RunBound
  <2>5. pp.path = "drive" /\ pp.ego \in StoppedStates
    BY <2>1 DEF Stuck, ForwardIntent, EgoStopped
  <2>6. QED
    BY <2>1, <2>3, <2>4, <2>5 DEF TypeOK, IInv, RunBound
<1>7. CASE UNCHANGED vars
  BY <1>7 DEF vars, memory, observers, TypeOK, IInv
<1>8. QED
  BY <1>1, <1>2, <1>3, <1>4, <1>5, <1>6, <1>7 DEF Next, Iterate

(***************************************************************************)
(* The state of the loop is well typed, and the inductive invariant holds.  *)
(***************************************************************************)
THEOREM Invariance == Spec => [](TypeOK /\ IInv)
<1>1. (TypeOK /\ IInv) /\ [Next]_vars => (TypeOK /\ IInv)'
  BY StepCorrect
<1>2. QED
  BY InitCorrect, <1>1, PTL DEF Spec

\* Counters, memory and output of the loop of mpc_node have their types.
THEOREM TypeCorrect == Spec => []TypeOK
BY Invariance, PTL

(***************************************************************************)
(* last_control is what the vehicle was sent, launch assist included.       *)
(***************************************************************************)
THEOREM MemoryMatchesCommand == Spec => []MemoryIsWhatWasSent
<1>1. IInv => MemoryIsWhatWasSent
  BY DEF IInv
<1>2. QED
  BY <1>1, Invariance, PTL

(***************************************************************************)
(* Launch assist reaches only a standing vehicle with a path ahead.         *)
(***************************************************************************)
THEOREM AssistNeedsIntent == Spec => []AssistOnlyWhenStuck
<1>1. IInv => AssistOnlyWhenStuck
  BY DEF IInv
<1>2. QED
  BY <1>1, Invariance, PTL

(***************************************************************************)
(* No pulse outlasts the recovery duration.                                 *)
(***************************************************************************)
THEOREM AssistLimitedInTime == Spec => []AssistIsBounded
<1>1. TypeOK /\ IInv => AssistIsBounded
  <2> SUFFICES ASSUME TypeOK, IInv, StuckTimeout > 1 PROVE pulse <= RecoveryDuration
    BY DEF AssistIsBounded
  <2>1. recovery_cycles_left \in 0..RecoveryDuration /\ RecoveryDuration \in Nat
    BY TimingAssumption DEF TypeOK
  <2>2. CASE recovery_cycles_left > 0
    BY <2>1, <2>2 DEF IInv, PulseUsesUp
  <2>3. CASE recovery_cycles_left = 0
    BY <2>3 DEF IInv, PulseUsesUp
  <2>4. QED
    BY <2>1, <2>2, <2>3
<1>2. QED
  BY <1>1, Invariance, PTL

(***************************************************************************)
(* A pulse of launch assist starts only after a full timeout of standing    *)
(* still in a row.                                                          *)
(***************************************************************************)
THEOREM AssistFollowsTimeout == Spec => AssistIsEarned
<1> DEFINE Earned == pulse = 0 /\ pulse' > 0 => rest >= StuckTimeout - 1
<1>1. TypeOK /\ IInv /\ [Next]_vars => [Earned]_vars
  <2> SUFFICES ASSUME TypeOK, IInv, Next, pulse = 0, pulse' > 0
               PROVE  rest >= StuckTimeout - 1
    BY DEF vars
  <2>1. stuck_cycles <= rest /\ rest \in Nat /\ stuck_cycles \in Nat
    BY DEF TypeOK, IInv, EpisodeIsEarned
  \* A pulse under way has already used some of the recovery.
  <2>2. ~ContinueRecovery \/ StuckTimeout = 1
    BY TimingAssumption DEF ContinueRecovery, TypeOK, IInv, PulseUsesUp
  <2>3. CASE StartRecovery
    BY <2>1, <2>3, TimingAssumption DEF StartRecovery
  <2>4. CASE NotStuck \/ CountStuck
    BY <2>4 DEF NotStuck, CountStuck, SolveAndSend
  <2>5. CASE WaitForPath \/ \E p \in Received : ReceivePath(p)
    BY <2>5 DEF WaitForPath, ReceivePath, observers
  <2>6. CASE StuckTimeout = 1
    BY <2>1, <2>6
  <2>7. QED
    BY <2>2, <2>3, <2>4, <2>5, <2>6 DEF Next, Iterate
<1>2. QED
  BY <1>1, Invariance, PTL DEF Spec, AssistIsEarned

(***************************************************************************)
(* Outside the start of a recovery the steering sent never moves by more    *)
(* than one rate step from one solved iteration to the next.                *)
(***************************************************************************)
THEOREM SteeringStaysInRate == Spec => SteeringIsRateLimited
<1> DEFINE InRate == Solved(acted) /\ Solved(acted') /\ ~StartRecovery
                       => WithinRate(cmd'.steer, cmd.steer)
<1>1. TypeOK /\ IInv /\ [Next]_vars => [InRate]_vars
  <2> SUFFICES ASSUME TypeOK, IInv, Next, Solved(acted), Solved(acted'), ~StartRecovery
               PROVE  WithinRate(cmd'.steer, cmd.steer)
    BY DEF vars
  <2>1. /\ last_control \in Controls /\ last_control.delta = cmd.steer
        /\ cmd.steer \in -SteerMax..SteerMax
    BY DEF TypeOK, IInv, MemoryIsWhatWasSent, Solved, Controls
  <2>2. ~WaitForPath
    <3>1. pp # None
      BY DEF Solved, IInv
    <3>2. QED
      BY <3>1 DEF WaitForPath
  <2>3. CASE \E p \in Received : ReceivePath(p)
    <3>1. cmd' = cmd
      BY <2>3 DEF ReceivePath
    <3>2. QED
      BY <2>1, <3>1, LimitsAssumption DEF WithinRate
  <2>4. CASE NotStuck \/ CountStuck \/ ContinueRecovery
    <3>1. PICK recovery \in 0..RecoveryDuration :
            pp \in Received /\ SolveAndSend(last_control, warm_start, recovery)
      BY <2>4, TimingAssumption DEF NotStuck, CountStuck, ContinueRecovery, TypeOK
    <3>2. acted' = pp /\ (pp.path # "empty" => WithinRate(cmd'.steer, last_control.delta))
      BY <2>1, <3>1, SolveOutcome DEF TypeOK
    <3>3. QED
      BY <2>1, <3>2 DEF Solved
  <2>5. QED
    BY <2>2, <2>3, <2>4 DEF Next, Iterate
<1>2. QED
  BY <1>1, Invariance, PTL DEF Spec, SteeringIsRateLimited
------------------------------------------------------------------------------
(***************************************************************************)
(* What makes StuckIsRelaunched true: the iterations that a vehicle has     *)
(* stood in a row, with a path ahead and without assist, are counted one by *)
(* one in stuck_cycles, whatever is left of an earlier recovery, so that    *)
(* the wait for launch assist is shorter than the timeout                   *)
(* (mpc_controller/src/main.cpp:126-151).                                   *)
(***************************************************************************)
RestIsCounted == rest = stuck_cycles
AssistComesInTime == rest < StuckTimeout

LEMMA RestIsCountedStep ==
  ASSUME TypeOK, IInv, RestIsCounted, [Next]_vars
  PROVE  RestIsCounted'
<1> USE TimingAssumption DEF RestIsCounted
<1>1. CASE NotStuck
  <2>1. stuck_cycles' = 0 /\ rest' = 0
    BY <1>1 DEF NotStuck, SolveAndSend
  <2>2. QED
    BY <2>1
<1>2. CASE CountStuck
  <2>1. stuck_cycles' = stuck_cycles + 1 /\ rest' = Bump(rest) /\ stuck_cycles + 1 < StuckTimeout
    BY <1>2 DEF CountStuck, SolveAndSend
  <2>2. QED
    BY <2>1 DEF TypeOK, Bump, RunBound
<1>3. CASE StartRecovery
  <2>1. stuck_cycles' = 0 /\ rest' = 0
    BY <1>3 DEF StartRecovery, SolveAndSend
  <2>2. QED
    BY <2>1
\* A pulse under way began with a counter at zero.
<1>4. CASE ContinueRecovery
  <2>1. stuck_cycles' = stuck_cycles /\ rest' = 0 /\ recovery_cycles_left > 0
    BY <1>4 DEF ContinueRecovery, SolveAndSend
  <2>2. stuck_cycles = 0
    BY <2>1 DEF IInv, PulseUsesUp
  <2>3. QED
    BY <2>1, <2>2
<1>5. CASE WaitForPath \/ (\E p \in Received : ReceivePath(p)) \/ UNCHANGED vars
  BY <1>5 DEF WaitForPath, ReceivePath, vars, memory, observers
<1>6. QED
  BY <1>1, <1>2, <1>3, <1>4, <1>5 DEF Next, Iterate

(***************************************************************************)
(* A vehicle that stays stuck gets launch assist before it has stood for    *)
(* the timeout, after the first pulse as before it.                         *)
(***************************************************************************)
THEOREM AssistIsInTime == Spec => []AssistComesInTime
<1>1. Init => RestIsCounted
  BY DEF Init, RestIsCounted
<1>2. TypeOK /\ IInv /\ RestIsCounted /\ [Next]_vars => RestIsCounted'
  BY RestIsCountedStep
<1>3. TypeOK /\ RestIsCounted => AssistComesInTime
  BY TimingAssumption DEF TypeOK, RestIsCounted, AssistComesInTime
<1>4. QED
  BY <1>1, <1>2, <1>3, Invariance, PTL DEF Spec
=============================================================================
