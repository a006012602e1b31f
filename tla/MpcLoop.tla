------------------------------- MODULE MpcLoop -------------------------------
(***************************************************************************)
(* The 20 Hz loop of mpc_node (mpc_controller/src/main.cpp).                *)
(*                                                                         *)
(* The receiver thread overwrites the path the loop reads; the loop turns  *)
(* it into one CtrlCmd per iteration.  A datagram carries the path and the *)
(* ego snapshot it was planned from.  Its path is "drive" when the          *)
(* resampled reference shows forward intent (max_ref_speed and              *)
(* path_progress above their thresholds), "hold" or "stop" when it does     *)
(* not, "empty" when the receiver kept no sample of it.                     *)
(* The optimiser is any choice of controls that projectControls() lets      *)
(* through; what matters here is the memory around it.                      *)
(***************************************************************************)
EXTENDS ControlLimits

CONSTANTS
  VehicleStates,     \* ego snapshots
  StoppedStates,     \* those with |v| < stuck_ego_speed
  StuckTimeout,      \* stuck_timeout_cycles
  RecoveryDuration,  \* recovery_duration_cycles
  LaunchAccel,       \* stuck_launch_accel
  FailAccel,         \* max(accel_min, -1): input when the reference is empty
  StopBrake,         \* brake of makeStopCommand()
  RawControls,       \* first controls an optimiser step may propose
  None               \* nothing received, nothing sent

ReceivedKinds == {"drive", "hold", "stop", "empty"}
Received == [path : ReceivedKinds, ego : VehicleStates]

ASSUME TimingAssumption ==
  /\ StuckTimeout \in Nat \ {0}
  /\ RecoveryDuration \in Nat \ {0}
ASSUME InputsAssumption ==
  /\ StoppedStates \subseteq VehicleStates
  /\ RawControls \subseteq [delta : Int, accel : Int]
  /\ LaunchAccel \in 0..AccelMax
  /\ FailAccel \in AccelMin..0
  /\ StopBrake \in Nat
ASSUME NoneReceivedAssumption == None \notin Received

VARIABLES
  pp,                    \* path_ of the receiver, None before has_data_
  stuck_cycles,
  recovery_cycles_left,
  warm_start,            \* "empty", or "plan": the last optimal sequence
  last_control,
  cmd,                   \* the CtrlCmd sent last, None before the first
  (* Observers: they record what happened and guard nothing. *)
  acted,                 \* the datagram the last iteration acted on
  rest,                  \* stuck iterations in a row without launch assist
  pulse,                 \* iterations in a row with launch assist
  parity                 \* flips, so that no iteration looks like stuttering

memory == <<stuck_cycles, recovery_cycles_left, warm_start, last_control>>
observers == <<acted, rest, pulse, parity>>
vars == <<pp, memory, cmd, observers>>

Init ==
  /\ pp = None
  /\ stuck_cycles = 0
  /\ recovery_cycles_left = 0
  /\ warm_start = "empty"
  /\ last_control = ZeroControl
  /\ cmd = None
  /\ acted = None
  /\ rest = 0
  /\ pulse = 0
  /\ parity = 0

AtLeast(a, b) == IF a < b THEN b ELSE a

\* Counting of observers stops at the longest run a property looks at: RunBound.
RunBound == StuckTimeout + RecoveryDuration
Bump(n) == IF n < RunBound THEN n + 1 ELSE RunBound

ForwardIntent == pp.path = "drive"
EgoStopped == pp.ego \in StoppedStates
Stuck == ForwardIntent /\ EgoStopped

(***************************************************************************)
(* PlannedPathReceiver::parse_data, on the receiver thread.                 *)
(***************************************************************************)
ReceivePath(p) ==
  /\ pp' = p
  /\ UNCHANGED <<memory, cmd, observers>>

(***************************************************************************)
(* Output: positive input is throttle, negative input is brake.             *)
(***************************************************************************)
SendCtrlCmd(delta, accel_raw) ==
  cmd' = [steer |-> delta,
          accel |-> AtLeast(accel_raw, 0),
          brake |-> AtLeast(-accel_raw, 0)]

\* makeStopCommand() until a first path has arrived.
WaitForPath ==
  /\ pp = None
  /\ cmd' = [steer |-> 0, accel |-> 0, brake |-> StopBrake]
  /\ parity' = 1 - parity
  /\ UNCHANGED <<pp, memory, acted, rest, pulse>>

\* Seeded fault: the launch input is sent but last_control keeps the solver's.
SolveAndForget(prev, warm, recovery) ==
  LET assisted == recovery > 0 /\ Stuck
  IN
  /\ \/ /\ pp.path = "empty"
        /\ SendCtrlCmd(0, FailAccel)
        /\ last_control' = prev
        /\ warm_start' = warm
     \/ /\ pp.path # "empty"
        /\ \E raw \in RawControls :
             LET u == Project(raw, prev)
             IN /\ SendCtrlCmd(u.delta, IF assisted THEN AtLeast(u.accel, LaunchAccel)
                                        ELSE u.accel)
                /\ last_control' = u
        /\ warm_start' = "plan"
  /\ recovery_cycles_left' = IF assisted THEN recovery - 1 ELSE recovery
  /\ acted' = pp
  /\ pulse' = IF assisted THEN Bump(pulse) ELSE 0
  /\ rest' = IF Stuck /\ ~assisted THEN Bump(rest) ELSE 0
  /\ parity' = 1 - parity
  /\ UNCHANGED pp

(***************************************************************************)
(* solveMPC() and what follows it in the iteration, given the last_control, *)
(* warm_start and recovery_cycles_left the stuck check has left.            *)
(***************************************************************************)
SolveAndSend(prev, warm, recovery) ==
  LET assisted == recovery > 0 /\ Stuck
  IN
  /\ \/ /\ pp.path = "empty"
        /\ SendCtrlCmd(0, FailAccel)
        /\ last_control' = prev
        /\ warm_start' = warm
     \/ /\ pp.path # "empty"
        /\ \E raw \in RawControls :
             LET u == Project(raw, prev)
                 accel_raw == IF assisted THEN AtLeast(u.accel, LaunchAccel) ELSE u.accel
             IN /\ SendCtrlCmd(u.delta, accel_raw)
                /\ last_control' = [u EXCEPT !.accel = accel_raw]
        /\ warm_start' = "plan"
  /\ recovery_cycles_left' = IF assisted THEN recovery - 1 ELSE recovery
  /\ acted' = pp
  /\ pulse' = IF assisted THEN Bump(pulse) ELSE 0
  /\ rest' = IF Stuck /\ ~assisted THEN Bump(rest) ELSE 0
  /\ parity' = 1 - parity
  /\ UNCHANGED pp
------------------------------------------------------------------------------
(***************************************************************************)
(* Seeded faults in the stuck check.                                        *)
(***************************************************************************)
\* ...a moment of motion or a stop path does not restart the episode
NotStuckKeepsCount ==
  /\ pp # None
  /\ ~Stuck
  /\ stuck_cycles' = stuck_cycles
  /\ SolveAndSend(last_control, warm_start, 0)

\* ...the counter is not advanced
CountStuckStalls ==
  /\ pp # None
  /\ Stuck
  /\ recovery_cycles_left = 0
  /\ stuck_cycles + 1 < StuckTimeout
  /\ stuck_cycles' = stuck_cycles
  /\ SolveAndSend(last_control, warm_start, 0)

\* ...the counter is not cleared when recovery starts
StartRecoveryKeepsCount ==
  /\ pp # None
  /\ Stuck
  /\ recovery_cycles_left = 0
  /\ stuck_cycles + 1 >= StuckTimeout
  /\ stuck_cycles' = stuck_cycles
  /\ SolveAndSend(ZeroControl, "empty", RecoveryDuration)

\* ...it is even incremented
StartRecoveryCountsOn ==
  /\ pp # None
  /\ Stuck
  /\ recovery_cycles_left = 0
  /\ stuck_cycles + 1 >= StuckTimeout
  /\ stuck_cycles' = stuck_cycles + 1
  /\ SolveAndSend(ZeroControl, "empty", RecoveryDuration)
------------------------------------------------------------------------------
\* No intent to move, or moving: forget the stuck episode.
NotStuck ==
  /\ pp # None
  /\ ~Stuck
  /\ stuck_cycles' = 0
  /\ SolveAndSend(last_control, warm_start, 0)

\* Stuck, not long enough yet.
CountStuck ==
  /\ pp # None
  /\ Stuck
  /\ recovery_cycles_left = 0
  /\ stuck_cycles + 1 < StuckTimeout
  /\ stuck_cycles' = stuck_cycles + 1
  /\ SolveAndSend(last_control, warm_start, 0)

\* Stuck for the whole timeout: clear what holds the optimiser back.
StartRecovery ==
  /\ pp # None
  /\ Stuck
  /\ recovery_cycles_left = 0
  /\ stuck_cycles + 1 >= StuckTimeout
  /\ stuck_cycles' = 0
  /\ SolveAndSend(ZeroControl, "empty", RecoveryDuration)

\* Launch assist under way.
ContinueRecovery ==
  /\ pp # None
  /\ Stuck
  /\ recovery_cycles_left > 0
  /\ SolveAndSend(last_control, warm_start, recovery_cycles_left)
  /\ UNCHANGED stuck_cycles

Iterate == WaitForPath \/ NotStuck \/ CountStuck \/ StartRecovery \/ ContinueRecovery

Next ==
  \/ Iterate
  \/ \E p \in Received : ReceivePath(p)

Spec == Init /\ [][Next]_vars

\* The loop thread iterates for ever; nothing is assumed of the receiver.
FairSpec == Spec /\ WF_vars(Iterate)

------------------------------------------------------------------------------
Commands == [steer : -SteerMax..SteerMax, accel : 0..AccelMax, brake : Nat]

TypeOK ==
  /\ pp \in Received \cup {None}
  /\ stuck_cycles \in 0..(StuckTimeout - 1)
  /\ recovery_cycles_left \in 0..RecoveryDuration
  /\ warm_start \in {"empty", "plan"}
  /\ last_control \in Controls
  /\ cmd \in Commands \cup {None}
  /\ acted \in Received \cup {None}
  /\ rest \in 0..RunBound
  /\ pulse \in 0..RunBound
  /\ parity \in {0, 1}

(***************************************************************************)
(* The rate cost of the next optimisation starts from what the vehicle was  *)
(* really sent, launch assist included (main.cpp:184-190).                  *)
(***************************************************************************)
MemoryIsWhatWasSent ==
  acted # None /\ acted.path # "empty" =>
    /\ last_control.delta = cmd.steer
    /\ last_control.accel = cmd.accel - cmd.brake

(***************************************************************************)
(* Launch assist is given only on a path with forward intent to a vehicle   *)
(* that stands still, and then the command pulls away without braking       *)
(* (main.cpp:124-125, 184-190).                                             *)
(***************************************************************************)
AssistOnlyWhenStuck ==
  pulse > 0 =>
    /\ acted.path = "drive" /\ acted.ego \in StoppedStates
    /\ cmd.accel >= LaunchAccel /\ cmd.brake = 0

(***************************************************************************)
(* Launch assist is limited in time (main.cpp:186 "for a limited time"):    *)
(* never longer than the recovery duration without a break.  With a         *)
(* timeout of a single cycle the next pulse would follow at once.           *)
(***************************************************************************)
AssistIsBounded == StuckTimeout > 1 => pulse <= RecoveryDuration

(***************************************************************************)
(* Every pulse is earned by a full timeout of standing still in a row, also *)
(* the second one after a first, and after any interruption by a stop path  *)
(* or by a moment of motion (main.cpp:137-151).                             *)
(***************************************************************************)
AssistIsEarned ==
  [][pulse = 0 /\ pulse' > 0 => rest >= StuckTimeout - 1]_vars

(***************************************************************************)
(* A vehicle that stays stuck is pulled away again and again: the episode   *)
(* counter and the pulse counter cannot lock each other out.                *)
(***************************************************************************)
StuckIsRelaunched ==
  <>[](pp # None /\ Stuck) => []<>(pulse > 0)

(***************************************************************************)
(* Between two solved iterations the steering moves by at most one rate     *)
(* step, except when recovery starts.                                      *)
(***************************************************************************)
Solved(d) == d # None /\ d.path # "empty"
SteeringIsRateLimited ==
  [][Solved(acted) /\ Solved(acted') /\ ~StartRecovery
       => WithinRate(cmd'.steer, cmd.steer)]_vars
==============================================================================
