----------------------------- MODULE DriveLease ------------------------------
(***************************************************************************)
(* What the planner loop promises the MPC, without saying how.             *)
(*                                                                         *)
(* A path produced by Plan() is a lease: it may be followed when it is      *)
(* granted and then reused at most Budget times.  Every reuse is paid for,  *)
(* a verdict of collision revokes what is left, a gap in localization       *)
(* suspends the lease without renewing it, and nothing but a new grant      *)
(* puts allowance back.                                                    *)
(***************************************************************************)
EXTENDS Integers

CONSTANTS Budget, None

VARIABLES
  allowance,  \* reuses left of the path granted last
  order       \* what the MPC is told: "follow" that path, "stop", or None

leaseVars == <<allowance, order>>

LeaseInit == allowance = 0 /\ order = None

Grant == allowance' = Budget /\ order' = "follow"

Reuse ==
  /\ allowance > 0
  /\ allowance' = allowance - 1
  /\ order' = "follow"

\* A stop is ordered, or nothing yet; the allowance is not touched.
Suspend ==
  /\ \/ order' = "stop"
     \/ order = None /\ order' = None
  /\ UNCHANGED allowance

Revoke == allowance' = 0 /\ order' = "stop"

\* Whoever grants the lease starts afresh: nothing is ordered until the next one.
Forget == allowance' = 0 /\ order' = None

LeaseNext == Grant \/ Reuse \/ Suspend \/ Revoke \/ Forget

LeaseSpec == LeaseInit /\ [][LeaseNext]_leaseVars
==============================================================================
