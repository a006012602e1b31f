------------------------------- MODULE Solver --------------------------------
(***************************************************************************)
(* solveMPC() (mpc_controller/src/solver/mpc_solver.cpp): projected         *)
(* gradient descent with a backtracking line search, from the shifted       *)
(* solution of the call before, for any cost and any gradient.              *)
(*                                                                         *)
(* A set of linearised models is named by the controls it was built around: *)
(* Cost(p, U, at) is the cost of the controls U of problem p predicted with *)
(* the models around `at'.  Step sizes are counted in units of 1 / Unit.    *)
(***************************************************************************)
EXTENDS ControlLimits

CONSTANTS
  Horizon, MaxIterations, LineSearchSteps,
  LrInit, LrMin, Unit,
  Eps,              \* convergence_eps, of the cost
  Problems,         \* records with, at least, prev: the control sent last
  WarmStarts,       \* solutions of the call before
  None,
  Cost(_, _, _), Gradient(_, _, _)

Steps == 1..Horizon
Sequences == [Steps -> Controls]
Proposals == [Steps -> [delta : Int, accel : Int]]

ASSUME SolverAssumption ==
  /\ Horizon \in Nat \ {0}
  /\ MaxIterations \in Nat /\ LineSearchSteps \in Nat \ {0}
  /\ LrInit \in Nat /\ LrMin \in Nat /\ Unit \in Nat \ {0}
  /\ Eps \in Nat
ASSUME ProblemsAssumption ==
  /\ \A p \in Problems : p.prev \in Controls
  /\ WarmStarts \subseteq Sequences
  /\ None \notin Sequences
VARIABLES
  pc,
  problem, warm_start,
  U, models, cost_cur, \* the best controls so far
  lr, iter,
  grad,                \* of the iteration
  U_new, alpha, ls,    \* the trial of the line search
  k,                   \* projectControls(): the next control
  (* Observer. *)
  first                \* cost of the projected warm start

vars == <<pc, problem, warm_start, U, models, cost_cur, lr, iter, grad, U_new, alpha, ls, k, first>>

\* The sequence of the call before, a step on; without one, the control sent
\* last for the whole horizon.
Shifted(warm, prev) ==
  [i \in Steps |-> IF warm = None THEN prev
                   ELSE IF i < Horizon THEN warm[i + 1] ELSE warm[Horizon]]

Init ==
  /\ problem \in Problems
  /\ warm_start \in WarmStarts \cup {None}
  /\ pc = "project"
  /\ U = None /\ models = None
  /\ cost_cur = 0 /\ first = 0
  /\ lr = LrInit /\ iter = 0
  /\ grad = [i \in Steps |-> ZeroControl]
  /\ U_new = Shifted(warm_start, problem.prev)
  /\ alpha = 0 /\ ls = 0
  /\ k = 1
------------------------------------------------------------------------------
\* Seeded fault: every control is held against the one sent last.
BeforeAll(V, i) == problem.prev

\* The control before step i of V.
Before(V, i) == IF i = 1 THEN problem.prev ELSE V[i - 1]

\* One round of projectControls().
ProjectNext ==
  /\ pc = "project" /\ k <= Horizon
  /\ U_new' = [U_new EXCEPT ![k] = Project(U_new[k], Before(U_new, k))]
  /\ k' = k + 1
  /\ UNCHANGED <<pc, problem, warm_start, U, models, cost_cur, lr, iter, grad, alpha, ls, first>>

Projected == pc = "project" /\ k = Horizon + 1

\* The warm start is linearised and evaluated.
Start ==
  /\ Projected /\ U = None
  /\ U' = U_new /\ models' = U_new
  /\ cost_cur' = Cost(problem, U_new, U_new)
  /\ first' = cost_cur'
  /\ pc' = "descend"
  /\ UNCHANGED <<problem, warm_start, lr, iter, grad, U_new, alpha, ls, k>>

\* Division that rounds towards zero.
Over(a, b) == IF a < 0 THEN -((-a) \div b) ELSE a \div b

\* A step of size a against gradient g (which is twice the derivative); later
\* controls move less.
Stepped(V, g, a) ==
  [i \in Steps |-> [delta |-> V[i].delta - Over(10 * a * g[i].delta, 2 * Unit * (9 + i)),
                    accel |-> V[i].accel - Over(10 * a * g[i].accel, 2 * Unit * (9 + i))]]

Try(a) ==
  /\ U_new' = Stepped(U, grad, a)
  /\ alpha' = a
  /\ k' = 1
  /\ pc' = "project"

Differentiate ==
  /\ pc = "descend" /\ iter < MaxIterations
  /\ grad' = Gradient(problem, U, models)
  /\ iter' = iter + 1
  /\ pc' = "search"
  /\ UNCHANGED <<problem, warm_start, U, models, cost_cur, lr, U_new, alpha, ls, k, first>>

Flat == grad = [i \in Steps |-> ZeroControl]

Search ==
  /\ pc = "search" /\ ~Flat
  /\ Try(lr)
  /\ ls' = 1
  /\ UNCHANGED <<problem, warm_start, U, models, cost_cur, lr, iter, grad, first>>

\* The iterations are used up, or there is nothing to gain.
Converge ==
  /\ \/ pc = "descend" /\ iter = MaxIterations
     \/ pc = "search" /\ Flat
  /\ pc' = "done"
  /\ UNCHANGED <<problem, warm_start, U, models, cost_cur, lr, iter, grad, U_new, alpha, ls, k, first>>

\* Seeded fault: Armijo's rule with the wrong sign.
BetterOrNearly == Cost(problem, U_new, U_new) < cost_cur + Eps

\* A trial is linearised around itself before its cost is taken.  What Armijo's
\* rule asks for beyond that, 1e-4 of what the gradient promises, is less than
\* the unit of the cost.
Better == Cost(problem, U_new, U_new) < cost_cur

Smaller(a, b) == IF a < b THEN a ELSE b

\* Seeded fault: the step grows without a limit.
AcceptAndGrow ==
  /\ Projected /\ U # None /\ Better
  /\ U' = U_new /\ models' = U_new
  /\ cost_cur' = Cost(problem, U_new, U_new)
  /\ lr' = (3 * alpha) \div 2
  /\ pc' = IF cost_cur - cost_cur' < Eps THEN "done" ELSE "descend"
  /\ UNCHANGED <<problem, warm_start, iter, grad, U_new, alpha, ls, k, first>>

Accept ==
  /\ Projected /\ U # None /\ Better
  /\ U' = U_new /\ models' = U_new
  /\ cost_cur' = Cost(problem, U_new, U_new)
  /\ lr' = Smaller(LrInit, (3 * alpha) \div 2)
  /\ pc' = IF cost_cur - cost_cur' < Eps THEN "done" ELSE "descend"
  /\ UNCHANGED <<problem, warm_start, iter, grad, U_new, alpha, ls, k, first>>

\* Seeded fault: trials are not counted.
BacktrackForever ==
  /\ Projected /\ U # None /\ ~Better
  /\ ls < LineSearchSteps
  /\ Try(alpha \div 2)
  /\ UNCHANGED <<problem, warm_start, U, models, cost_cur, lr, iter, grad, ls, first>>

\* Half the step, from the same controls.
Backtrack ==
  /\ Projected /\ U # None /\ ~Better
  /\ ls < LineSearchSteps
  /\ Try(alpha \div 2)
  /\ ls' = ls + 1
  /\ UNCHANGED <<problem, warm_start, U, models, cost_cur, lr, iter, grad, first>>

\* No step of the search was better: the next search begins with a smaller one.
Abandon ==
  /\ Projected /\ U # None /\ ~Better
  /\ ls = LineSearchSteps
  /\ lr' = lr \div 2
  /\ pc' = IF lr' < LrMin THEN "done" ELSE "descend"
  /\ UNCHANGED <<problem, warm_start, U, models, cost_cur, iter, grad, U_new, alpha, ls, k, first>>

\* The result is U; the caller has it.
Return == pc = "done" /\ UNCHANGED vars

Next ==
  \/ ProjectNext \/ Start
  \/ Differentiate \/ Search \/ Converge
  \/ Accept \/ Backtrack \/ Abandon
  \/ Return

Spec == Init /\ [][Next]_vars
------------------------------------------------------------------------------
SolverTypeOK ==
  /\ pc \in {"project", "descend", "search", "done"}
  /\ problem \in Problems /\ warm_start \in WarmStarts \cup {None}
  /\ U \in Sequences \cup {None} /\ models \in Sequences \cup {None}
  /\ U_new \in Proposals /\ grad \in Proposals
  /\ cost_cur \in Int /\ first \in Int
  /\ lr \in 0..LrInit /\ alpha \in 0..LrInit
  /\ iter \in 0..MaxIterations /\ ls \in 0..LineSearchSteps
  /\ k \in 1..Horizon + 1

(***************************************************************************)
(* Whatever the line search tries, gives up or grows, the controls it has   *)
(* at any time are never worse than the projected solution of the call      *)
(* before (mpc_solver.cpp:193-241).                                         *)
(***************************************************************************)
NeverWorse == U # None => cost_cur <= first

(***************************************************************************)
(* The controls are within the box, and each one is within a rate step of   *)
(* the one before it, the first one of what the vehicle was sent last       *)
(* (mpc_solver.cpp:10-22).                                                  *)
(***************************************************************************)
Follows(V) ==
  /\ V \in Sequences
  /\ WithinRate(V[1].delta, problem.prev.delta)
  /\ \A i \in Steps \ {1} : WithinRate(V[i].delta, V[i - 1].delta)
ResultIsFeasible == U # None => Follows(U)

\* The gradient is taken with the models around the controls it improves.
ModelsAreOfControls == U # None => models = U

(***************************************************************************)
(* A solve is over after a number of steps that is known beforehand: no     *)
(* pattern of accepted and rejected trials, of shrinking and growing steps, *)
(* renews it.  The loop of main.cpp has 50 ms for it.                       *)
(***************************************************************************)
RoundsPerTrial == Horizon + 2
StepsPerIteration == LineSearchSteps * RoundsPerTrial + 2

StepsLeft ==
  IF pc = "done" THEN 0
  ELSE (MaxIterations - iter) * StepsPerIteration + 1 +
       (IF pc = "search" THEN LineSearchSteps * RoundsPerTrial + 1
        ELSE IF pc = "project" THEN (LineSearchSteps - ls) * RoundsPerTrial + RoundsPerTrial - k
        ELSE 0)

SolveIsBounded == [][StepsLeft' < StepsLeft]_vars
==============================================================================
