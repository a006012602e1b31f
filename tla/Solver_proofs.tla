---------------------------- MODULE Solver_proofs ----------------------------
(***************************************************************************)
(* Theorems about solveMPC() for every horizon, every limit, every step     *)
(* size and every cost and gradient, whatever they say, as long as they are *)
(* numbers; then about the cost and the model it has in mpc_node.           *)
(***************************************************************************)
EXTENDS TrackingSolver, NatFacts, TLAPS

CostIsNumber ==
  \A p \in Problems, V \in Sequences :
    Cost(p, V, V) \in Int /\ Gradient(p, V, V) \in Proposals

USE LimitsAssumption

\* A proposal for a control, of any size.
Proposal == [delta : Int, accel : Int]

LEMMA ControlsAreProposals ==
  ASSUME NEW u \in Controls
  PROVE  u \in Proposal
BY DEF Controls, Proposal

LEMMA SequencesAreProposals ==
  ASSUME NEW V \in Sequences
  PROVE  V \in Proposals
<1>1. \A i \in Steps : V[i] \in Proposal
  BY ControlsAreProposals DEF Sequences
<1>2. QED
  BY <1>1 DEF Sequences, Proposals, Proposal

\* The projection puts a control into the box and within a rate step of the one
\* before it, which was in the box: the rate does not lead out of the box again.
LEMMA ProjectIsFeasible ==
  ASSUME NEW u \in Proposal, NEW prev \in Controls
  PROVE  /\ Project(u, prev) \in Controls
         /\ WithinRate(Project(u, prev).delta, prev.delta)
<1> DEFINE boxed == Clip(u.delta, -SteerMax, SteerMax)
           a == Clip(u.accel, AccelMin, AccelMax)
           d == prev.delta + Clip(boxed - prev.delta, -SteerStep, SteerStep)
<1>1. prev.delta \in -SteerMax..SteerMax /\ u.delta \in Int /\ u.accel \in Int
  BY DEF Controls, Proposal
<1>2. boxed \in -SteerMax..SteerMax /\ a \in AccelMin..AccelMax
  BY <1>1 DEF Clip
<1>3. Project(u, prev) = [delta |-> d, accel |-> a]
  BY DEF Project, ClipSteeringRate, ClipControl
<1> HIDE DEF boxed, a
<1>4. d \in -SteerMax..SteerMax /\ d - prev.delta <= SteerStep /\ prev.delta - d <= SteerStep
  BY <1>1, <1>2 DEF Clip
<1> HIDE DEF d
<1>5. QED
  BY <1>2, <1>3, <1>4 DEF Controls, WithinRate

LEMMA OverIsInt ==
  ASSUME NEW a \in Int, NEW b \in Nat \ {0}
  PROVE  Over(a, b) \in Int
BY DEF Over

LEMMA SteppedIsProposal ==
  ASSUME NEW V \in Proposals, NEW g \in Proposals, NEW a \in Nat
  PROVE  Stepped(V, g, a) \in Proposals
<1> SUFFICES ASSUME NEW i \in Steps
             PROVE  Stepped(V, g, a)[i] \in Proposal
  BY DEF Stepped, Proposals, Proposal
<1>1. /\ V[i].delta \in Int /\ V[i].accel \in Int
      /\ g[i].delta \in Int /\ g[i].accel \in Int
      /\ i \in Nat
  BY SolverAssumption DEF Proposals, Steps
<1> DEFINE num(x) == 10 * a * x
           den == 2 * Unit * (9 + i)
<1>2. den \in Nat \ {0}
  BY <1>1, SolverAssumption
<1>3. num(g[i].delta) \in Int /\ num(g[i].accel) \in Int
  BY <1>1
<1> HIDE DEF num, den
<1>4. Over(num(g[i].delta), den) \in Int /\ Over(num(g[i].accel), den) \in Int
  BY <1>2, <1>3, OverIsInt
<1>5. Stepped(V, g, a)[i] = [delta |-> V[i].delta - Over(num(g[i].delta), den),
                            accel |-> V[i].accel - Over(num(g[i].accel), den)]
  BY DEF Stepped, num, den
<1>6. QED
  BY <1>1, <1>4, <1>5 DEF Proposal

LEMMA ShiftedIsSequence ==
  ASSUME NEW warm \in WarmStarts \cup {None}, NEW p \in Problems
  PROVE  Shifted(warm, p.prev) \in Sequences
<1>1. p.prev \in Controls
  BY ProblemsAssumption
<1>2. CASE warm = None
  BY <1>1, <1>2 DEF Shifted, Sequences
<1>3. CASE warm # None
  <2>1. warm \in Sequences
    BY <1>3, ProblemsAssumption
  <2>2. \A i \in Steps : (IF i < Horizon THEN warm[i + 1] ELSE warm[Horizon]) \in Controls
    BY <2>1, SolverAssumption DEF Sequences, Steps
  <2>3. QED
    BY <1>3, <2>2 DEF Shifted, Sequences
<1>4. QED
  BY <1>2, <1>3

------------------------------------------------------------------------------
(***************************************************************************)
(* The inductive invariant.  While a proposal is being projected, what lies *)
(* before k is final: each control there is feasible after the one before   *)
(* it.  The models are always those of the controls, so every cost and      *)
(* every gradient that is asked for is one of CostIsNumber.                 *)
(***************************************************************************)
Feasible(V, i) == V[i] \in Controls /\ WithinRate(V[i].delta, Before(V, i).delta)
ProjectedSoFar == pc = "project" => \A i \in 1..k - 1 : Feasible(U_new, i)
HasControls == pc # "project" => U # None

SInv ==
  /\ SolverTypeOK
  /\ HasControls
  /\ ProjectedSoFar
  /\ ModelsAreOfControls
  /\ ResultIsFeasible
  /\ NeverWorse

LEMMA FollowsIffFeasible ==
  ASSUME NEW V \in Sequences, \A i \in Steps : Feasible(V, i)
  PROVE  Follows(V)
<1>1. 1 \in Steps
  BY SolverAssumption DEF Steps
<1>2. QED
  BY <1>1 DEF Follows, Feasible, Before, Steps

LEMMA SolverInit == Init => SInv
<1> SUFFICES ASSUME Init PROVE SInv
  OBVIOUS
<1>1. U_new \in Proposals
  BY ShiftedIsSequence, SequencesAreProposals DEF Init
<1>2. grad \in Proposals
  BY DEF Init, Proposals, ZeroControl
<1>3. k \in 1..Horizon + 1 /\ iter \in 0..MaxIterations /\ ls \in 0..LineSearchSteps
      /\ lr \in 0..LrInit /\ alpha \in 0..LrInit
  BY SolverAssumption DEF Init
<1>4. SolverTypeOK
  BY <1>1, <1>2, <1>3 DEF Init, SolverTypeOK
<1>5. QED
  BY <1>4 DEF Init, SInv, HasControls, ProjectedSoFar, ModelsAreOfControls,
              ResultIsFeasible, NeverWorse

\* One round of projectControls() makes one more control feasible.
LEMMA ProjectNextStep ==
  ASSUME SInv, ProjectNext
  PROVE  SInv'
<1> USE SolverAssumption DEF SInv
<1>1. k \in 1..Horizon /\ k \in Steps /\ U_new \in Proposals
  BY DEF ProjectNext, SolverTypeOK, Steps
<1>2. U_new[k] \in Proposal
  BY <1>1 DEF Proposals, Proposal
<1>3. Before(U_new, k) \in Controls
  <2>1. CASE k = 1
    BY <2>1, ProblemsAssumption DEF Before, SolverTypeOK
  <2>2. CASE k # 1
    <3>1. k - 1 \in 1..k - 1
      BY <1>1, <2>2
    <3>2. U_new[k - 1] \in Controls
      BY <3>1 DEF ProjectNext, ProjectedSoFar, Feasible
    <3>3. QED
      BY <2>2, <3>2 DEF Before
  <2>3. QED
    BY <2>1, <2>2
<1> DEFINE u == Project(U_new[k], Before(U_new, k))
<1>4. u \in Controls /\ WithinRate(u.delta, Before(U_new, k).delta)
  BY <1>2, <1>3, ProjectIsFeasible
<1>5. U_new' = [U_new EXCEPT ![k] = u] /\ k' = k + 1
      /\ UNCHANGED <<pc, problem, warm_start, U, models, cost_cur, lr, iter, grad, alpha, ls, first>>
  BY DEF ProjectNext
<1> HIDE DEF u
<1>6. U_new' \in Proposals
  BY <1>1, <1>4, <1>5, ControlsAreProposals DEF Proposals, Proposal
<1>7. SolverTypeOK'
  BY <1>1, <1>5, <1>6 DEF SolverTypeOK
<1>8. ProjectedSoFar'
  <2>0. k' - 1 = k
    BY <1>1, <1>5
  <2> SUFFICES ASSUME NEW i \in 1..k
               PROVE  Feasible(U_new, i)'
    BY <2>0 DEF ProjectedSoFar
  <2>1. /\ i \in Steps
        /\ U_new'[i] = IF i = k THEN u ELSE U_new[i]
        /\ i # 1 => U_new'[i - 1] = U_new[i - 1]
    BY <1>1, <1>5 DEF Proposals, Steps
  <2>2. Before(U_new, i)' = Before(U_new, i)
    BY <1>5, <2>1 DEF Before
  <2>3. CASE i = k
    BY <1>4, <2>1, <2>2, <2>3 DEF Feasible
  <2>4. CASE i # k
    <3>1. Feasible(U_new, i)
      BY <1>1, <2>4 DEF ProjectedSoFar, ProjectNext
    <3>2. QED
      BY <2>1, <2>2, <2>4, <3>1 DEF Feasible
  <2>5. QED
    BY <2>3, <2>4
<1>9. ModelsAreOfControls' /\ ResultIsFeasible' /\ NeverWorse' /\ HasControls'
  BY <1>5 DEF ModelsAreOfControls, ResultIsFeasible, NeverWorse, HasControls, Follows
<1>10. QED
  BY <1>7, <1>8, <1>9

\* When the round is over the whole sequence is.
LEMMA ProjectedIsFeasible ==
  ASSUME SInv, Projected
  PROVE  U_new \in Sequences /\ Follows(U_new)
<1>1. \A i \in Steps : Feasible(U_new, i)
  BY SolverAssumption DEF SInv, ProjectedSoFar, Projected, Steps
<1>2. U_new \in Sequences
  BY <1>1 DEF SInv, SolverTypeOK, Proposals, Sequences, Feasible
<1>3. QED
  BY <1>1, <1>2, FollowsIffFeasible

\* The trial that the search goes on with, whatever the step size.
LEMMA TryStep ==
  ASSUME SInv, U # None, NEW a \in 0..LrInit, Try(a),
         UNCHANGED <<problem, warm_start, U, models, cost_cur, iter, grad, first>>,
         lr' \in 0..LrInit, ls' \in 0..LineSearchSteps
  PROVE  SInv'
<1> USE SolverAssumption DEF SInv
<1>1. U_new' \in Proposals
  <2>1. U \in Proposals /\ grad \in Proposals /\ a \in Nat
    BY SequencesAreProposals DEF SolverTypeOK
  <2>2. QED
    BY <2>1, SteppedIsProposal DEF Try
<1>2. SolverTypeOK'
  BY <1>1 DEF SolverTypeOK, Try
<1>3. ProjectedSoFar' /\ HasControls'
  BY DEF Try, ProjectedSoFar, HasControls
<1>4. ModelsAreOfControls' /\ ResultIsFeasible' /\ NeverWorse'
  BY DEF ModelsAreOfControls, ResultIsFeasible, NeverWorse, Follows
<1>5. QED
  BY <1>2, <1>3, <1>4

LEMMA SolverStep ==
  ASSUME CostIsNumber, SInv, [Next]_vars
  PROVE  SInv'
<1> USE SolverAssumption
<1>1. CASE ProjectNext
  BY <1>1, ProjectNextStep
<1>2. Projected => /\ U_new \in Sequences /\ Follows(U_new)
                   /\ U_new # None
                   /\ Cost(problem, U_new, U_new) \in Int
  BY ProjectedIsFeasible, ProblemsAssumption DEF CostIsNumber, SInv, SolverTypeOK
<1>3. CASE Start
  <2>1. /\ U' = U_new /\ models' = U_new /\ pc' = "descend"
        /\ cost_cur' = Cost(problem, U_new, U_new) /\ first' = cost_cur'
        /\ UNCHANGED <<problem, warm_start, lr, iter, grad, U_new, alpha, ls, k>>
    BY <1>3 DEF Start
  <2>2. Projected
    BY <1>3 DEF Start
  <2>3. SolverTypeOK'
    BY <1>2, <2>1, <2>2 DEF SInv, SolverTypeOK
  <2>4. HasControls' /\ ProjectedSoFar' /\ ModelsAreOfControls'
    BY <1>2, <2>1, <2>2 DEF HasControls, ProjectedSoFar, ModelsAreOfControls
  <2>5. ResultIsFeasible'
    BY <1>2, <2>1, <2>2 DEF ResultIsFeasible, Follows
  <2>6. NeverWorse'
    BY <1>2, <2>1, <2>2 DEF NeverWorse
  <2>7. QED
    BY <2>3, <2>4, <2>5, <2>6 DEF SInv
<1>4. CASE Differentiate
  <2>1. /\ grad' = Gradient(problem, U, models) /\ iter' = iter + 1 /\ pc' = "search"
        /\ iter < MaxIterations /\ pc = "descend"
        /\ UNCHANGED <<problem, warm_start, U, models, cost_cur, lr, U_new, alpha, ls, k, first>>
    BY <1>4 DEF Differentiate
  <2>2. U \in Sequences /\ models = U /\ problem \in Problems
    BY <2>1 DEF SInv, SolverTypeOK, HasControls, ModelsAreOfControls
  <2>3. grad' \in Proposals
    BY <2>1, <2>2 DEF CostIsNumber
  <2>4. SolverTypeOK'
    BY <2>1, <2>3 DEF SInv, SolverTypeOK
  <2>5. QED
    BY <2>1, <2>4 DEF SInv, HasControls, ProjectedSoFar, ModelsAreOfControls,
                      ResultIsFeasible, Follows, NeverWorse
<1>5. CASE Search
  <2>1. U # None /\ Try(lr) /\ ls' = 1 /\ lr \in 0..LrInit
        /\ UNCHANGED <<problem, warm_start, U, models, cost_cur, lr, iter, grad, first>>
    BY <1>5 DEF Search, SInv, HasControls, SolverTypeOK
  <2>2. ls' \in 0..LineSearchSteps
    BY <2>1
  <2>3. QED
    BY <2>1, <2>2, TryStep
<1>6. CASE Accept
  <2>1. /\ U' = U_new /\ models' = U_new
        /\ cost_cur' = Cost(problem, U_new, U_new)
        /\ Cost(problem, U_new, U_new) < cost_cur
        /\ lr' = Smaller(LrInit, (3 * alpha) \div 2)
        /\ pc' \in {"done", "descend"}
        /\ UNCHANGED <<problem, warm_start, iter, grad, U_new, alpha, ls, k, first>>
        /\ U # None /\ Projected
    BY <1>6 DEF Accept, Better
  <2>2. lr' \in 0..LrInit
    <3>1. alpha \in Nat
      BY DEF SInv, SolverTypeOK
    <3>2. (3 * alpha) \div 2 \in Nat
      BY <3>1
    <3> DEFINE grown == (3 * alpha) \div 2
    <3>3. lr' = IF LrInit < grown THEN LrInit ELSE grown
      BY <2>1 DEF Smaller
    <3> HIDE DEF grown
    <3>4. QED
      BY <3>2, <3>3 DEF grown
  <2>3. SolverTypeOK'
    BY <1>2, <2>1, <2>2 DEF SInv, SolverTypeOK
  <2>4. HasControls' /\ ProjectedSoFar' /\ ModelsAreOfControls'
    BY <1>2, <2>1 DEF HasControls, ProjectedSoFar, ModelsAreOfControls
  <2>5. ResultIsFeasible'
    BY <1>2, <2>1 DEF ResultIsFeasible, Follows
  <2>6. NeverWorse'
    <3>1. cost_cur \in Int /\ first \in Int /\ cost_cur <= first
      BY <2>1 DEF SInv, SolverTypeOK, NeverWorse
    <3>2. QED
      BY <1>2, <2>1, <3>1 DEF NeverWorse
  <2>7. QED
    BY <2>3, <2>4, <2>5, <2>6 DEF SInv
<1>7. CASE Backtrack
  <2>1. alpha \in 0..LrInit /\ ls \in 0..LineSearchSteps /\ lr \in 0..LrInit
    BY DEF SInv, SolverTypeOK
  <2>2. alpha \div 2 \in 0..LrInit
    BY <2>1
  <2>3. U # None /\ Try(alpha \div 2) /\ ls' = ls + 1 /\ ls < LineSearchSteps
        /\ UNCHANGED <<problem, warm_start, U, models, cost_cur, lr, iter, grad, first>>
    BY <1>7 DEF Backtrack
  <2>4. ls' \in 0..LineSearchSteps /\ lr' \in 0..LrInit
    BY <2>1, <2>3
  <2>5. QED
    BY <2>2, <2>3, <2>4, TryStep
<1>8. CASE Abandon
  <2>1. lr' \in 0..LrInit
    <3>1. lr \in 0..LrInit
      BY DEF SInv, SolverTypeOK
    <3>2. QED
      BY <1>8, <3>1 DEF Abandon
  <2>2. pc' \in {"done", "descend"} /\ U # None
        /\ UNCHANGED <<problem, warm_start, U, models, cost_cur, iter, grad, U_new, alpha, ls, k, first>>
    BY <1>8 DEF Abandon
  <2>3. SolverTypeOK'
    BY <2>1, <2>2 DEF SInv, SolverTypeOK
  <2>4. QED
    BY <2>2, <2>3 DEF SInv, HasControls, ProjectedSoFar, ModelsAreOfControls,
                      ResultIsFeasible, Follows, NeverWorse
<1>9. CASE Converge
  <2>1. pc' = "done" /\ pc # "project"
        /\ UNCHANGED <<problem, warm_start, U, models, cost_cur, lr, iter, grad, U_new, alpha, ls, k, first>>
    BY <1>9 DEF Converge
  <2>2. SolverTypeOK'
    BY <2>1 DEF SInv, SolverTypeOK
  <2>3. QED
    BY <2>1, <2>2 DEF SInv, HasControls, ProjectedSoFar, ModelsAreOfControls,
                      ResultIsFeasible, Follows, NeverWorse
<1>10. CASE UNCHANGED vars
  <2>1. SolverTypeOK'
    BY <1>10 DEF vars, SInv, SolverTypeOK
  <2>2. ProjectedSoFar' /\ ResultIsFeasible'
    BY <1>10 DEF vars, SInv, ProjectedSoFar, Feasible, Before, ResultIsFeasible, Follows
  <2>3. QED
    BY <1>10, <2>1, <2>2 DEF vars, SInv, HasControls, ModelsAreOfControls, NeverWorse
<1>11. QED
  BY <1>1, <1>3, <1>4, <1>5, <1>6, <1>7, <1>8, <1>9, <1>10 DEF Next, Return

LEMMA SolverInvariance ==
  ASSUME CostIsNumber
  PROVE  Spec => []SInv
<1>1. SInv /\ [Next]_vars => SInv'
  BY SolverStep
<1>2. QED
  BY SolverInit, <1>1, PTL DEF Spec

(***************************************************************************)
(* Step sizes, counters and proposals stay within their types: in           *)
(* particular a step never grows beyond lr_init.                            *)
(***************************************************************************)
THEOREM SolverTypeCorrect ==
  ASSUME CostIsNumber
  PROVE  Spec => []SolverTypeOK
<1>1. SInv => SolverTypeOK
  BY DEF SInv
<1>2. QED
  BY <1>1, SolverInvariance, PTL

(***************************************************************************)
(* Whatever the cost function says, what the solver has is never worse than *)
(* the warm start it was given.                                             *)
(***************************************************************************)
THEOREM SolverNeverWorse ==
  ASSUME CostIsNumber
  PROVE  Spec => []NeverWorse
<1>1. SInv => NeverWorse
  BY DEF SInv
<1>2. QED
  BY <1>1, SolverInvariance, PTL

(***************************************************************************)
(* Whatever the gradient says, the controls keep the box and the rate.      *)
(***************************************************************************)
THEOREM SolverKeepsLimits ==
  ASSUME CostIsNumber
  PROVE  Spec => []ResultIsFeasible
<1>1. SInv => ResultIsFeasible
  BY DEF SInv
<1>2. QED
  BY <1>1, SolverInvariance, PTL

------------------------------------------------------------------------------
(***************************************************************************)
(* The bound on a solve.                                                    *)
(***************************************************************************)
LEMMA MeasureStep ==
  ASSUME SInv, Next, vars' # vars, pc' \in {"project", "descend", "search", "done"}
  PROVE  StepsLeft' < StepsLeft
<1> USE SolverAssumption
<1> DEFINE R == RoundsPerTrial
           L == LineSearchSteps
           full == L * R
           rest(i) == (MaxIterations - i) * StepsPerIteration
           trial(l, n) == (L - l) * R + R - n
<1>1. /\ iter \in 0..MaxIterations /\ ls \in 0..L /\ k \in 1..Horizon + 1
      /\ R = Horizon + 2 /\ R \in Nat /\ full \in Nat
      /\ StepsPerIteration = full + 2
      /\ pc \in {"project", "descend", "search", "done"}
  BY DEF SInv, SolverTypeOK, RoundsPerTrial, StepsPerIteration
<1>2. \A i \in 0..MaxIterations : rest(i) \in Nat
  <2> SUFFICES ASSUME NEW i \in 0..MaxIterations PROVE rest(i) \in Nat
    OBVIOUS
  <2>1. MaxIterations - i \in Nat /\ StepsPerIteration \in Nat
    BY <1>1
  <2>2. QED
    BY <2>1
<1>3. \A i \in 0..MaxIterations : i < MaxIterations => rest(i) = rest(i + 1) + full + 2
  <2> SUFFICES ASSUME NEW i \in 0..MaxIterations, i < MaxIterations
               PROVE  rest(i) = rest(i + 1) + StepsPerIteration
    BY <1>1
  <2>1. MaxIterations - i = (MaxIterations - (i + 1)) + 1 /\ StepsPerIteration \in Nat
    BY <1>1
  <2>2. QED
    BY <2>1
<1>4. \A l \in 0..L : \A n \in 1..Horizon + 1 :
        trial(l, n) \in Nat /\ trial(l, n) >= 1
  <2> SUFFICES ASSUME NEW l \in 0..L, NEW n \in 1..Horizon + 1
               PROVE  trial(l, n) \in Nat /\ trial(l, n) >= 1
    OBVIOUS
  <2>1. (L - l) * R \in Nat
    BY <1>1
  <2>2. QED
    BY <1>1, <2>1
<1>5. \A l \in 0..L : l < L => trial(l, Horizon + 1) = trial(l + 1, 1) + 2
  <2> SUFFICES ASSUME NEW l \in 0..L, l < L
               PROVE  trial(l, Horizon + 1) = trial(l + 1, 1) + 2
    OBVIOUS
  <2>1. (L - l) * R = (L - (l + 1)) * R + R
    <3>1. L - l = (L - (l + 1)) + 1 /\ L - (l + 1) \in Int /\ R \in Int
      BY <1>1
    <3>2. QED
      BY <3>1
  <2>2. (L - (l + 1)) * R \in Int
    BY <1>1
  <2>3. QED
    BY <1>1, <2>1, <2>2
<1>6. trial(1, 1) + 1 = full
  <2>1. (L - 1) * R + R = L * R /\ (L - 1) * R \in Int
    BY <1>1
  <2>2. QED
    BY <1>1, <2>1
<1>61. \A l \in 0..L : \A n \in 1..Horizon : trial(l, n + 1) = trial(l, n) - 1
  <2> SUFFICES ASSUME NEW l \in 0..L, NEW n \in 1..Horizon
               PROVE  trial(l, n + 1) = trial(l, n) - 1
    OBVIOUS
  <2>1. (L - l) * R \in Int
    BY <1>1
  <2>2. QED
    BY <1>1, <2>1
<1>7. StepsLeft = IF pc = "done" THEN 0
                  ELSE rest(iter) + 1 + (IF pc = "search" THEN full + 1
                                         ELSE IF pc = "project" THEN trial(ls, k) ELSE 0)
  BY DEF StepsLeft
<1>8. StepsLeft' = IF pc' = "done" THEN 0
                   ELSE rest(iter') + 1 + (IF pc' = "search" THEN full + 1
                                           ELSE IF pc' = "project" THEN trial(ls', k') ELSE 0)
  BY DEF StepsLeft, RoundsPerTrial, StepsPerIteration
<1> HIDE DEF R, full, rest, trial
<1>9. rest(iter) \in Nat /\ trial(ls, k) \in Nat /\ trial(ls, k) >= 1
  BY <1>1, <1>2, <1>4
\* One more control of the trial.
<1>10. CASE ProjectNext
  <2>1. pc = "project" /\ pc' = "project" /\ iter' = iter /\ ls' = ls
        /\ k' = k + 1 /\ k \in 1..Horizon
    BY <1>1, <1>10 DEF ProjectNext
  <2>2. trial(ls', k') = trial(ls, k) - 1
    BY <1>1, <1>61, <2>1
  <2>3. QED
    BY <1>7, <1>8, <1>9, <2>1, <2>2
\* The trial is over, and with it the search or the solve.
<1>11. CASE Start \/ Accept \/ Abandon
  <2>1. pc = "project" /\ pc' \in {"descend", "done"} /\ iter' = iter
    BY <1>11 DEF Start, Accept, Abandon, Projected
  <2>2. QED
    BY <1>7, <1>8, <1>9, <2>1
<1>12. CASE Differentiate
  <2>1. pc = "descend" /\ pc' = "search" /\ iter' = iter + 1 /\ iter < MaxIterations
    BY <1>12 DEF Differentiate
  <2>2. rest(iter) = rest(iter') + full + 2 /\ rest(iter') \in Nat
    BY <1>1, <1>2, <1>3, <2>1
  <2>3. QED
    BY <1>1, <1>7, <1>8, <2>1, <2>2
<1>13. CASE Search
  <2>1. pc = "search" /\ pc' = "project" /\ iter' = iter /\ ls' = 1 /\ k' = 1
    BY <1>13 DEF Search, Try
  <2>2. trial(ls', k') + 1 = full /\ trial(ls', k') \in Nat
    BY <1>1, <1>4, <1>6, <2>1
  <2>3. QED
    BY <1>7, <1>8, <1>9, <2>1, <2>2
<1>14. CASE Backtrack
  <2>1. pc = "project" /\ pc' = "project" /\ iter' = iter /\ ls' = ls + 1 /\ k' = 1
        /\ ls < L /\ k = Horizon + 1
    BY <1>14 DEF Backtrack, Try, Projected
  <2>2. trial(ls, k) = trial(ls', k') + 2 /\ trial(ls', k') \in Int
    BY <1>1, <1>4, <1>5, <2>1
  <2>3. QED
    BY <1>7, <1>8, <1>9, <2>1, <2>2
<1>15. CASE Converge
  <2>1. pc # "done" /\ pc' = "done"
    BY <1>15 DEF Converge
  <2>2. StepsLeft >= 1
    <3>1. CASE pc = "search"
      <4>1. StepsLeft = rest(iter) + 1 + (full + 1)
        BY <1>7, <3>1
      <4>2. QED
        BY <1>1, <1>9, <4>1
    <3>2. CASE pc = "project"
      <4>1. StepsLeft = rest(iter) + 1 + trial(ls, k)
        BY <1>7, <3>2
      <4>2. QED
        BY <1>1, <1>9, <4>1
    <3>3. CASE pc = "descend"
      <4>1. StepsLeft = rest(iter) + 1 + 0
        BY <1>7, <3>3
      <4>2. QED
        BY <1>1, <1>9, <4>1
    <3>4. QED
      BY <1>1, <2>1, <3>1, <3>2, <3>3
  <2>3. StepsLeft' = 0
    BY <1>8, <2>1
  <2>4. QED
    BY <1>1, <1>7, <1>9, <2>1, <2>2, <2>3
<1>16. QED
  BY <1>10, <1>11, <1>12, <1>13, <1>14, <1>15 DEF Next, Return

(***************************************************************************)
(* A solve is bounded: each of its steps takes one off a number that the    *)
(* iterations, the line search and the horizon fix at the start.            *)
(***************************************************************************)
THEOREM SolverIsBounded ==
  ASSUME CostIsNumber
  PROVE  Spec => SolveIsBounded
<1>1. SInv /\ SInv' /\ [Next]_vars => [StepsLeft' < StepsLeft]_vars
  <2> SUFFICES ASSUME SInv, SInv', [Next]_vars, vars' # vars
               PROVE  StepsLeft' < StepsLeft
    OBVIOUS
  <2>1. pc' \in {"project", "descend", "search", "done"}
    BY DEF SInv, SolverTypeOK
  <2>2. QED
    BY <2>1, MeasureStep
<1>2. QED
  BY <1>1, SolverInvariance, PTL DEF Spec, SolveIsBounded

------------------------------------------------------------------------------
(***************************************************************************)
(* The solver with the model and the cost it has in mpc_node.               *)
(***************************************************************************)
HIDE LimitsAssumption

CostIsTracking ==
  \A p \in Problems, V \in Sequences :
    /\ Cost(p, V, V) = EvalCost(p, V, V)
    /\ Gradient(p, V, V) = CentralDifferences(p, V, V)

LEMMA ProductIsInt ==
  ASSUME NEW a \in Int, NEW b \in Int
  PROVE  a * b \in Int
OBVIOUS

LEMMA UpdateIsState ==
  ASSUME NEW st \in States, NEW u \in Proposal
  PROVE  Update(st, u) \in States
<1>1. st.x \in Int /\ st.y \in Int /\ st.yaw \in Int /\ st.v \in Int
      /\ u.delta \in Int /\ u.accel \in Int
  BY DEF States, Proposal
<1>2. st.v * st.yaw \in Int /\ st.v * u.delta \in Int
  BY <1>1, ProductIsInt
<1>3. Bounded(st.v + u.accel, VelMin, VelMax) \in Int
  BY <1>1, TrackingAssumption DEF Bounded
<1>4. QED
  BY <1>1, <1>2, <1>3 DEF Update, States

\* One step of predictTrajectoryLTV().
LinearUpdate(bar, ubar, st, u) ==
  [Linear(bar, ubar, st, u) EXCEPT !.v = Bounded(@, 0, LinearVelMax)]

LEMMA LinearUpdateIsState ==
  ASSUME NEW bar \in States, NEW ubar \in Proposal, NEW st \in States, NEW u \in Proposal
  PROVE  LinearUpdate(bar, ubar, st, u) \in States
<1>1. st.x \in Int /\ st.y \in Int /\ st.yaw \in Int /\ st.v \in Int
      /\ bar.x \in Int /\ bar.y \in Int /\ bar.yaw \in Int /\ bar.v \in Int
      /\ u.delta \in Int /\ u.accel \in Int /\ ubar.delta \in Int /\ ubar.accel \in Int
  BY DEF States, Proposal
<1>2. /\ bar.v * bar.yaw \in Int /\ bar.v * (st.yaw - bar.yaw) \in Int
      /\ bar.yaw * (st.v - bar.v) \in Int
      /\ bar.v * ubar.delta \in Int /\ ubar.delta * (st.v - bar.v) \in Int
      /\ bar.v * (u.delta - ubar.delta) \in Int
  BY <1>1, ProductIsInt
<1>3. Bounded(st.v + u.accel, 0, LinearVelMax) \in Int
  BY <1>1, TrackingAssumption DEF Bounded
<1>4. QED
  BY <1>1, <1>2, <1>3 DEF Linear, LinearUpdate, States

LEMMA TrajectoriesAlike ==
  ASSUME NEW f, NEW g, f[0] = g[0],
         \A n \in 1..Horizon : f[n - 1] = g[n - 1] => f[n] = g[n]
  PROVE  \A n \in 0..Horizon : f[n] = g[n]
<1>1. Horizon \in Nat
  BY SolverAssumption
<1>2. QED
  BY <1>1, StepsAlike

(***************************************************************************)
(* predictTrajectory() is what its recursion says: a state for every step.  *)
(***************************************************************************)
LEMMA PredictRecurs ==
  ASSUME NEW x0 \in States, NEW V \in Proposals
  PROVE  /\ Predict(x0, V) \in [0..Horizon -> States]
         /\ Predict(x0, V)[0] = x0
         /\ \A n \in 1..Horizon : Predict(x0, V)[n] = Update(Predict(x0, V)[n - 1], V[n])
<1> DEFINE Recursion(f) == f = [n \in 0..Horizon |->
                                 IF n = 0 THEN x0 ELSE Update(f[n - 1], V[n])]
<1>0. Horizon \in Nat
  BY SolverAssumption
<1>1. PICK F \in [1..Horizon -> [States -> States]] :
        \A n \in 1..Horizon : \A st \in States : F[n][st] = Update(st, V[n])
  <2> DEFINE G == [n \in 1..Horizon |-> [st \in States |-> Update(st, V[n])]]
  <2>1. \A n \in 1..Horizon : V[n] \in Proposal
    BY DEF Proposals, Proposal, Steps
  <2>2. G \in [1..Horizon -> [States -> States]]
    BY <2>1, UpdateIsState
  <2>3. QED
    BY <2>2
<1>2. PICK f \in [0..Horizon -> States] :
        f[0] = x0 /\ \A n \in 1..Horizon : f[n] = F[n][f[n - 1]]
  <2>1. \E f \in [0..Horizon -> States] : Recurs(f, x0, Horizon, F)
    BY <1>0, RecursionHasSolution
  <2>2. QED
    BY <2>1 DEF Recurs
<1>3. \A n \in 1..Horizon : f[n - 1] \in States
  BY <1>0
<1>4. \A n \in 1..Horizon : f[n] = Update(f[n - 1], V[n])
  BY <1>1, <1>2, <1>3
<1>5. Recursion(f)
  BY <1>0, <1>2, <1>4
<1>6. Predict(x0, V) = CHOOSE g : Recursion(g)
  BY DEF Predict
<1>7. Recursion(Predict(x0, V))
  <2> HIDE DEF Recursion
  <2> QED
    BY <1>5, <1>6, Zenon
<1>8. PICK g : g = Predict(x0, V)
  OBVIOUS
<1>9. g = [n \in 0..Horizon |-> IF n = 0 THEN x0 ELSE Update(g[n - 1], V[n])]
  BY <1>7, <1>8
<1>10. g[0] = x0 /\ \A n \in 1..Horizon : g[n] = Update(g[n - 1], V[n])
  BY <1>0, <1>9
<1>11. \A n \in 0..Horizon : g[n] = f[n]
  <2>1. \A n \in 1..Horizon : g[n - 1] = f[n - 1] => g[n] = f[n]
    BY <1>4, <1>10
  <2>2. g[0] = f[0]
    BY <1>2, <1>10
  <2>3. QED
    BY <2>1, <2>2, TrajectoriesAlike
<1>12. \A n \in 0..Horizon : g[n] \in States
  BY <1>11
<1>13. g = [n \in 0..Horizon |-> g[n]]
  BY <1>9
<1>14. QED
  BY <1>8, <1>10, <1>12, <1>13

(***************************************************************************)
(* predictTrajectoryLTV() is what its recursion says.                       *)
(***************************************************************************)
LEMMA PredictLTVRecurs ==
  ASSUME NEW x0 \in States, NEW V \in Proposals, NEW at \in Proposals
  PROVE  /\ PredictLTV(x0, V, at) \in [0..Horizon -> States]
         /\ PredictLTV(x0, V, at)[0] = x0
         /\ \A n \in 1..Horizon :
              PredictLTV(x0, V, at)[n]
                = LinearUpdate(Predict(x0, at)[n - 1], at[n], PredictLTV(x0, V, at)[n - 1], V[n])
<1>0. Horizon \in Nat
  BY SolverAssumption
<1>1. PICK bar \in [0..Horizon -> States] : bar = Predict(x0, at)
  BY PredictRecurs
<1> DEFINE Step(n, st) == LinearUpdate(bar[n - 1], at[n], st, V[n])
           Recursion(f) == f = [n \in 0..Horizon |->
                                 IF n = 0 THEN x0 ELSE Step(n, f[n - 1])]
<1>2. \A n \in 1..Horizon : \A st \in States : Step(n, st) \in States
  <2>1. \A n \in 1..Horizon : V[n] \in Proposal /\ at[n] \in Proposal
    BY DEF Proposals, Proposal, Steps
  <2>2. \A n \in 1..Horizon : bar[n - 1] \in States
    BY <1>0
  <2>3. QED
    BY <2>1, <2>2, LinearUpdateIsState
<1>3. PICK F \in [1..Horizon -> [States -> States]] :
        \A n \in 1..Horizon : \A st \in States : F[n][st] = Step(n, st)
  <2> HIDE DEF Step
  <2> DEFINE G == [n \in 1..Horizon |-> [st \in States |-> Step(n, st)]]
  <2>1. G \in [1..Horizon -> [States -> States]]
    BY <1>2
  <2>2. QED
    BY <2>1
<1>4. PICK f \in [0..Horizon -> States] :
        f[0] = x0 /\ \A n \in 1..Horizon : f[n] = F[n][f[n - 1]]
  <2>1. \E f \in [0..Horizon -> States] : Recurs(f, x0, Horizon, F)
    BY <1>0, RecursionHasSolution
  <2>2. QED
    BY <2>1 DEF Recurs
<1>5. PredictLTV(x0, V, at) = CHOOSE g : Recursion(g)
  BY <1>1 DEF PredictLTV, LinearUpdate
<1> HIDE DEF Step
<1>6. \A n \in 1..Horizon : f[n] = Step(n, f[n - 1])
  <2>1. \A n \in 1..Horizon : f[n - 1] \in States
    BY <1>0
  <2>2. QED
    BY <1>3, <1>4, <2>1
<1>7. Recursion(f)
  BY <1>0, <1>4, <1>6
<1>8. Recursion(PredictLTV(x0, V, at))
  <2> HIDE DEF Recursion
  <2> QED
    BY <1>5, <1>7, Zenon
<1>9. PICK g : g = PredictLTV(x0, V, at)
  OBVIOUS
<1>10. g = [n \in 0..Horizon |-> IF n = 0 THEN x0 ELSE Step(n, g[n - 1])]
  BY <1>8, <1>9
<1>11. g[0] = x0 /\ \A n \in 1..Horizon : g[n] = Step(n, g[n - 1])
  BY <1>0, <1>10
<1>12. \A n \in 0..Horizon : g[n] = f[n]
  <2>1. \A n \in 1..Horizon : g[n - 1] = f[n - 1] => g[n] = f[n]
    BY <1>6, <1>11
  <2>2. g[0] = f[0]
    BY <1>4, <1>11
  <2>3. QED
    BY <2>1, <2>2, TrajectoriesAlike
<1>13. \A n \in 0..Horizon : g[n] \in States
  BY <1>12
<1>14. g = [n \in 0..Horizon |-> g[n]]
  BY <1>10
<1>15. g \in [0..Horizon -> States]
  BY <1>13, <1>14
<1>16. QED
  BY <1>1, <1>9, <1>11, <1>15 DEF Step

LEMMA SqIsInt ==
  ASSUME NEW a \in Int
  PROVE  Sq(a) \in Int
BY ProductIsInt DEF Sq

LEMMA ErrorsAreInt ==
  ASSUME NEW st \in States, NEW i \in Int, NEW speed \in Int
  PROVE  /\ PathError(st, i, speed) \in Int
         /\ HeadingError(st) \in Int
         /\ SpeedError(st, speed) \in Int
<1>1. st.x \in Int /\ st.y \in Int /\ st.yaw \in Int /\ st.v \in Int
  BY DEF States
<1>2. st.x - i * speed \in Int /\ st.v - speed \in Int
  BY <1>1, ProductIsInt
<1>3. QED
  BY <1>1, <1>2, SqIsInt DEF PathError, HeadingError, SpeedError

LEMMA WeightsAreInt ==
  /\ WPath \in Int /\ WHeading \in Int /\ WSpeed \in Int
  /\ WSteer \in Int /\ WAccel \in Int /\ WSteerRate \in Int /\ WAccelRate \in Int
  /\ WTerminalPath \in Int /\ WTerminalHeading \in Int /\ WTerminalSpeed \in Int
BY TrackingAssumption

LEMMA StageCostIsInt ==
  ASSUME NEW st \in States, NEW u \in Proposal, NEW before \in Proposal,
         NEW i \in Int, NEW speed \in Int
  PROVE  StageCost(st, u, before, i, speed) \in Int
<1>1. u.delta \in Int /\ u.accel \in Int /\ before.delta \in Int /\ before.accel \in Int
      /\ i - 1 \in Int
  BY DEF Proposal
<1>2. /\ Sq(u.delta) \in Int /\ Sq(u.accel) \in Int
      /\ Sq(u.delta - before.delta) \in Int /\ Sq(u.accel - before.accel) \in Int
  BY <1>1, SqIsInt
<1>3. /\ PathError(st, i - 1, speed) \in Int /\ HeadingError(st) \in Int
      /\ SpeedError(st, speed) \in Int
  BY <1>1, ErrorsAreInt
<1>4. /\ WPath * PathError(st, i - 1, speed) \in Int /\ WHeading * HeadingError(st) \in Int
      /\ WSpeed * SpeedError(st, speed) \in Int
      /\ WSteer * Sq(u.delta) \in Int /\ WAccel * Sq(u.accel) \in Int
      /\ WSteerRate * Sq(u.delta - before.delta) \in Int
      /\ WAccelRate * Sq(u.accel - before.accel) \in Int
  BY <1>2, <1>3, WeightsAreInt, ProductIsInt
<1>5. QED
  BY <1>4 DEF StageCost

LEMMA TerminalCostIsInt ==
  ASSUME NEW st \in States, NEW speed \in Int
  PROVE  TerminalCost(st, speed) \in Int
<1>1. Horizon - 1 \in Int
  BY SolverAssumption
<1>2. /\ PathError(st, Horizon - 1, speed) \in Int /\ HeadingError(st) \in Int
      /\ SpeedError(st, speed) \in Int
  BY <1>1, ErrorsAreInt
<1>3. /\ WTerminalPath * PathError(st, Horizon - 1, speed) \in Int
      /\ WTerminalHeading * HeadingError(st) \in Int
      /\ WTerminalSpeed * SpeedError(st, speed) \in Int
  BY <1>2, WeightsAreInt, ProductIsInt
<1>4. QED
  BY <1>3 DEF TerminalCost

\* The running sums of computeTotalCost().
SumsUp(f, state, V, prev, speed) ==
  /\ f[0] = TerminalCost(state[Horizon], speed)
  /\ \A i \in 1..Horizon :
       f[i] = f[i - 1]
         + StageCost(state[i - 1], V[i], IF i = 1 THEN prev ELSE V[i - 1], i, speed)

(***************************************************************************)
(* computeTotalCost() is what its recursion says: a sum of numbers.         *)
(***************************************************************************)
LEMMA TotalCostRecurs ==
  ASSUME NEW state \in [0..Horizon -> States], NEW V \in Proposals,
         NEW prev \in Proposal, NEW speed \in Int
  PROVE  \E f \in [0..Horizon -> Int] :
           TotalCost(state, V, prev, speed) = f[Horizon] /\ SumsUp(f, state, V, prev, speed)
<1>0. Horizon \in Nat /\ Horizon \in 0..Horizon
  BY SolverAssumption
<1> DEFINE last == TerminalCost(state[Horizon], speed)
           stage(i) == StageCost(state[i - 1], V[i], IF i = 1 THEN prev ELSE V[i - 1], i, speed)
           Recursion(f) == f = [i \in 0..Horizon |->
                                 IF i = 0 THEN last ELSE f[i - 1] + stage(i)]
<1>1. last \in Int
  BY <1>0, TerminalCostIsInt
<1>2. \A i \in 1..Horizon : stage(i) \in Int
  <2> SUFFICES ASSUME NEW i \in 1..Horizon PROVE stage(i) \in Int
    OBVIOUS
  <2>1. state[i - 1] \in States
    BY <1>0
  <2>2. V[i] \in Proposal /\ i \in Int
    BY <1>0 DEF Proposals, Proposal, Steps
  <2>3. (IF i = 1 THEN prev ELSE V[i - 1]) \in Proposal
    BY <1>0 DEF Proposals, Proposal, Steps
  <2>4. QED
    BY <2>1, <2>2, <2>3, StageCostIsInt
<1>3. TotalCost(state, V, prev, speed) = (CHOOSE g : Recursion(g))[Horizon]
  BY DEF TotalCost
<1> HIDE DEF last, stage
<1>4. PICK F \in [1..Horizon -> [Int -> Int]] :
        \A n \in 1..Horizon : \A s \in Int : F[n][s] = s + stage(n)
  <2> DEFINE G == [n \in 1..Horizon |-> [s \in Int |-> s + stage(n)]]
  <2>1. G \in [1..Horizon -> [Int -> Int]]
    BY <1>2
  <2>2. QED
    BY <2>1
<1>5. PICK f \in [0..Horizon -> Int] :
        f[0] = last /\ \A n \in 1..Horizon : f[n] = F[n][f[n - 1]]
  <2>1. \E f \in [0..Horizon -> Int] : Recurs(f, last, Horizon, F)
    BY <1>0, <1>1, RecursionHasSolution
  <2>2. QED
    BY <2>1 DEF Recurs
<1>6. \A n \in 1..Horizon : f[n] = f[n - 1] + stage(n)
  <2>1. \A n \in 1..Horizon : f[n - 1] \in Int
    BY <1>0
  <2>2. QED
    BY <1>4, <1>5, <2>1
<1>7. Recursion(f)
  BY <1>0, <1>5, <1>6
<1>8. PICK g : g = CHOOSE h : Recursion(h)
  OBVIOUS
<1>9. Recursion(g)
  <2> HIDE DEF Recursion
  <2> QED
    BY <1>7, <1>8, Zenon
<1>10. g[0] = last /\ \A n \in 1..Horizon : g[n] = g[n - 1] + stage(n)
  <2>1. g = [i \in 0..Horizon |-> IF i = 0 THEN last ELSE g[i - 1] + stage(i)]
    BY <1>9
  <2>2. g[0] = last
    <3>1. 0 \in 0..Horizon
      BY <1>0
    <3>2. QED
      BY <2>1, <3>1, Zenon
  <2>3. ASSUME NEW n \in 1..Horizon PROVE g[n] = g[n - 1] + stage(n)
    <3>1. n \in 0..Horizon /\ n # 0
      BY <1>0
    <3>2. QED
      BY <2>1, <3>1, Zenon
  <2>4. QED
    BY <2>2, <2>3
<1>11. \A n \in 0..Horizon : g[n] = f[n]
  <2>1. \A n \in 1..Horizon : g[n - 1] = f[n - 1] => g[n] = f[n]
    BY <1>6, <1>10
  <2>2. g[0] = f[0]
    BY <1>5, <1>10
  <2>3. QED
    BY <2>1, <2>2, TrajectoriesAlike
<1>12. g[Horizon] = f[Horizon]
  BY <1>0, <1>11
<1>13. TotalCost(state, V, prev, speed) = f[Horizon]
  BY <1>3, <1>8, <1>12
<1>14. QED
  BY <1>5, <1>6, <1>13 DEF SumsUp, last, stage

LEMMA TotalCostIsInt ==
  ASSUME NEW state \in [0..Horizon -> States], NEW V \in Proposals,
         NEW prev \in Proposal, NEW speed \in Int
  PROVE  TotalCost(state, V, prev, speed) \in Int
<1>1. \E f \in [0..Horizon -> Int] : TotalCost(state, V, prev, speed) = f[Horizon]
  BY TotalCostRecurs
<1>2. QED
  BY <1>1, SolverAssumption

LEMMA EvalCostIsInt ==
  ASSUME NEW p \in Problems, NEW V \in Proposals, NEW at \in Proposals
  PROVE  EvalCost(p, V, at) \in Int
<1>1. p.x0 \in States /\ p.speed \in Int
  BY TrackingAssumption
<1>2. p.prev \in Proposal
  BY ProblemsAssumption, ControlsAreProposals
<1>3. PredictLTV(p.x0, V, at) \in [0..Horizon -> States]
  BY <1>1, PredictLTVRecurs
<1>4. QED
  BY <1>1, <1>2, <1>3, TotalCostIsInt DEF EvalCost

(***************************************************************************)
(* computeGradient() is a number for each control.                          *)
(***************************************************************************)
LEMMA DifferencesAreInt ==
  ASSUME NEW p \in Problems, NEW V \in Proposals, NEW at \in Proposals
  PROVE  CentralDifferences(p, V, at) \in Proposals
<1>1. \A n \in Steps : /\ [V EXCEPT ![n].delta = @ + 1] \in Proposals
                       /\ [V EXCEPT ![n].delta = @ - 1] \in Proposals
                       /\ [V EXCEPT ![n].accel = @ + 1] \in Proposals
                       /\ [V EXCEPT ![n].accel = @ - 1] \in Proposals
  BY DEF Proposals
<1>2. \A n \in Steps : /\ EvalCost(p, [V EXCEPT ![n].delta = @ + 1], at) \in Int
                       /\ EvalCost(p, [V EXCEPT ![n].delta = @ - 1], at) \in Int
                       /\ EvalCost(p, [V EXCEPT ![n].accel = @ + 1], at) \in Int
                       /\ EvalCost(p, [V EXCEPT ![n].accel = @ - 1], at) \in Int
  BY <1>1, EvalCostIsInt
<1>3. ASSUME NEW n \in Steps
      PROVE  CentralDifferences(p, V, at)[n] \in Proposal
  <2> DEFINE d1 == EvalCost(p, [V EXCEPT ![n].delta = @ + 1], at)
             d2 == EvalCost(p, [V EXCEPT ![n].delta = @ - 1], at)
             a1 == EvalCost(p, [V EXCEPT ![n].accel = @ + 1], at)
             a2 == EvalCost(p, [V EXCEPT ![n].accel = @ - 1], at)
  <2>1. d1 \in Int /\ d2 \in Int /\ a1 \in Int /\ a2 \in Int
    BY <1>2
  <2>2. CentralDifferences(p, V, at)[n] = [delta |-> d1 - d2, accel |-> a1 - a2]
    BY DEF CentralDifferences, Steps
  <2> HIDE DEF d1, d2, a1, a2
  <2>3. QED
    BY <2>1, <2>2 DEF Proposal
<1>4. QED
  BY <1>3 DEF CentralDifferences, Proposals, Proposal, Steps

\* What the theorems above ask of a cost holds of this one.
LEMMA TrackingCostIsNumber ==
  ASSUME CostIsTracking
  PROVE  CostIsNumber
BY SequencesAreProposals, EvalCostIsInt, DifferencesAreInt DEF CostIsTracking, CostIsNumber

------------------------------------------------------------------------------
(***************************************************************************)
(* Within the horizon the vehicle cannot reach the speed at which           *)
(* updateVehicleState() or predictTrajectoryLTV() bounds it.                *)
(***************************************************************************)
BelowSpeedLimits(p) ==
  /\ p.x0.v >= 0
  /\ p.x0.v + Horizon * AccelMax <= VelMax
  /\ p.x0.v + Horizon * AccelMax <= LinearVelMax

LEMMA MoreTime ==
  ASSUME NEW n \in 1..Horizon
  PROVE  /\ n * AccelMax \in Int /\ (n - 1) * AccelMax \in Int
         /\ (n - 1) * AccelMax + AccelMax = n * AccelMax
         /\ n * AccelMax <= Horizon * AccelMax
         /\ Horizon * AccelMax \in Int
<1>1. n \in Int /\ n - 1 \in Int /\ Horizon \in Nat /\ Horizon - n \in Nat /\ AccelMax \in Nat
  BY SolverAssumption, LimitsAssumption
<1>2. (Horizon - n) * AccelMax \in Nat
  BY <1>1
<1>3. Horizon * AccelMax = n * AccelMax + (Horizon - n) * AccelMax
  BY <1>1
<1>4. (n - 1) * AccelMax + AccelMax = n * AccelMax
  BY <1>1
<1>5. n * AccelMax \in Int /\ (n - 1) * AccelMax \in Int /\ Horizon * AccelMax \in Int
  BY <1>1, ProductIsInt
<1>6. QED
  BY <1>2, <1>3, <1>4, <1>5

\* A step of speed under either bound.
LEMMA SpeedStep ==
  ASSUME NEW v \in Int, NEW a \in Int, NEW top \in Int,
         v + a <= top, top <= VelMax, top <= LinearVelMax, v >= 0
  PROVE  /\ Bounded(v + a, VelMin, VelMax) = Bounded(v + a, 0, LinearVelMax)
         /\ Bounded(v + a, VelMin, VelMax) >= 0
         /\ v + a >= 0 => Bounded(v + a, VelMin, VelMax) <= top
         /\ v + a < 0 => Bounded(v + a, VelMin, VelMax) = 0
BY TrackingAssumption DEF Bounded

LEMMA SpeedStaysBelow ==
  ASSUME NEW x0 \in States, NEW V \in Sequences, x0.v >= 0,
         x0.v + Horizon * AccelMax <= VelMax, x0.v + Horizon * AccelMax <= LinearVelMax
  PROVE  \A n \in 0..Horizon : /\ Predict(x0, V)[n].v >= 0
                               /\ Predict(x0, V)[n].v <= x0.v + n * AccelMax
<1>0. Horizon \in Nat /\ AccelMax \in Nat /\ V \in Proposals /\ x0.v \in Int
  BY SolverAssumption, LimitsAssumption, SequencesAreProposals DEF States
<1>1. PICK tr \in [0..Horizon -> States] :
        /\ tr = Predict(x0, V)
        /\ tr[0] = x0
        /\ \A n \in 1..Horizon : tr[n] = Update(tr[n - 1], V[n])
  BY <1>0, PredictRecurs
<1> DEFINE Below(n) == tr[n].v >= 0 /\ tr[n].v <= x0.v + n * AccelMax
           f == [n \in 0..Horizon |-> Below(n)]
           g == [n \in 0..Horizon |-> TRUE]
<1>2. Below(0)
  BY <1>0, <1>1
<1>3. ASSUME NEW n \in 1..Horizon, Below(n - 1)
      PROVE  Below(n)
  <2>1. tr[n - 1] \in States /\ n - 1 \in 0..Horizon
    BY <1>0
  <2>2. tr[n - 1].v \in Int
    BY <2>1 DEF States
  <2>3. V[n].accel \in Int /\ V[n].accel <= AccelMax
    BY LimitsAssumption DEF Sequences, Controls, Steps
  <2>4. tr[n].v = Bounded(tr[n - 1].v + V[n].accel, VelMin, VelMax)
    <3>1. tr[n] = Update(tr[n - 1], V[n])
      BY <1>1
    <3>2. Update(tr[n - 1], V[n]).v = Bounded(tr[n - 1].v + V[n].accel, VelMin, VelMax)
      BY DEF Update
    <3>3. QED
      BY <3>1, <3>2
  <2> DEFINE top == x0.v + n * AccelMax
             v == tr[n - 1].v
  <2>5. /\ top \in Int /\ top <= VelMax /\ top <= LinearVelMax /\ top >= 0
        /\ v >= 0 /\ v + AccelMax <= top /\ v \in Int
    <3> DEFINE m == (n - 1) * AccelMax
               o == n * AccelMax
               h == Horizon * AccelMax
               w == x0.v
    <3>1. m \in Int /\ o \in Int /\ h \in Int /\ m + AccelMax = o /\ o <= h
      BY MoreTime
    <3>2. v >= 0 /\ v <= w + m /\ top = w + o
      BY <1>3
    <3>3. w + h <= VelMax /\ w + h <= LinearVelMax
      OBVIOUS
    <3>4. v \in Int /\ w \in Int /\ AccelMax \in Int
      BY <1>0, <2>2
    <3> HIDE DEF m, o, h, w, top, v
    <3>5. VelMax \in Int /\ LinearVelMax \in Int
      BY TrackingAssumption
    <3>6. top \in Int /\ top <= w + h /\ w + h \in Int
      BY <3>1, <3>2, <3>4
    <3>7. top <= VelMax /\ top <= LinearVelMax
      BY <3>3, <3>5, <3>6
    <3>8. v + AccelMax <= top
      BY <3>1, <3>2, <3>4
    <3>9. AccelMax >= 0
      BY <1>0
    <3>10. QED
      BY <3>2, <3>4, <3>6, <3>7, <3>8, <3>9
  <2> HIDE DEF top, v
  <2>6. v + V[n].accel <= top
    BY <1>0, <2>3, <2>5
  <2>7. /\ tr[n].v = Bounded(v + V[n].accel, VelMin, VelMax)
        /\ tr[n].v >= 0 /\ tr[n].v <= top
    <3>1. tr[n].v = Bounded(v + V[n].accel, VelMin, VelMax)
      BY <2>4 DEF v
    <3> DEFINE a == V[n].accel
               b == Bounded(v + a, VelMin, VelMax)
    <3>2. a \in Int
      BY <2>3
    <3> HIDE DEF a, b
    <3>3. b >= 0 /\ (v + a >= 0 => b <= top) /\ (v + a < 0 => b = 0)
      BY <2>5, <2>6, <3>2, SpeedStep DEF a, b
    <3>4. b >= 0 /\ b <= top
      BY <2>5, <3>2, <3>3
    <3>5. QED
      BY <3>1, <3>4 DEF a, b
  <2>8. QED
    BY <2>7 DEF top
<1> HIDE DEF Below
<1>4. \A n \in 1..Horizon : f[n - 1] = g[n - 1] => f[n] = g[n]
  <2> SUFFICES ASSUME NEW n \in 1..Horizon, f[n - 1] = g[n - 1]
               PROVE  f[n] = g[n]
    OBVIOUS
  <2>1. n - 1 \in 0..Horizon /\ n \in 0..Horizon
    BY <1>0
  <2>2. Below(n - 1)
    BY <2>1
  <2>3. Below(n)
    BY <1>3, <2>2
  <2>4. QED
    BY <2>1, <2>3
<1>5. f[0] = g[0]
  <2>1. 0 \in 0..Horizon
    BY <1>0
  <2>2. QED
    BY <1>2, <2>1
<1>6. \A n \in 0..Horizon : f[n] = g[n]
  <2> HIDE DEF f, g
  <2> QED
    BY <1>4, <1>5, TrajectoriesAlike
<1>7. \A n \in 0..Horizon : Below(n)
  BY <1>6
<1>8. QED
  BY <1>1, <1>7 DEF Below

(***************************************************************************)
(* Around the controls themselves linearising loses nothing: at its         *)
(* operating point the linear model is the bicycle.                         *)
(***************************************************************************)
LEMMA LinearAtOperatingPoint ==
  ASSUME NEW st \in States, NEW u \in Proposal,
         Bounded(st.v + u.accel, VelMin, VelMax) = Bounded(st.v + u.accel, 0, LinearVelMax)
  PROVE  LinearUpdate(st, u, st, u) = Update(st, u)
<1>1. st.x \in Int /\ st.y \in Int /\ st.yaw \in Int /\ st.v \in Int
      /\ u.delta \in Int /\ u.accel \in Int
  BY DEF States, Proposal
<1>2. st.yaw - st.yaw = 0 /\ st.v - st.v = 0 /\ u.delta - u.delta = 0
  BY <1>1
<1>3. st.v * st.yaw \in Int /\ st.v * u.delta \in Int
  BY <1>1, ProductIsInt
<1>4. st.v * 0 = 0 /\ st.yaw * 0 = 0 /\ u.delta * 0 = 0
  BY <1>1
<1>5. st.y + st.v * st.yaw + st.v * (st.yaw - st.yaw) + st.yaw * (st.v - st.v)
        = st.y + st.v * st.yaw
  BY <1>1, <1>2, <1>3, <1>4
<1>6. st.yaw + st.v * u.delta + u.delta * (st.v - st.v) + st.v * (u.delta - u.delta)
        = st.yaw + st.v * u.delta
  BY <1>1, <1>2, <1>3, <1>4
<1>7. QED
  BY <1>5, <1>6 DEF LinearUpdate, Linear, Update

LEMMA LinearisingLosesNothing ==
  ASSUME NEW x0 \in States, NEW V \in Sequences, x0.v >= 0,
         x0.v + Horizon * AccelMax <= VelMax, x0.v + Horizon * AccelMax <= LinearVelMax
  PROVE  PredictLTV(x0, V, V) = Predict(x0, V)
<1>0. Horizon \in Nat /\ V \in Proposals
  BY SolverAssumption, SequencesAreProposals
<1>1. PICK tr \in [0..Horizon -> States] :
        /\ tr = Predict(x0, V)
        /\ tr[0] = x0
        /\ \A n \in 1..Horizon : tr[n] = Update(tr[n - 1], V[n])
  BY <1>0, PredictRecurs
<1>2. PICK lin \in [0..Horizon -> States] :
        /\ lin = PredictLTV(x0, V, V)
        /\ lin[0] = x0
        /\ \A n \in 1..Horizon : lin[n] = LinearUpdate(tr[n - 1], V[n], lin[n - 1], V[n])
  BY <1>0, <1>1, PredictLTVRecurs
<1>3. \A n \in 1..Horizon : LinearUpdate(tr[n - 1], V[n], tr[n - 1], V[n]) = Update(tr[n - 1], V[n])
  <2> SUFFICES ASSUME NEW n \in 1..Horizon
               PROVE  LinearUpdate(tr[n - 1], V[n], tr[n - 1], V[n]) = Update(tr[n - 1], V[n])
    OBVIOUS
  <2>1. tr[n - 1] \in States /\ n - 1 \in 0..Horizon
    BY <1>0
  <2>2. V[n] \in Proposal
    BY <1>0 DEF Proposals, Proposal, Steps
  <2>3. V[n].accel \in Int /\ V[n].accel <= AccelMax
    BY LimitsAssumption DEF Sequences, Controls, Steps
  <2>4. tr[n - 1].v >= 0 /\ tr[n - 1].v <= x0.v + (n - 1) * AccelMax
    BY <1>1, <2>1, SpeedStaysBelow
  <2> DEFINE m == (n - 1) * AccelMax
             o == n * AccelMax
             h == Horizon * AccelMax
             v == tr[n - 1].v
             a == V[n].accel
  <2>5. m \in Int /\ o \in Int /\ h \in Int /\ m + AccelMax = o /\ o <= h
    BY MoreTime
  <2>6. v >= 0 /\ v <= x0.v + m /\ x0.v + h <= VelMax /\ x0.v + h <= LinearVelMax
    BY <2>4
  <2>7. v \in Int /\ x0.v \in Int /\ a \in Int /\ a <= AccelMax
        /\ VelMax \in Int /\ LinearVelMax \in Int /\ AccelMax \in Int
    BY <2>1, <2>3, TrackingAssumption, LimitsAssumption DEF States
  <2> HIDE DEF m, o, h, v, a
  <2>8. v + a <= x0.v + h /\ x0.v + h \in Int
    BY <2>5, <2>6, <2>7
  <2>9. Bounded(v + a, VelMin, VelMax) = Bounded(v + a, 0, LinearVelMax)
    BY <2>6, <2>7, <2>8, SpeedStep
  <2>10. QED
    BY <2>1, <2>2, <2>9, LinearAtOperatingPoint DEF v, a
<1>4. \A n \in 0..Horizon : lin[n] = tr[n]
  <2>1. \A n \in 1..Horizon : lin[n - 1] = tr[n - 1] => lin[n] = tr[n]
    BY <1>1, <1>2, <1>3
  <2>2. lin[0] = tr[0]
    BY <1>1, <1>2
  <2>3. QED
    BY <2>1, <2>2, TrajectoriesAlike
<1>5. lin = tr
  <2>1. lin = [n \in 0..Horizon |-> lin[n]] /\ tr = [n \in 0..Horizon |-> tr[n]]
    OBVIOUS
  <2>2. [n \in 0..Horizon |-> lin[n]] = [n \in 0..Horizon |-> tr[n]]
    BY <1>4
  <2>3. QED
    BY <2>1, <2>2, Zenon
<1>6. QED
  BY <1>1, <1>2, <1>5

LEMMA CostsAgree ==
  ASSUME NEW p \in Problems, NEW V \in Sequences, BelowSpeedLimits(p)
  PROVE  EvalCost(p, V, V) = EvalCostNonlinear(p, V)
<1>1. p.x0 \in States
  BY TrackingAssumption
<1>2. PredictLTV(p.x0, V, V) = Predict(p.x0, V)
  BY <1>1, LinearisingLosesNothing DEF BelowSpeedLimits
<1>3. QED
  BY <1>2 DEF EvalCost, EvalCostNonlinear

------------------------------------------------------------------------------
(***************************************************************************)
(* What the search remembers of the controls it has is their own cost.      *)
(***************************************************************************)
CostIsOfControls == U # None => cost_cur = Cost(problem, U, U)

LEMMA CostStep ==
  ASSUME SInv, SInv', CostIsOfControls, [Next]_vars
  PROVE  CostIsOfControls'
<1>1. CASE Start \/ Accept
  BY <1>1 DEF Start, Accept, CostIsOfControls
<1>2. CASE UNCHANGED <<U, problem, cost_cur>>
  BY <1>2 DEF CostIsOfControls
<1>3. QED
  BY <1>1, <1>2 DEF Next, ProjectNext, Differentiate, Search, Converge, Backtrack, Abandon,
                    Return, vars

(***************************************************************************)
(* The result of a solve comes with the cost of the states it predicts,     *)
(* whatever was accepted and rejected on the way, for every vehicle that    *)
(* cannot reach vel_max within the horizon (mpc_solver.cpp:216-252).        *)
(***************************************************************************)
THEOREM SolverCostIsOfPrediction ==
  ASSUME CostIsTracking
  PROVE  Spec => [](BelowSpeedLimits(problem) => CostIsOfPrediction)
<1>1. CostIsNumber
  BY TrackingCostIsNumber
<1>2. Init => CostIsOfControls
  BY DEF Init, CostIsOfControls
<1>3. SInv /\ CostIsOfControls => (BelowSpeedLimits(problem) => CostIsOfPrediction)
  <2> SUFFICES ASSUME SInv, CostIsOfControls, BelowSpeedLimits(problem), pc = "done"
               PROVE  cost_cur = EvalCostNonlinear(problem, U)
    BY DEF CostIsOfPrediction
  <2>1. problem \in Problems /\ U \in Sequences /\ U # None
    BY DEF SInv, SolverTypeOK, HasControls
  <2>2. cost_cur = Cost(problem, U, U)
    BY <2>1 DEF CostIsOfControls
  <2>3. QED
    BY <2>1, <2>2, CostsAgree DEF CostIsTracking
<1>4. SInv /\ SInv' /\ CostIsOfControls /\ [Next]_vars => CostIsOfControls'
  BY CostStep
<1>5. Spec => []SInv
  BY <1>1, SolverInvariance
<1>6. QED
  BY <1>2, <1>3, <1>4, <1>5, PTL DEF Spec


------------------------------------------------------------------------------
(***************************************************************************)
(* A vehicle that stands.                                                   *)
(***************************************************************************)
NeverDrives(V) == \A i \in Steps : V[i].accel <= 0
Zeros == [i \in Steps |-> ZeroControl]
Standing(x0) == x0 \in States /\ x0.v = 0

LEMMA ZeroIsControl == ZeroControl \in Controls /\ Zeros \in Sequences
<1>1. ZeroControl \in Controls
  BY LimitsAssumption DEF ZeroControl, Controls
<1>2. QED
  BY <1>1 DEF Zeros, Sequences

\* Steering and braking do not move a vehicle that stands, in either model.
LEMMA StandingStays ==
  ASSUME NEW st, Standing(st), NEW u \in Proposal, u.accel <= 0
  PROVE  Update(st, u) = st /\ LinearUpdate(st, u, st, u) = st
<1>1. st.x \in Int /\ st.y \in Int /\ st.yaw \in Int /\ st.v = 0
      /\ u.delta \in Int /\ u.accel \in Int
  BY DEF Standing, States, Proposal
<1>2. st = [x |-> st.x, y |-> st.y, yaw |-> st.yaw, v |-> st.v]
  BY DEF Standing, States
<1>3. st.v * st.yaw = 0 /\ st.v * u.delta = 0
  BY <1>1
<1>4. Bounded(st.v + u.accel, VelMin, VelMax) = 0
      /\ Bounded(st.v + u.accel, 0, LinearVelMax) = 0
  BY <1>1, TrackingAssumption DEF Bounded
<1>5. Update(st, u) = [x |-> st.x, y |-> st.y, yaw |-> st.yaw, v |-> st.v]
  BY <1>1, <1>3, <1>4 DEF Update
<1>6. LinearUpdate(st, u, st, u) = Update(st, u)
  BY <1>4, LinearAtOperatingPoint DEF Standing
<1>7. QED
  BY <1>2, <1>5, <1>6

LEMMA StandingTrajectory ==
  ASSUME NEW x0, Standing(x0), NEW V \in Sequences, NeverDrives(V)
  PROVE  \A n \in 0..Horizon : PredictLTV(x0, V, V)[n] = x0
<1>0. Horizon \in Nat /\ V \in Proposals /\ x0 \in States
  BY SolverAssumption, SequencesAreProposals DEF Standing
<1>1. PICK tr \in [0..Horizon -> States] :
        /\ tr = Predict(x0, V)
        /\ tr[0] = x0
        /\ \A n \in 1..Horizon : tr[n] = Update(tr[n - 1], V[n])
  BY <1>0, PredictRecurs
<1>2. PICK lin \in [0..Horizon -> States] :
        /\ lin = PredictLTV(x0, V, V)
        /\ lin[0] = x0
        /\ \A n \in 1..Horizon : lin[n] = LinearUpdate(tr[n - 1], V[n], lin[n - 1], V[n])
  BY <1>0, <1>1, PredictLTVRecurs
<1> DEFINE still == [n \in 0..Horizon |-> x0]
<1>3. \A n \in 0..Horizon : still[n] = x0
  OBVIOUS
<1>4. \A n \in 1..Horizon : n - 1 \in 0..Horizon /\ n \in 0..Horizon
  BY <1>0
<1>5. \A n \in 1..Horizon : /\ Update(x0, V[n]) = x0
                            /\ LinearUpdate(x0, V[n], x0, V[n]) = x0
  <2>1. \A n \in 1..Horizon : V[n] \in Proposal /\ V[n].accel <= 0
    BY <1>0 DEF Proposals, Proposal, Steps, NeverDrives
  <2>2. QED
    BY <2>1, StandingStays
<1> HIDE DEF still
<1>6. \A n \in 0..Horizon : tr[n] = still[n]
  <2>1. tr[0] = still[0]
    BY <1>0, <1>1, <1>3
  <2>2. \A n \in 1..Horizon : tr[n - 1] = still[n - 1] => tr[n] = still[n]
    BY <1>1, <1>3, <1>4, <1>5
  <2>3. QED
    BY <2>1, <2>2, TrajectoriesAlike
<1>7. \A n \in 0..Horizon : lin[n] = still[n]
  <2>1. lin[0] = still[0]
    BY <1>0, <1>2, <1>3
  <2>2. \A n \in 1..Horizon : lin[n - 1] = still[n - 1] => lin[n] = still[n]
    BY <1>2, <1>3, <1>4, <1>5, <1>6
  <2>3. QED
    BY <2>1, <2>2, TrajectoriesAlike
<1>8. QED
  BY <1>2, <1>3, <1>7

LEMMA WeighedSquare ==
  ASSUME NEW w \in Nat, NEW a \in Int
  PROVE  w * Sq(a) \in Nat
<1>1. Sq(a) \in Nat
  <2>1. CASE a >= 0
    <3>1. a \in Nat
      BY <2>1
    <3>2. QED
      BY <3>1 DEF Sq
  <2>2. CASE a < 0
    <3>1. -a \in Nat /\ a * a = (-a) * (-a)
      BY <2>2
    <3>2. (-a) * (-a) \in Nat
      BY <3>1
    <3>3. QED
      BY <3>1, <3>2 DEF Sq
  <2>3. QED
    BY <2>1, <2>2
<1> HIDE DEF Sq
<1>2. PICK s \in Nat : s = Sq(a)
  BY <1>1
<1>3. QED
  BY <1>2

\* In the same state, no control costs less than none after none.
LEMMA NothingIsCheapest ==
  ASSUME NEW st \in States, NEW u \in Proposal, NEW before \in Proposal,
         NEW i \in Int, NEW speed \in Int
  PROVE  StageCost(st, ZeroControl, ZeroControl, i, speed) <= StageCost(st, u, before, i, speed)
<1> DEFINE e == WPath * PathError(st, i - 1, speed)
           h == WHeading * HeadingError(st)
           s == WSpeed * SpeedError(st, speed)
           a == WSteer * Sq(u.delta)
           b == WAccel * Sq(u.accel)
           c == WSteerRate * Sq(u.delta - before.delta)
           d == WAccelRate * Sq(u.accel - before.accel)
<1>1. e \in Int /\ h \in Int /\ s \in Int
  <2>1. /\ PathError(st, i - 1, speed) \in Int /\ HeadingError(st) \in Int
        /\ SpeedError(st, speed) \in Int
    BY ErrorsAreInt
  <2>2. QED
    BY <2>1, WeightsAreInt, ProductIsInt
<1>2. a \in Nat /\ b \in Nat /\ c \in Nat /\ d \in Nat
  <2>1. /\ u.delta \in Int /\ u.accel \in Int /\ u.delta - before.delta \in Int
        /\ u.accel - before.accel \in Int
    BY DEF Proposal
  <2>2. WSteer \in Nat /\ WAccel \in Nat /\ WSteerRate \in Nat /\ WAccelRate \in Nat
    BY TrackingAssumption
  <2>3. QED
    BY <2>1, <2>2, WeighedSquare
<1>3. StageCost(st, u, before, i, speed) = e + h + s + a + b + c + d
  BY DEF StageCost
<1>4. StageCost(st, ZeroControl, ZeroControl, i, speed) = e + h + s
  <2>1. ZeroControl.delta = 0 /\ ZeroControl.accel = 0
    BY DEF ZeroControl
  <2>2. Sq(0) = 0 /\ Sq(0 - 0) = 0
    BY DEF Sq
  <2>3. WSteer * 0 = 0 /\ WAccel * 0 = 0 /\ WSteerRate * 0 = 0 /\ WAccelRate * 0 = 0
    BY WeightsAreInt
  <2>4. StageCost(st, ZeroControl, ZeroControl, i, speed)
          = e + h + s + WSteer * 0 + WAccel * 0 + WSteerRate * 0 + WAccelRate * 0
    BY <2>1, <2>2 DEF StageCost
  <2> HIDE DEF e, h, s
  <2>5. QED
    BY <1>1, <2>3, <2>4
<1> HIDE DEF e, h, s, a, b, c, d
<1>5. QED
  BY <1>1, <1>2, <1>3, <1>4

(***************************************************************************)
(* Standing, controls that never drive cost what the place costs and their  *)
(* effort on top: none of them is cheaper than no control at all.           *)
(***************************************************************************)
LEMMA NotDrivingIsNoBetter ==
  ASSUME NEW p \in Problems, Standing(p.x0), p.prev = ZeroControl,
         NEW V \in Sequences, NeverDrives(V)
  PROVE  EvalCost(p, Zeros, Zeros) <= EvalCost(p, V, V)
<1>0. Horizon \in Nat /\ V \in Proposals /\ Zeros \in Proposals
      /\ p.x0 \in States /\ p.speed \in Int /\ ZeroControl \in Proposal /\ Zeros \in Sequences
  BY SolverAssumption, SequencesAreProposals, ZeroIsControl, ControlsAreProposals,
     TrackingAssumption
<1> DEFINE before(W, i) == IF i = 1 THEN ZeroControl ELSE W[i - 1]
           stage(st, W, i) == StageCost(st, W[i], before(W, i), i, p.speed)
<1>1. NeverDrives(Zeros)
  BY DEF NeverDrives, Zeros, ZeroControl
<1>2. PICK lin \in [0..Horizon -> States] :
        lin = PredictLTV(p.x0, V, V) /\ \A n \in 0..Horizon : lin[n] = p.x0
  BY <1>0, PredictLTVRecurs, StandingTrajectory
<1>3. PICK still \in [0..Horizon -> States] :
        still = PredictLTV(p.x0, Zeros, Zeros) /\ \A n \in 0..Horizon : still[n] = p.x0
  <2>1. PredictLTV(p.x0, Zeros, Zeros) \in [0..Horizon -> States]
    BY <1>0, PredictLTVRecurs
  <2>2. \A n \in 0..Horizon : PredictLTV(p.x0, Zeros, Zeros)[n] = p.x0
    BY <1>0, <1>1, StandingTrajectory
  <2>3. QED
    BY <2>1, <2>2
<1>4. PICK f \in [0..Horizon -> Int] :
        /\ TotalCost(lin, V, ZeroControl, p.speed) = f[Horizon]
        /\ SumsUp(f, lin, V, ZeroControl, p.speed)
  BY <1>0, TotalCostRecurs
<1>5. PICK z \in [0..Horizon -> Int] :
        /\ TotalCost(still, Zeros, ZeroControl, p.speed) = z[Horizon]
        /\ SumsUp(z, still, Zeros, ZeroControl, p.speed)
  BY <1>0, TotalCostRecurs
<1>6. z[0] = f[0] /\ z[0] \in Int
  <2>1. Horizon \in 0..Horizon /\ 0 \in 0..Horizon
    BY <1>0
  <2>2. QED
    BY <1>2, <1>3, <1>4, <1>5, <2>1 DEF SumsUp
<1>7. ASSUME NEW i \in 1..Horizon
      PROVE  /\ stage(still[i - 1], Zeros, i) \in Int /\ stage(lin[i - 1], V, i) \in Int
             /\ stage(still[i - 1], Zeros, i) <= stage(lin[i - 1], V, i)
  <2>1. i - 1 \in 0..Horizon /\ i \in Int /\ i \in Steps /\ (i # 1 => i - 1 \in Steps)
    BY <1>0 DEF Steps
  <2>2. still[i - 1] = p.x0 /\ lin[i - 1] = p.x0
    BY <1>2, <1>3, <2>1
  <2>3. V[i] \in Proposal /\ before(V, i) \in Proposal
    BY <1>0, <2>1 DEF Proposals, Proposal
  <2>4. Zeros[i] = ZeroControl /\ before(Zeros, i) = ZeroControl
    BY <2>1 DEF Zeros
  <2> HIDE DEF before
  <2>5. /\ StageCost(p.x0, V[i], before(V, i), i, p.speed) \in Int
        /\ StageCost(p.x0, ZeroControl, ZeroControl, i, p.speed) \in Int
    BY <1>0, <2>1, <2>3, StageCostIsInt
  <2>6. StageCost(p.x0, ZeroControl, ZeroControl, i, p.speed)
          <= StageCost(p.x0, V[i], before(V, i), i, p.speed)
    BY <1>0, <2>1, <2>3, NothingIsCheapest
  <2>7. QED
    BY <2>2, <2>4, <2>5, <2>6
<1> HIDE DEF stage
<1>8. z[Horizon] <= f[Horizon]
  <2>1. \A i \in 1..Horizon : z[i - 1] <= f[i - 1] => z[i] <= f[i]
    <3> SUFFICES ASSUME NEW i \in 1..Horizon, z[i - 1] <= f[i - 1]
                 PROVE  z[i] <= f[i]
      OBVIOUS
    <3>1. z[i - 1] \in Int /\ f[i - 1] \in Int
      BY <1>0
    <3>2. z[i] = z[i - 1] + stage(still[i - 1], Zeros, i)
          /\ f[i] = f[i - 1] + stage(lin[i - 1], V, i)
      BY <1>4, <1>5 DEF SumsUp, stage
    <3>3. QED
      BY <1>7, <3>1, <3>2
  <2>2. z[0] <= f[0]
    BY <1>6
  <2>3. QED
    BY <1>0, <2>1, <2>2, SumsOrdered
<1>9. EvalCost(p, V, V) = f[Horizon] /\ EvalCost(p, Zeros, Zeros) = z[Horizon]
  BY <1>2, <1>3, <1>4, <1>5 DEF EvalCost
<1>10. QED
  BY <1>8, <1>9

(***************************************************************************)
(* With its memory cleared a solve begins with no control at all, which is  *)
(* feasible, and leaves it only for something cheaper.                      *)
(***************************************************************************)
BeginsWithNothing ==
  Cleared => /\ pc = "project" /\ U = None => U_new = Zeros
             /\ U # None => /\ first = Cost(problem, Zeros, Zeros)
                            /\ U = Zeros \/ cost_cur < first

LEMMA NothingIsFeasible == Project(ZeroControl, ZeroControl) = ZeroControl
BY LimitsAssumption DEF Project, ClipSteeringRate, ClipControl, Clip, ZeroControl

LEMMA BeginsInit == Init => BeginsWithNothing
<1> SUFFICES ASSUME Init, Cleared PROVE U_new = Zeros /\ U = None
  BY DEF BeginsWithNothing, Init
<1>1. U_new = Shifted(None, ZeroControl) /\ U = None
  BY DEF Init, Cleared
<1>2. QED
  BY <1>1 DEF Shifted, Zeros

LEMMA BeginsStep ==
  ASSUME SInv, CostIsNumber, BeginsWithNothing, [Next]_vars
  PROVE  BeginsWithNothing'
<1>0. CASE UNCHANGED vars
  BY <1>0 DEF vars, BeginsWithNothing, Cleared
<1>1. CASE ProjectNext
  <2> SUFFICES ASSUME Cleared, U = None PROVE U_new' = Zeros
    BY <1>1 DEF ProjectNext, BeginsWithNothing, Cleared
  <2>1. U_new = Zeros /\ k \in Steps
    BY <1>1, SolverAssumption DEF ProjectNext, BeginsWithNothing, SInv, SolverTypeOK, Steps
  <2>2. Before(U_new, k) = ZeroControl
    <3>1. CASE k = 1
      BY <3>1 DEF Before, Cleared
    <3>2. CASE k # 1
      <4>1. k - 1 \in Steps
        BY <2>1, <3>2, SolverAssumption DEF Steps
      <4>2. QED
        BY <2>1, <3>2, <4>1 DEF Before, Zeros
    <3>3. QED
      BY <3>1, <3>2
  <2>3. U_new' = [Zeros EXCEPT ![k] = Project(Zeros[k], ZeroControl)]
    BY <1>1, <2>1, <2>2 DEF ProjectNext
  <2>4. Zeros[k] = ZeroControl
    BY <2>1 DEF Zeros
  <2>5. U_new' = [Zeros EXCEPT ![k] = ZeroControl]
    BY <2>3, <2>4, NothingIsFeasible
  <2>6. QED
    BY <2>1, <2>5 DEF Zeros
<1>2. CASE Start
  <2> SUFFICES ASSUME Cleared
               PROVE  U' = Zeros /\ first' = Cost(problem, Zeros, Zeros) /\ problem' = problem
                      /\ pc' # "project"
    BY <1>2 DEF Start, BeginsWithNothing, Cleared
  <2>1. U_new = Zeros
    BY <1>2 DEF Start, Projected, BeginsWithNothing
  <2>2. QED
    BY <1>2, <2>1 DEF Start
<1>3. CASE Accept
  <2>1. U # None /\ Cost(problem, U_new, U_new) < cost_cur
        /\ cost_cur' = Cost(problem, U_new, U_new) /\ cost_cur <= first
    BY <1>3 DEF Accept, Better, SInv, NeverWorse
  <2>2. problem' = problem /\ warm_start' = warm_start /\ first' = first /\ pc' # "project"
    BY <1>3 DEF Accept
  <2>3. U_new \in Sequences
    BY <1>3, ProjectedIsFeasible DEF Accept, Follows
  <2>4. cost_cur \in Int /\ first \in Int /\ Cost(problem, U_new, U_new) \in Int
    BY <2>3 DEF SInv, SolverTypeOK, CostIsNumber
  <2>5. cost_cur' < first
    BY <2>1, <2>4
  <2>6. Cleared => first = Cost(problem, Zeros, Zeros)
    BY <2>1 DEF BeginsWithNothing
  <2>7. QED
    BY <2>2, <2>5, <2>6 DEF BeginsWithNothing, Cleared
<1>4. CASE /\ UNCHANGED <<problem, warm_start, U, cost_cur, first>>
           /\ pc' # "project" \/ U # None
  BY <1>4 DEF BeginsWithNothing, Cleared
<1>5. CASE Search \/ Backtrack
  <2>1. U # None
    BY <1>5 DEF Search, Backtrack, SInv, HasControls
  <2>2. QED
    BY <1>4, <1>5, <2>1 DEF Search, Backtrack
<1>6. CASE Differentiate \/ Converge \/ Abandon
  <2>1. pc' # "project"
    BY <1>6 DEF Differentiate, Converge, Abandon
  <2>2. QED
    BY <1>4, <1>6, <2>1 DEF Differentiate, Converge, Abandon
<1>7. QED
  BY <1>0, <1>1, <1>2, <1>3, <1>5, <1>6 DEF Next, Return

(***************************************************************************)
(* Once its memory is cleared, a solve for a vehicle that stands anywhere,  *)
(* in any heading, before any reference either drives within the horizon or *)
(* sends nothing at all: what the search has is never a sequence that only  *)
(* brakes or steers a vehicle that stands (mpc_controller/src/main.cpp:     *)
(* 137-145).                                                                *)
(***************************************************************************)
DrivesOrDoesNothing ==
  U # None /\ problem.x0.v = 0 /\ Cleared
    => U = Zeros \/ \E i \in Steps : U[i].accel > 0

THEOREM ClearedDrivesOrDoesNothing ==
  ASSUME CostIsTracking
  PROVE  Spec => []DrivesOrDoesNothing
<1>1. CostIsNumber
  BY TrackingCostIsNumber
<1>2. SInv /\ CostIsOfControls /\ BeginsWithNothing => DrivesOrDoesNothing
  <2> SUFFICES ASSUME SInv, CostIsOfControls, BeginsWithNothing,
                      U # None, problem.x0.v = 0, Cleared, U # Zeros,
                      ~ \E i \in Steps : U[i].accel > 0
               PROVE  FALSE
    BY DEF DrivesOrDoesNothing
  <2>1. problem \in Problems /\ U \in Sequences /\ first \in Int /\ cost_cur \in Int
    BY DEF SInv, SolverTypeOK
  <2>2. cost_cur = Cost(problem, U, U) /\ first = Cost(problem, Zeros, Zeros)
        /\ cost_cur < first
    BY DEF CostIsOfControls, BeginsWithNothing
  <2>3. cost_cur = EvalCost(problem, U, U) /\ first = EvalCost(problem, Zeros, Zeros)
    BY <2>1, <2>2, ZeroIsControl DEF CostIsTracking
  <2>4. NeverDrives(U)
    <3>1. \A i \in Steps : U[i].accel \in Int
      BY <2>1, LimitsAssumption DEF Sequences, Controls
    <3>2. QED
      BY <3>1 DEF NeverDrives
  <2>5. Standing(problem.x0) /\ problem.prev = ZeroControl
    BY <2>1, TrackingAssumption DEF Standing, Cleared
  <2>6. first <= cost_cur
    BY <2>1, <2>3, <2>4, <2>5, NotDrivingIsNoBetter
  <2>7. QED
    BY <2>1, <2>2, <2>6
<1>3. Init => CostIsOfControls /\ BeginsWithNothing
  BY BeginsInit DEF Init, CostIsOfControls
<1>4. SInv /\ SInv' /\ CostIsOfControls /\ BeginsWithNothing /\ [Next]_vars
        => CostIsOfControls' /\ BeginsWithNothing'
  BY <1>1, CostStep, BeginsStep
<1>5. Spec => []SInv
  BY <1>1, SolverInvariance
<1>6. QED
  BY <1>2, <1>3, <1>4, <1>5, PTL DEF Spec

------------------------------------------------------------------------------
(***************************************************************************)
(* What the loop takes from a solve.                                        *)
(***************************************************************************)
\* A control that keeps box and rate passes the projection unchanged.
LEMMA ProjectKeepsFeasible ==
  ASSUME NEW u \in Controls, NEW prev \in Controls, WithinRate(u.delta, prev.delta)
  PROVE  Project(u, prev) = u
<1>1. /\ u.delta \in -SteerMax..SteerMax /\ u.accel \in AccelMin..AccelMax
      /\ prev.delta \in -SteerMax..SteerMax
      /\ u = [delta |-> u.delta, accel |-> u.accel]
  BY DEF Controls
<1>2. Clip(u.delta, -SteerMax, SteerMax) = u.delta /\ Clip(u.accel, AccelMin, AccelMax) = u.accel
  BY <1>1, LimitsAssumption DEF Clip
<1>3. ClipControl(u) = [delta |-> u.delta, accel |-> u.accel]
  BY <1>2 DEF ClipControl
<1>4. prev.delta + Clip(u.delta - prev.delta, -SteerStep, SteerStep) = u.delta
  BY <1>1, LimitsAssumption DEF Clip, WithinRate
<1>5. Project(u, prev) = [delta |-> u.delta, accel |-> u.accel]
  BY <1>3, <1>4 DEF Project, ClipSteeringRate
<1>6. QED
  BY <1>1, <1>5

(***************************************************************************)
(* MpcLoop takes for the first control of a solve whatever projectControls()*)
(* lets through, Project(raw, prev).  The first control of every result is  *)
(* of that form, with itself as the raw control: what is shown of the loop  *)
(* holds with this optimiser in it (mpc_solver.cpp:10-22, main.cpp:172-190).*)
(***************************************************************************)
FirstIsProjected == U # None => Project(U[1], problem.prev) = U[1]

THEOREM SolverFitsLoop ==
  ASSUME CostIsNumber
  PROVE  Spec => []FirstIsProjected
<1>1. SInv => FirstIsProjected
  <2> SUFFICES ASSUME SInv, U # None PROVE Project(U[1], problem.prev) = U[1]
    BY DEF FirstIsProjected
  <2>1. Follows(U) /\ problem.prev \in Controls
    BY ProblemsAssumption DEF SInv, ResultIsFeasible, SolverTypeOK
  <2>2. U[1] \in Controls /\ WithinRate(U[1].delta, problem.prev.delta)
    <3>1. 1 \in Steps
      BY SolverAssumption DEF Steps
    <3>2. QED
      BY <2>1, <3>1 DEF Follows, Sequences
  <2>3. QED
    BY <2>1, <2>2, ProjectKeepsFeasible
<1>2. QED
  BY <1>1, SolverInvariance, PTL
=============================================================================
