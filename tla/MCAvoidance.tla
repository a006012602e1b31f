----------------------------- MODULE MCAvoidance -----------------------------
EXTENDS Avoidance

At(s, d) == [s |-> s, d |-> d]

\* Obstacles are registered at 10.  Candidates at the target speed see them at 11,
\* faster ones at 14 and slower ones at 8, so that on the way to an obstacle only
\* the slower ones are left for a while.
MCWorlds ==
  {<<At(13, d)>> : d \in -1..1} \cup
  {<<At(12, 1), At(15, 0)>>, <<At(12, 0), At(17, 0)>>}
MCStrangers == {At(15, 4)}

\* A row across the road.
MCBarredWorlds == {<<At(13, -3), At(13, 0), At(13, 3)>>}

MCDurations == {2, 3}
MCSteps == {-1, 0, 1}
==============================================================================
