------------------------------ MODULE MCMpcLoop ------------------------------
(***************************************************************************)
(* Small instance of MpcLoop for TLC.                                       *)
(***************************************************************************)
EXTENDS MpcLoop

MCAccelMin == -1
MCFailAccel == -1

\* The corners of the box, values past them, and straight-and-coasting.
MCRawControls ==
  {[delta |-> d, accel |-> a] : d \in {-3, 0, 3}, a \in {-2, 0, 3}}
==============================================================================
