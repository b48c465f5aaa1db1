------------------------------- MODULE MCPlanner -------------------------------
(***************************************************************************)
(* Planner with an hour of six units: delays from none to more than an     *)
(* hour, and limits on both sides of the crossover limit * delay = hour.   *)
(***************************************************************************)
EXTENDS Planner

SmallDelays == 0 .. 7
SmallLimits == 1 .. 5
SmallSenders == 1 .. 3
===============================================================================
