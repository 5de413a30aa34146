---------------------------- MODULE MCAxisMotion ----------------------------
(***************************************************************************)
(* Model-checking instance of AxisMotion: the loop run never, as the code  *)
(* has it, once at the end, and behind every start, with a controller that *)
(* remembers an earlier target and speed.                                  *)
(***************************************************************************)
EXTENDS AxisMotion

MCSeqIDs == {"axisInfo", "mdEnable", "setupMotion", "execMotion"}

MCStepCount ==
  [s \in MCSeqIDs |-> IF s = "axisInfo" THEN 29 ELSE Len(MotionSteps[s])]

MCRunPlans == {{}, {4}, 1..4}

MCPowerOn == {[driver |-> FALSE, target |-> 7, speed |-> 7, moving |-> FALSE]}

\* Moving backwards.
MCIncrements == {-3}
=============================================================================
