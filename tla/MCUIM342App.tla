----------------------------- MODULE MCUIM342App -----------------------------
(***************************************************************************)
(* Model-checking instances of UIM342App: the four sequences of the        *)
(* machine, with their real lengths or with axisInfo cut short.            *)
(***************************************************************************)
EXTENDS UIM342App

MCSeqIDs == {"axisInfo", "mdEnable", "setupMotion", "execMotion"}

StepCounts(info) ==
  [s \in MCSeqIDs |-> CASE s = "axisInfo"    -> info
                        [] s = "mdEnable"    -> 1
                        [] s = "setupMotion" -> 2
                        [] s = "execMotion"  -> 3]

\* UIM342AxisInfoSequence::initCmdSteps appends 29 steps.
FullStepCount == StepCounts(29)

\* Short enough to put every fault at every place of the exchange.
ShortStepCount == StepCounts(4)
=============================================================================
