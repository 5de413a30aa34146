---------------------------- MODULE MCAxisReport ----------------------------
(***************************************************************************)
(* Model-checking instances of AxisReport, with three settings of the      *)
(* controller's registers and bytes of four bits: the whole sequence, and  *)
(* a cut of it, short enough for every way a surplus frame can derange it, *)
(* in which no two neighbours have answers of one shape.                   *)
(***************************************************************************)
EXTENDS AxisReport

MCSeqIDs == {"axisInfo", "mdEnable", "setupMotion", "execMotion"}

StepCounts(info) ==
  [s \in MCSeqIDs |-> CASE s = "axisInfo"    -> info
                        [] s = "mdEnable"    -> 1
                        [] s = "setupMotion" -> 2
                        [] s = "execMotion"  -> 3]

FullStepCount == StepCounts(29)

FewSteps == <<Model, CANBitrate, MotorDriver(1), MTState, AbsolutePosition>>
FewStepCount == StepCounts(5)

MCByteSize == 16

\* The registers, of what is said of the k-th byte of each.
Registers(Held(_, _)) ==
  [r \in Requests |-> [k \in 1..AnswerSize(StepAt(r).cmd) |-> Held(r, k)]]

\* Every byte another, without sign bits, a motor driver that is on and a
\* bitrate the controller knows; and all sign bits set.
Low(r, k)  == IF StepAt(r) \in {CANBitrate, MTState} THEN 1 ELSE (r + 3 * k) % 8
High(r, k) == 8 + ((r + 3 * k) % 8)

MCRegisterSets == {Registers(LAMBDA r, k : 0), Registers(Low), Registers(High)}

\* A motor that was moved backwards, its driver and its flags on.
MCMovedBack ==
  {Registers(LAMBDA r, k :
     IF StepAt(r) \in {RelativePosition, AbsolutePosition} THEN High(r, k) ELSE Low(r, k))}

\* Variables that happen to be zero, and others.
MCZeroed   == {[bytes \in 1..4 |-> 0]}
MCLeftover == {[bytes \in 1..4 |-> 2]}
MCGarbage  == MCZeroed \cup MCLeftover

\* A failed read, and a notification.
MCStrayPayloads == {<<>>, <<9, 9, 9>>}
=============================================================================
