-------------------------- MODULE AxisReportProofs --------------------------
(***************************************************************************)
(* Theorems about AxisReport: the report printed at the end of axisInfo is *)
(* whole when no surplus frame came, and untrue only where it is known to  *)
(* be; otherwise its gaps are no larger than their number allows.          *)
(***************************************************************************)
EXTENDS AxisReport, UIM342CommandProofs, SequenceTheorems

-----------------------------------------------------------------------------
(* The steps one by one.                                                   *)

SingleSteps ==
  {SerialNumber, Model, CANBitrate, CANNodeID, CANGroupID, MTState,
   RelativePosition, AbsolutePosition}

\* The steps of the program.
ProgramSteps ==
  SingleSteps
    \cup {InitialConfiguration(p) : p \in 0..7}
    \cup {InformationEnable(p) : p \in {0, 1, 2, 8}}
    \cup {QuadratureEncoder(p) : p \in 0..4}
    \cup {MotorDriver(p) : p \in 0..3}

(* Two sequences of elements of a set, one after the other.                *)
LEMMA Joined ==
  ASSUME NEW T, NEW a \in Seq(T), NEW b \in Seq(T)
  PROVE  a \o b \in Seq(T)
  OBVIOUS

(* The table has no other steps.                                           *)
LEMMA TableOfSteps == AxisInfoSteps \in Seq(ProgramSteps)
<1> DEFINE a == <<SerialNumber, Model, CANBitrate, CANNodeID, CANGroupID>>
           b == [p \in 1..8 |-> InitialConfiguration(p - 1)]
           c == [i \in 1..4 |-> InformationEnable(<<0, 1, 2, 8>>[i])]
           d == [p \in 1..5 |-> QuadratureEncoder(p - 1)]
           e == [p \in 1..4 |-> MotorDriver(p - 1)]
           g == <<MTState, RelativePosition, AbsolutePosition>>
<1>1. a \in Seq(ProgramSteps)
  BY DEF ProgramSteps, SingleSteps
<1>2. b \in Seq(ProgramSteps)
  <2>1. \A p \in 1..8 : b[p] \in ProgramSteps
    BY DEF ProgramSteps
  <2> QED
    BY <2>1
<1>3. c \in Seq(ProgramSteps)
  <2>1. \A i \in 1..4 : <<0, 1, 2, 8>>[i] \in {0, 1, 2, 8}
    OBVIOUS
  <2>2. \A i \in 1..4 : c[i] \in ProgramSteps
    BY <2>1 DEF ProgramSteps
  <2> QED
    BY <2>2
<1>4. d \in Seq(ProgramSteps)
  <2>1. \A p \in 1..5 : d[p] \in ProgramSteps
    BY DEF ProgramSteps
  <2> QED
    BY <2>1
<1>5. e \in Seq(ProgramSteps)
  <2>1. \A p \in 1..4 : e[p] \in ProgramSteps
    BY DEF ProgramSteps
  <2> QED
    BY <2>1
<1>6. g \in Seq(ProgramSteps)
  BY DEF ProgramSteps, SingleSteps
<1>7. AxisInfoSteps = ((((a \o b) \o c) \o d) \o e) \o g
  BY DEF AxisInfoSteps
<1> HIDE DEF a, b, c, d, e, g
<1>8. (a \o b) \o c \in Seq(ProgramSteps)
  BY <1>1, <1>2, <1>3, Joined
<1>9. (((a \o b) \o c) \o d) \o e \in Seq(ProgramSteps)
  BY <1>8, <1>4, <1>5, Joined
<1> QED
  BY <1>6, <1>7, <1>9, Joined

Forms == {"number", "int", "nonzero", "zero", "one", "false", "bitrate"}

\* A field of width bytes says in this form what it ought to, or is known not
\* to.
Apt(f, form, width) ==
  /\ form \in Forms
  /\ f \notin {"Model", "FirmwareVersion"}
  /\ f \in ByteFields <=> width = 1
  /\ \A n \in Nat : \/ Formed(form, n) = Truth(f, n)
                    \/ width # 1 /\ Formed(form, n) = KnownUntruth(f, n)

\* A step without a parameter, and one with; each stores the value it read.
Plain(step) ==
  \E f, form, width :
    /\ width \in {1, 4} /\ AnswerSize(step.cmd) = width
    /\ step.args = <<>> /\ step.reads = <<width>>
    /\ DOMAIN step.stores = {f} /\ step.stores[f] = From(1, form)
    /\ Apt(f, form, width)

WithParameter(step) ==
  \E p, f, form, width :
    /\ p \in 0..8 /\ width \in {1, 2} /\ AnswerSize(step.cmd) = width
    /\ step.args = <<p>> /\ step.reads = <<1, width>>
    /\ DOMAIN step.stores = {f} /\ step.stores[f] = From(2, form)
    /\ Apt(f, form, width)

(* Fields that say the number itself.                                      *)
LEMMA Numbers ==
  ASSUME NEW f, NEW width,
         \/ /\ f \in {"QE_LinesPerRevolutionOfEncoder", "QE_StallTolerance", "QE_SingleTurnBits",
                      "QE_CountsPerRevolution", "MT_MicrostepResolution", "MT_WorkingCurrent",
                      "MT_PercentIdleCurrentOverWorkingCurrent",
                      "MT_DelayAutomaticEnableAfterPowerOn"}
            /\ width = 2
         \/ f \in {"DeviceCANID", "GroupCANID"} /\ width = 1
  PROVE  Apt(f, "number", width)
<1>1. f \notin {"Model", "FirmwareVersion"} /\ (f \in ByteFields <=> width = 1)
  <2>1. CASE f \in {"DeviceCANID", "GroupCANID"}
    BY <2>1 DEF ByteFields
  <2>2. CASE width = 2
    <3>1. f \notin ByteFields
      BY <2>2 DEF ByteFields
    <3>2. f \notin {"Model", "FirmwareVersion"}
      BY <2>2
    <3> QED
      BY <2>2, <3>1, <3>2
  <2> QED
    BY <2>1, <2>2
<1>2. \A n \in Nat : Truth(f, n) = n /\ Formed("number", n) = n
  BY DEF Truth, Formed, EnableFlags, PositionFields
<1> QED
  BY <1>1, <1>2 DEF Apt, Forms

(* Fields of four bytes: one of an unsigned and one of a signed number says *)
(* the same as long as the sign bit is not set.                            *)
LEMMA Words ==
  ASSUME NEW f
  PROVE  /\ f = "SerialNumber" => Apt(f, "int", 4)
         /\ f \in PositionFields => Apt(f, "number", 4)
<1>1. CASE f = "SerialNumber"
  <2>1. \A n \in Nat : Truth(f, n) = n /\ Formed("int", n) = AsInt(n)
    BY <1>1 DEF Truth, Formed, EnableFlags, PositionFields
  <2>2. \A n \in Nat : KnownUntruth(f, n) = AsInt(n)
    <3>1. f \notin EnableFlags /\ f \notin PositionFields /\ f \notin ByteFields
      BY <1>1 DEF EnableFlags, PositionFields, ByteFields
    <3> QED
      BY <1>1, <3>1, Zenon DEF KnownUntruth
  <2>3. \A n \in Nat : Formed("int", n) = KnownUntruth(f, n)
    BY <2>1, <2>2, Zenon
  <2> QED
    BY <1>1, <2>3 DEF Apt, Forms, ByteFields, PositionFields
<1>2. CASE f \in PositionFields
  <2>1. \A n \in Nat : Truth(f, n) = AsInt(n) /\ Formed("number", n) = n
    BY <1>2 DEF Truth, Formed, EnableFlags, PositionFields
  <2>2. \A n \in Nat : KnownUntruth(f, n) = n
    <3>1. f \notin EnableFlags /\ f # "SerialNumber" /\ f \notin ByteFields
      BY <1>2 DEF EnableFlags, PositionFields, ByteFields
    <3> QED
      BY <1>2, <3>1, Zenon DEF KnownUntruth
  <2>3. \A n \in Nat : Formed("number", n) = KnownUntruth(f, n)
    BY <2>1, <2>2, Zenon
  <2> QED
    BY <1>2, <2>3 DEF Apt, Forms, ByteFields, PositionFields
<1> QED
  BY <1>1, <1>2

(* Fields that say whether the number is zero.                             *)
LEMMA Flags ==
  ASSUME NEW f
  PROVE  /\ f \in {"IC_MotorDriverOnAfterPowerIsOn", "IC_LockDownOnEStop",
                   "IC_ExecuteTheUserProgramAfterPowerIsOn", "IC_UnitsOfACAndDC",
                   "IC_EncoderType", "IC_ControlType", "IC_SoftwareLimit"}
           => Apt(f, "nonzero", 2)
         /\ f \in {"IC_PositiveMotorDirectionClockwise", "QE_BatteryStatusLow"}
           => Apt(f, "zero", 2)
         /\ f \in EnableFlags => Apt(f, "false", 2)
<1>1. CASE f \in {"IC_MotorDriverOnAfterPowerIsOn", "IC_LockDownOnEStop",
                  "IC_ExecuteTheUserProgramAfterPowerIsOn", "IC_UnitsOfACAndDC",
                  "IC_EncoderType", "IC_ControlType", "IC_SoftwareLimit"}
  <2>1. \A n \in Nat : Truth(f, n) = (n # 0) /\ Formed("nonzero", n) = (n # 0)
    BY <1>1 DEF Truth, Formed, EnableFlags, PositionFields
  <2> QED
    BY <1>1, <2>1 DEF Apt, Forms, ByteFields, EnableFlags
<1>2. CASE f \in {"IC_PositiveMotorDirectionClockwise", "QE_BatteryStatusLow"}
  <2>1. \A n \in Nat : Truth(f, n) = (n = 0) /\ Formed("zero", n) = (n = 0)
    BY <1>2 DEF Truth, Formed, EnableFlags, PositionFields
  <2> QED
    BY <1>2, <2>1 DEF Apt, Forms, ByteFields, EnableFlags
<1>3. CASE f \in EnableFlags
  <2>1. \A n \in Nat : Truth(f, n) = (n # 0) /\ Formed("false", n) = FALSE
    BY <1>3 DEF Truth, Formed, EnableFlags, PositionFields
  <2>2. \A n \in Nat : KnownUntruth(f, n) = FALSE
    <3>1. f \notin PositionFields /\ f # "SerialNumber" /\ f \notin ByteFields
      BY <1>3 DEF EnableFlags, PositionFields, ByteFields
    <3> QED
      BY <1>3, <3>1, Zenon DEF KnownUntruth
  <2>3. \A n \in Nat : Formed("false", n) = KnownUntruth(f, n)
    BY <2>1, <2>2
  <2>4. f \notin {"Model", "FirmwareVersion"} /\ f \notin ByteFields
    BY <1>3 DEF ByteFields, EnableFlags
  <2>5. Apt(f, "false", 2)
    BY <2>3, <2>4 DEF Apt, Forms
  <2> QED
    BY <1>3, <2>5 DEF EnableFlags
<1> QED
  BY <1>1, <1>2, <1>3 DEF EnableFlags

(* The motor's state and the bitrate.                                      *)
LEMMA Codes == Apt("MT_State", "one", 1) /\ Apt("Bitrate", "bitrate", 1)
<1>1. \A n \in Nat : Truth("MT_State", n) = (n = 1) /\ Formed("one", n) = (n = 1)
  BY DEF Truth, Formed, EnableFlags, PositionFields
<1>2. \A n \in Nat : Truth("Bitrate", n) = IF n \in 0..4 THEN Rates[n + 1] ELSE 0
  BY DEF Truth, EnableFlags, PositionFields, Rates
<1>3. \A n \in Nat : Formed("bitrate", n) = IF n < 5 THEN Rates[n + 1] ELSE 0
  <2>1. Len(Rates) = 5
    BY DEF Rates
  <2> QED
    BY <2>1 DEF Formed
<1>4. \A n \in Nat : n \in 0..4 <=> n < 5
  OBVIOUS
<1> QED
  BY <1>1, <1>2, <1>3, <1>4 DEF Apt, Forms, ByteFields, EnableFlags

(* The table holds what each step is to store.                             *)
LEMMA Rows ==
  ASSUME NEW step \in ProgramSteps
  PROVE  step = Model \/ Plain(step) \/ WithParameter(step)
<1>1. CASE step \in {SerialNumber, RelativePosition, AbsolutePosition}
  <2>1. Plain(SerialNumber)
    <3>1. Apt("SerialNumber", "int", 4)
      BY Words
    <3> QED
      BY <3>1 DEF Plain, SerialNumber, Step, AnswerSize
  <2>2. Plain(RelativePosition)
    <3>1. Apt("RelativePosition", "number", 4)
      BY Words DEF PositionFields
    <3> QED
      BY <3>1 DEF Plain, RelativePosition, Step, AnswerSize
  <2>3. Plain(AbsolutePosition)
    <3>1. Apt("AbsolutePosition", "number", 4)
      BY Words DEF PositionFields
    <3> QED
      BY <3>1 DEF Plain, AbsolutePosition, Step, AnswerSize
  <2> QED
    BY <1>1, <2>1, <2>2, <2>3
<1>2. CASE step \in {CANBitrate, CANNodeID, CANGroupID}
  <2>1. WithParameter(CANBitrate)
    BY Codes DEF WithParameter, CANBitrate, Step, AnswerSize
  <2>2. WithParameter(CANNodeID)
    <3>1. Apt("DeviceCANID", "number", 1)
      BY Numbers
    <3> QED
      BY <3>1 DEF WithParameter, CANNodeID, Step, AnswerSize
  <2>3. WithParameter(CANGroupID)
    <3>1. Apt("GroupCANID", "number", 1)
      BY Numbers
    <3> QED
      BY <3>1 DEF WithParameter, CANGroupID, Step, AnswerSize
  <2> QED
    BY <1>2, <2>1, <2>2, <2>3
<1>3. CASE step = MTState
  BY <1>3, Codes DEF Plain, MTState, Step, AnswerSize
<1>4. ASSUME NEW p \in 0..7 PROVE WithParameter(InitialConfiguration(p))
  <2> DEFINE stores == InitialConfigurationFields[p + 1]
  <2>1. \E f, form : DOMAIN stores = {f} /\ stores[f] = From(2, form) /\ Apt(f, form, 2)
    <3>1. CASE p = 0
      <4>1. stores = [IC_MotorDriverOnAfterPowerIsOn |-> From(2, "nonzero")]
        BY <3>1 DEF InitialConfigurationFields
      <4>2. Apt("IC_MotorDriverOnAfterPowerIsOn", "nonzero", 2)
        BY Flags
      <4> QED
        BY <4>1, <4>2
    <3>2. CASE p = 1
      <4>1. stores = [IC_PositiveMotorDirectionClockwise |-> From(2, "zero")]
        BY <3>2 DEF InitialConfigurationFields
      <4>2. Apt("IC_PositiveMotorDirectionClockwise", "zero", 2)
        BY Flags
      <4> QED
        BY <4>1, <4>2
    <3>3. CASE p = 2
      <4>1. stores = [IC_ExecuteTheUserProgramAfterPowerIsOn |-> From(2, "nonzero")]
        BY <3>3 DEF InitialConfigurationFields
      <4>2. Apt("IC_ExecuteTheUserProgramAfterPowerIsOn", "nonzero", 2)
        BY Flags
      <4> QED
        BY <4>1, <4>2
    <3>4. CASE p = 3
      <4>1. stores = [IC_LockDownOnEStop |-> From(2, "nonzero")]
        BY <3>4 DEF InitialConfigurationFields
      <4>2. Apt("IC_LockDownOnEStop", "nonzero", 2)
        BY Flags
      <4> QED
        BY <4>1, <4>2
    <3>5. CASE p = 4
      <4>1. stores = [IC_UnitsOfACAndDC |-> From(2, "nonzero")]
        BY <3>5 DEF InitialConfigurationFields
      <4>2. Apt("IC_UnitsOfACAndDC", "nonzero", 2)
        BY Flags
      <4> QED
        BY <4>1, <4>2
    <3>6. CASE p = 5
      <4>1. stores = [IC_EncoderType |-> From(2, "nonzero")]
        BY <3>6 DEF InitialConfigurationFields
      <4>2. Apt("IC_EncoderType", "nonzero", 2)
        BY Flags
      <4> QED
        BY <4>1, <4>2
    <3>7. CASE p = 6
      <4>1. stores = [IC_ControlType |-> From(2, "nonzero")]
        BY <3>7 DEF InitialConfigurationFields
      <4>2. Apt("IC_ControlType", "nonzero", 2)
        BY Flags
      <4> QED
        BY <4>1, <4>2
    <3>8. CASE p = 7
      <4>1. stores = [IC_SoftwareLimit |-> From(2, "nonzero")]
        BY <3>8 DEF InitialConfigurationFields
      <4>2. Apt("IC_SoftwareLimit", "nonzero", 2)
        BY Flags
      <4> QED
        BY <4>1, <4>2
    <3> QED
      BY <3>1, <3>2, <3>3, <3>4, <3>5, <3>6, <3>7, <3>8
  <2> QED
    BY <2>1 DEF WithParameter, InitialConfiguration, Step, AnswerSize
<1>5. ASSUME NEW p \in {0, 1, 2, 8} PROVE WithParameter(InformationEnable(p))
  <2>1. \E f : /\ f \in EnableFlags
               /\ DOMAIN InformationEnable(p).stores = {f}
               /\ InformationEnable(p).stores[f] = From(2, "false")
    BY DEF InformationEnable, Step, EnableFlags
  <2>2. InformationEnable(p).args = <<p>> /\ InformationEnable(p).reads = <<1, 2>>
        /\ AnswerSize(InformationEnable(p).cmd) = 2
    BY DEF InformationEnable, Step, AnswerSize
  <2> QED
    BY <2>1, <2>2, Flags DEF WithParameter
<1>6. ASSUME NEW p \in 0..4 PROVE WithParameter(QuadratureEncoder(p))
  <2> DEFINE stores == QuadratureEncoderFields[p + 1]
  <2>1. \E f, form : DOMAIN stores = {f} /\ stores[f] = From(2, form) /\ Apt(f, form, 2)
    <3>1. CASE p = 0
      <4>1. stores = [QE_LinesPerRevolutionOfEncoder |-> From(2, "number")]
        BY <3>1 DEF QuadratureEncoderFields
      <4>2. Apt("QE_LinesPerRevolutionOfEncoder", "number", 2)
        BY Numbers
      <4> QED
        BY <4>1, <4>2
    <3>2. CASE p = 1
      <4>1. stores = [QE_StallTolerance |-> From(2, "number")]
        BY <3>2 DEF QuadratureEncoderFields
      <4>2. Apt("QE_StallTolerance", "number", 2)
        BY Numbers
      <4> QED
        BY <4>1, <4>2
    <3>3. CASE p = 2
      <4>1. stores = [QE_SingleTurnBits |-> From(2, "number")]
        BY <3>3 DEF QuadratureEncoderFields
      <4>2. Apt("QE_SingleTurnBits", "number", 2)
        BY Numbers
      <4> QED
        BY <4>1, <4>2
    <3>4. CASE p = 3
      <4>1. stores = [QE_BatteryStatusLow |-> From(2, "zero")]
        BY <3>4 DEF QuadratureEncoderFields
      <4>2. Apt("QE_BatteryStatusLow", "zero", 2)
        BY Flags
      <4> QED
        BY <4>1, <4>2
    <3>5. CASE p = 4
      <4>1. stores = [QE_CountsPerRevolution |-> From(2, "number")]
        BY <3>5 DEF QuadratureEncoderFields
      <4>2. Apt("QE_CountsPerRevolution", "number", 2)
        BY Numbers
      <4> QED
        BY <4>1, <4>2
    <3> QED
      BY <3>1, <3>2, <3>3, <3>4, <3>5
  <2> QED
    BY <2>1 DEF WithParameter, QuadratureEncoder, Step, AnswerSize
<1>7. ASSUME NEW p \in 0..3 PROVE WithParameter(MotorDriver(p))
  <2> DEFINE stores == MotorDriverFields[p + 1]
  <2>1. \E f, form : DOMAIN stores = {f} /\ stores[f] = From(2, form) /\ Apt(f, form, 2)
    <3>1. CASE p = 0
      <4>1. stores = [MT_MicrostepResolution |-> From(2, "number")]
        BY <3>1 DEF MotorDriverFields
      <4>2. Apt("MT_MicrostepResolution", "number", 2)
        BY Numbers
      <4> QED
        BY <4>1, <4>2
    <3>2. CASE p = 1
      <4>1. stores = [MT_WorkingCurrent |-> From(2, "number")]
        BY <3>2 DEF MotorDriverFields
      <4>2. Apt("MT_WorkingCurrent", "number", 2)
        BY Numbers
      <4> QED
        BY <4>1, <4>2
    <3>3. CASE p = 2
      <4>1. stores = [MT_PercentIdleCurrentOverWorkingCurrent |-> From(2, "number")]
        BY <3>3 DEF MotorDriverFields
      <4>2. Apt("MT_PercentIdleCurrentOverWorkingCurrent", "number", 2)
        BY Numbers
      <4> QED
        BY <4>1, <4>2
    <3>4. CASE p = 3
      <4>1. stores = [MT_DelayAutomaticEnableAfterPowerOn |-> From(2, "number")]
        BY <3>4 DEF MotorDriverFields
      <4>2. Apt("MT_DelayAutomaticEnableAfterPowerOn", "number", 2)
        BY Numbers
      <4> QED
        BY <4>1, <4>2
    <3> QED
      BY <3>1, <3>2, <3>3, <3>4
  <2> QED
    BY <2>1 DEF WithParameter, MotorDriver, Step, AnswerSize
<1> QED
  BY <1>1, <1>2, <1>3, <1>4, <1>5, <1>6, <1>7 DEF ProgramSteps, SingleSteps

-----------------------------------------------------------------------------
(* What is read from an answer.                                            *)

Bytes == Seq(Byte)

(* The values of a byte are numbers, and parameters are among them.        *)
LEMMA ByteType ==
  /\ Byte \subseteq Nat /\ 0..8 \subseteq Byte
  /\ ByteSize \in Nat /\ ByteSize * 0 = 0 /\ \A n \in Nat : ByteSize * n \in Nat
  /\ Values[4] \in Nat
<1>1. ByteSize \in Nat /\ ByteSize > 8
  <2>1. ByteSize \in 9..256
    BY ReportAssumption, Zenon
  <2> QED
    BY <2>1
<1>2. \A m, n \in Nat : m * n \in Nat
  OBVIOUS
<1>3. ByteSize * ByteSize \in Nat
  BY <1>1, <1>2
<1>4. ByteSize * ByteSize * ByteSize \in Nat
  BY <1>1, <1>2, <1>3
<1>5. ByteSize * ByteSize * ByteSize * ByteSize \in Nat
  BY <1>1, <1>2, <1>4
<1>6. Values[4] \in Nat
  BY <1>5 DEF Values
<1>7. Byte \subseteq Nat /\ 0..8 \subseteq Byte
  BY <1>1 DEF Byte
<1>8. \A n \in Nat : n * 0 = 0
  OBVIOUS
<1> QED
  BY <1>1, <1>2, <1>6, <1>7, <1>8

(* An element of a sequence.                                               *)
LEMMA ElementType ==
  ASSUME NEW T, NEW s \in Seq(T), NEW i \in DOMAIN s
  PROVE  s[i] \in T
  OBVIOUS

(* Bits add up to a number.                                                *)
LEMMA OrByteType ==
  ASSUME NEW n \in Nat, NEW byte \in Nat
  PROVE  OrByte(n, byte) \in Nat
<1> DEFINE Lacks(power) == IF Bit(byte, power) = 1 /\ Bit(n, power) = 0 THEN power ELSE 0
<1>1. \A power \in Nat : Lacks(power) \in Nat
  OBVIOUS
<1> HIDE DEF Lacks
<1>2. n + Lacks(1) + Lacks(2) + Lacks(4) + Lacks(8)
        + Lacks(16) + Lacks(32) + Lacks(64) + Lacks(128) \in Nat
  BY <1>1
<1> QED
  BY <1>2 DEF OrByte, Lacks

(* And so do bytes.                                                        *)
LEMMA LittleEndianType ==
  ASSUME NEW bytes \in Bytes
  PROVE  LittleEndian(bytes) \in Nat
<1>0. \A i \in DOMAIN bytes : bytes[i] \in Byte
  BY ElementType, Zenon DEF Bytes
<1>1. \A i : ByteAt(bytes, i) \in Nat
  BY <1>0, ByteType DEF ByteAt
<1>2. \A m, n \in Nat : m + ByteSize * n \in Nat
  BY ByteType
<1>3. ByteAt(bytes, 3) + ByteSize * ByteAt(bytes, 4) \in Nat
  BY <1>1, <1>2
<1>4. ByteAt(bytes, 2) + ByteSize * (ByteAt(bytes, 3) + ByteSize * ByteAt(bytes, 4)) \in Nat
  BY <1>1, <1>2, <1>3
<1> QED
  BY <1>1, <1>2, <1>4 DEF LittleEndian

(* A part of a sequence.                                                   *)
LEMMA Part ==
  ASSUME NEW T, NEW s \in Seq(T), NEW m \in Nat, NEW n \in Nat, 1 <= m, n <= Len(s)
  PROVE  /\ SubSeq(s, m, n) \in Seq(T)
         /\ Len(SubSeq(s, m, n)) = IF m <= n THEN n - m + 1 ELSE 0
         /\ \A i \in 1..(n - m + 1) : SubSeq(s, m, n)[i] = s[m + i - 1]
  OBVIOUS

(* What is read is a number, what is left are bytes.                       *)
LEMMA ReadTypes ==
  ASSUME garbage \in [1..4 -> Nat], NEW rest \in Bytes, NEW width \in 1..4
  PROVE  ReadValue(rest, width) \in Nat /\ AfterRead(rest, width) \in Bytes
<1>1. Len(rest) \in Nat /\ rest \in Seq(Byte) /\ DOMAIN rest = 1..Len(rest)
  BY DEF Bytes
<1>2. CASE Len(rest) < width
  BY <1>2 DEF ReadValue, AfterRead
<1>3. CASE width <= Len(rest)
  <2>1. rest[1] \in Nat
    <3>1. 1 \in DOMAIN rest
      BY <1>1, <1>3
    <3>2. rest[1] \in Byte
      BY <1>1, <3>1, ElementType, Zenon
    <3> QED
      BY <3>2, ByteType
  <2>2. SubSeq(rest, 1, width) \in Bytes /\ SubSeq(rest, width + 1, Len(rest)) \in Bytes
    <3>1. 1 \in Nat /\ width \in Nat /\ width + 1 \in Nat /\ 1 <= width + 1
          /\ Len(rest) <= Len(rest)
      BY <1>1
    <3>2. SubSeq(rest, 1, width) \in Seq(Byte)
      BY ONLY <1>1, <1>3, <3>1, Part, SMTT(30)
    <3>3. SubSeq(rest, width + 1, Len(rest)) \in Seq(Byte)
      BY ONLY <1>1, <3>1, Part, ZenonT(40)
    <3> QED
      BY <3>2, <3>3 DEF Bytes
  <2> QED
    BY <1>1, <1>3, <2>1, <2>2, OrByteType, LittleEndianType DEF ReadValue, AfterRead
<1> QED
  BY <1>1, <1>2, <1>3

(* What is stored is a number or one of two wordings.                      *)
LEMMA FormedType ==
  ASSUME NEW form \in Forms, NEW n \in Nat
  PROVE  Formed(form, n) \in Int \cup BOOLEAN
<1>1. CASE form \in {"number", "int"}
  <2>1. AsInt(n) \in Int
    BY ByteType DEF AsInt
  <2> QED
    BY <1>1, <2>1 DEF Formed
<1>2. CASE form \in {"nonzero", "zero", "one", "false"}
  BY <1>2 DEF Formed
<1>3. CASE form = "bitrate"
  <2>1. Len(Rates) = 5 /\ \A i \in 1..5 : Rates[i] \in Nat
    BY DEF Rates
  <2>2. n < 5 => n + 1 \in 1..5
    OBVIOUS
  <2> QED
    BY <1>3, <2>1, <2>2 DEF Formed
<1> QED
  BY <1>1, <1>2, <1>3 DEF Forms

(* Where the reads of a step are.                                          *)
LEMMA Positions ==
  ASSUME NEW step \in ProgramSteps, NEW f \in DOMAIN step.stores
  PROVE  /\ step.stores[f].form \in Forms
         /\ \/ step.stores[f].position = 1 /\ step.reads[1] \in 1..4
            \/ /\ step.stores[f].position = 2
               /\ step.reads[1] \in 1..4 /\ step.reads[2] \in 1..4
            \/ /\ step.stores[f].position = 3
               /\ step.reads[1] \in 1..4 /\ step.reads[2] \in 1..4 /\ step.reads[3] \in 1..4
<1>1. CASE step = Model
  BY <1>1 DEF Model, Step, From, Forms
<1>2. CASE Plain(step)
  BY <1>2 DEF Plain, Apt, From
<1>3. CASE WithParameter(step)
  BY <1>3 DEF WithParameter, Apt, From
<1> QED
  BY <1>1, <1>2, <1>3, Rows

(* Whatever the frame, a field stored says something.                      *)
LEMMA FieldType ==
  ASSUME garbage \in [1..4 -> Nat], NEW step \in ProgramSteps, NEW f \in DOMAIN step.stores,
         NEW payload \in Bytes
  PROVE  FieldOf(step, payload, f) \in Int \cup BOOLEAN
<1> DEFINE pos == step.stores[f].position
           form == step.stores[f].form
           v == ReadValue(LeftFor(pos, step.reads, payload), step.reads[pos])
<1>1. v \in Nat
  <2>1. CASE pos = 1 /\ step.reads[1] \in 1..4
    BY <2>1, ReadTypes DEF LeftFor
  <2>2. CASE pos = 2 /\ step.reads[1] \in 1..4 /\ step.reads[2] \in 1..4
    <3>1. AfterRead(payload, step.reads[1]) \in Bytes
      BY <2>2, ReadTypes
    <3>2. LeftFor(pos, step.reads, payload) = AfterRead(payload, step.reads[1])
      BY <2>2 DEF LeftFor
    <3> QED
      BY <2>2, <3>1, <3>2, ReadTypes
  <2>3. CASE /\ pos = 3 /\ step.reads[1] \in 1..4 /\ step.reads[2] \in 1..4
             /\ step.reads[3] \in 1..4
    <3>1. AfterRead(payload, step.reads[1]) \in Bytes
      BY <2>3, ReadTypes
    <3>2. AfterRead(AfterRead(payload, step.reads[1]), step.reads[2]) \in Bytes
      BY <2>3, <3>1, ReadTypes
    <3>3. LeftFor(pos, step.reads, payload)
            = AfterRead(AfterRead(payload, step.reads[1]), step.reads[2])
      BY <2>3 DEF LeftFor
    <3> QED
      BY <2>3, <3>2, <3>3, ReadTypes
  <2> QED
    BY <2>1, <2>2, <2>3, Positions
<1>2. FieldOf(step, payload, f) = Formed(form, v)
  BY DEF FieldOf
<1> HIDE DEF v
<1> QED
  BY <1>1, <1>2, FormedType, Positions

-----------------------------------------------------------------------------
(* What a field says of its own answer.                                    *)

(* A value of one byte.                                                    *)
LEMMA OneByte ==
  ASSUME NEW b, ByteAt(b, 1) \in Nat,
         ByteAt(b, 2) = 0, ByteAt(b, 3) = 0, ByteAt(b, 4) = 0
  PROVE  LittleEndian(b) = ByteAt(b, 1)
  BY ByteType DEF LittleEndian

(* A read that takes all there is.                                         *)
LEMMA ReadsAll ==
  ASSUME NEW b \in Bytes, NEW width \in {1, 2, 4}, Len(b) = width
  PROVE  ReadValue(b, width) = IF width = 1 THEN OrByte(garbage[1], LittleEndian(b))
                                            ELSE LittleEndian(b)
<1>0. b \in Seq(Byte) /\ DOMAIN b = 1..width
  BY DEF Bytes
<1>1. CASE width = 1
  <2>1. b[1] \in Nat
    <3>1. 1 \in DOMAIN b
      BY <1>0, <1>1
    <3>2. b[1] \in Byte
      BY <1>0, <3>1, ElementType, Zenon
    <3> QED
      BY <3>2, ByteType
  <2>2. LittleEndian(b) = b[1]
    <3>1. /\ ByteAt(b, 1) = b[1] /\ ByteAt(b, 2) = 0
          /\ ByteAt(b, 3) = 0 /\ ByteAt(b, 4) = 0
      BY <1>0, <1>1 DEF ByteAt
    <3>4. LittleEndian(b) = ByteAt(b, 1)
      BY <2>1, <3>1, OneByte
    <3> QED
      BY <3>1, <3>4
  <2> QED
    BY <1>1, <2>2 DEF ReadValue
<1>2. CASE width # 1
  <2>1. SubSeq(b, 1, width) = b
    BY <1>0, SubSeqFull
  <2>2. ~(Len(b) < width)
    OBVIOUS
  <2> QED
    BY <1>2, <2>1, <2>2, Zenon DEF ReadValue
<1> QED
  BY <1>1, <1>2

(* The parameter goes first.                                               *)
LEMMA AfterParameter ==
  ASSUME NEW b \in Bytes, Len(b) \in Nat \ {0}, NEW p \in 0..8
  PROVE  AfterRead(<<p>> \o b, 1) = b
<1>1. b \in Seq(Byte) /\ <<p>> \in Seq(Byte) /\ Len(<<p>>) = 1
  BY ByteType DEF Bytes
<1> DEFINE s == <<p>>
<1>2. Len(s \o b) = Len(b) + 1
  BY <1>1, ConcatProperties
<1> HIDE DEF s
<1>3. SubSeq(s \o b, 2, Len(b) + 1) = SubSeq(b, 2 - 1, Len(b) + 1 - 1)
  <2>1. 2 \in Len(s) + 1..Len(s) + Len(b) /\ Len(b) + 1 \in Len(s) + 1..Len(s) + Len(b)
    BY <1>1 DEF s
  <2> QED
    BY <1>1, <2>1, SubSeqOfConcat2 DEF s
<1>4. SubSeq(b, 1, Len(b)) = b
  BY <1>1, SubSeqFull
<1>5. 2 - 1 = 1 /\ Len(b) + 1 - 1 = Len(b) /\ 1 + 1 = 2 /\ ~(Len(b) + 1 < 1)
  OBVIOUS
<1>6. AfterRead(s \o b, 1) = b
  BY <1>2, <1>3, <1>4, <1>5 DEF AfterRead
<1> QED
  BY <1>6 DEF s

(* The end of a sequence.                                                  *)
LEMMA End ==
  ASSUME NEW T, NEW s \in Seq(T), NEW m \in Nat, NEW n \in Nat, 1 <= m, m <= n, n = Len(s)
  PROVE  SubSeq(s, m, n) \in Seq(T) /\ Len(SubSeq(s, m, n)) = n - m + 1
  BY Part

(* The answer about the model is three bytes, one unused, and two more.    *)
LEMMA ModelRead ==
  ASSUME NEW b \in Bytes, Len(b) = 6
  PROVE  /\ ReadValue(b, 3) = LittleEndian(SubSeq(b, 1, 3))
         /\ ReadValue(AfterRead(AfterRead(b, 3), 1), 2) = LittleEndian(SubSeq(b, 5, 6))
<1>0. b \in Seq(Byte)
  BY DEF Bytes
<1> DEFINE c == SubSeq(b, 4, 6)
           d == SubSeq(b, 5, 6)
<1>1. c \in Seq(Byte) /\ Len(c) = 3 /\ d \in Seq(Byte) /\ Len(d) = 2
  <2>1. 4 \in Nat /\ 5 \in Nat /\ 6 \in Nat /\ 1 <= 4 /\ 1 <= 5 /\ 4 <= 6 /\ 5 <= 6
    OBVIOUS
  <2>2. 6 = Len(b)
    OBVIOUS
  <2>3. /\ c \in Seq(Byte) /\ Len(c) = 6 - 4 + 1
        /\ d \in Seq(Byte) /\ Len(d) = 6 - 5 + 1
    <3>1. \A m, n \in Nat : 1 <= m /\ m <= n /\ n = Len(b) =>
            SubSeq(b, m, n) \in Seq(Byte) /\ Len(SubSeq(b, m, n)) = n - m + 1
      BY ONLY <1>0, End
    <3> QED
      BY <2>1, <2>2, <3>1
  <2> QED
    BY <2>3
<1>2. AfterRead(b, 3) = c
  BY DEF AfterRead
<1>3. AfterRead(c, 1) = SubSeq(c, 2, 3)
  BY <1>1 DEF AfterRead
<1>4. SubSeq(c, 2, 3) = SubSeq(b, 4 + 2 - 1, 4 + 3 - 1)
  <2>1. 4 \in 1..Len(b) /\ 6 \in 1..Len(b) /\ 2 \in 1..(6 - 4 + 1) /\ 3 \in 1..(6 - 4 + 1)
    OBVIOUS
  <2> QED
    BY <1>0, <2>1, SubSeqOfSubSeq
<1>5. 4 + 2 - 1 = 5 /\ 4 + 3 - 1 = 6
  OBVIOUS
<1>6. AfterRead(c, 1) = d
  BY <1>3, <1>4, <1>5
<1> HIDE DEF c, d
<1>7. ReadValue(d, 2) = LittleEndian(d)
  BY <1>1, ReadsAll DEF Bytes
<1>8. ReadValue(b, 3) = LittleEndian(SubSeq(b, 1, 3))
  BY DEF ReadValue
<1> QED
  BY <1>2, <1>6, <1>7, <1>8 DEF d

(* A step given the answer to its own request stores in each field what it *)
(* ought to say, or is known not to.                                       *)
LEMMA FieldTrue ==
  ASSUME garbage \in [1..4 -> Nat], NEW step \in ProgramSteps, NEW f \in DOMAIN step.stores,
         NEW b \in Bytes, Len(b) = AnswerSize(step.cmd)
  PROVE  \/ FieldOf(step, step.args \o b, f) = Truth(f, NumberIn(b, f))
         \/ FieldOf(step, step.args \o b, f) = KnownUntruth(f, NumberIn(b, f))
<1> DEFINE n == NumberIn(b, f)
           stored == FieldOf(step, step.args \o b, f)
<1>0. b \in Seq(Byte) /\ <<>> \o b = b /\ LittleEndian(b) \in Nat
  BY ConcatEmptySeq, LittleEndianType DEF Bytes
(* Where one value is read that takes the rest of the answer.              *)
<1>a. ASSUME NEW form, NEW width \in {1, 2, 4}, Apt(f, form, width), Len(b) = width,
             stored = Formed(form, ReadValue(b, width))
      PROVE  stored = Truth(f, n) \/ stored = KnownUntruth(f, n)
  <2>1. n = LittleEndian(b) /\ n \in Nat
    BY <1>0, <1>a DEF Apt, NumberIn
  <2>2. ReadValue(b, width) = IF width = 1 THEN OrByte(garbage[1], n) ELSE n
    BY <1>a, <2>1, ReadsAll
  <2>3. CASE width = 1
    <3> DEFINE m == OrByte(garbage[1], n)
    <3>1. /\ f \in ByteFields /\ f \notin EnableFlags
          /\ f \notin PositionFields /\ f # "SerialNumber"
      BY <1>a, <2>3 DEF Apt, ByteFields, EnableFlags, PositionFields
    <3>2. m \in Nat
      <4>1. garbage[1] \in Nat
        OBVIOUS
      <4> HIDE DEF n
      <4> QED
        BY <2>1, <4>1, OrByteType
    <3>3. Formed(form, m) = Truth(f, m)
      BY <1>a, <2>3, <3>2 DEF Apt
    <3>4. KnownUntruth(f, n) = Truth(f, m)
      BY <3>1 DEF KnownUntruth
    <3> HIDE DEF n, m, stored
    <3> QED
      BY <1>a, <2>2, <2>3, <3>3, <3>4, Zenon DEF m
  <2>4. CASE width # 1
    <3>1. Formed(form, n) = Truth(f, n) \/ Formed(form, n) = KnownUntruth(f, n)
      BY <1>a, <2>1 DEF Apt
    <3> HIDE DEF n, stored
    <3> QED
      BY <1>a, <2>2, <2>4, <3>1, Zenon
  <2> QED
    BY <2>3, <2>4
<1>1. CASE Plain(step)
  <2>1. PICK form, width : /\ width \in {1, 4} /\ step.args = <<>> /\ step.reads = <<width>>
                           /\ step.stores[f] = From(1, form) /\ Apt(f, form, width)
                           /\ AnswerSize(step.cmd) = width
    BY <1>1 DEF Plain
  <2>2. Len(b) = width
    BY <2>1
  <2>3. FieldOf(step, step.args \o b, f) = Formed(form, ReadValue(b, width))
    BY <1>0, <2>1 DEF FieldOf, From, LeftFor
  <2> QED
    BY <1>a, <2>1, <2>2, <2>3
<1>2. CASE WithParameter(step)
  <2>1. PICK p, form, width : /\ p \in 0..8 /\ width \in {1, 2}
                              /\ step.args = <<p>> /\ step.reads = <<1, width>>
                              /\ step.stores[f] = From(2, form) /\ Apt(f, form, width)
                              /\ AnswerSize(step.cmd) = width
    <3>1. PICK p, g, form, width :
            /\ p \in 0..8 /\ width \in {1, 2}
            /\ step.args = <<p>> /\ step.reads = <<1, width>>
            /\ DOMAIN step.stores = {g} /\ step.stores[g] = From(2, form)
            /\ Apt(g, form, width) /\ AnswerSize(step.cmd) = width
      BY <1>2, Zenon DEF WithParameter
    <3>2. g = f
      BY <3>1
    <3> QED
      BY <3>1, <3>2, Zenon
  <2>2. Len(b) = width
    BY <2>1
  <2>3. AfterRead(step.args \o b, 1) = b
    <3>1. Len(b) \in Nat \ {0}
      BY <2>1, <2>2
    <3> QED
      BY <2>1, <3>1, AfterParameter, Zenon
  <2>4. FieldOf(step, step.args \o b, f) = Formed(form, ReadValue(b, width))
    BY <2>1, <2>3 DEF FieldOf, From, LeftFor
  <2> QED
    BY <1>a, <2>1, <2>2, <2>4
<1>3. CASE step = Model
  <2>1. /\ step.args = <<>> /\ step.reads = <<3, 1, 2>> /\ Len(b) = 6
        /\ DOMAIN step.stores = {"Model", "FirmwareVersion"}
        /\ step.stores["Model"] = From(1, "number")
        /\ step.stores["FirmwareVersion"] = From(3, "number")
    BY <1>3 DEF Model, Step, AnswerSize
  <2>2. /\ ReadValue(b, 3) = LittleEndian(SubSeq(b, 1, 3))
        /\ ReadValue(AfterRead(AfterRead(b, 3), 1), 2) = LittleEndian(SubSeq(b, 5, 6))
    BY <2>1, ModelRead
  <2>3. Truth(f, n) = n
    BY <2>1 DEF Truth, EnableFlags, PositionFields
  <2> HIDE DEF n
  <2>5. CASE f = "Model"
    <3>1. FieldOf(step, step.args \o b, f) = ReadValue(b, 3)
      <4>1. /\ step.args \o b = b
            /\ step.stores[f].position = 1 /\ step.stores[f].form = "number"
            /\ step.reads[1] = 3 /\ step.reads[2] = 1 /\ step.reads[3] = 2
        BY <1>0, <2>1, <2>5 DEF From
      <4>2. FieldOf(step, b, f) = Formed("number", ReadValue(b, 3))
        BY <4>1 DEF FieldOf, LeftFor
      <4> QED
        BY <4>1, <4>2 DEF Formed
    <3>2. NumberIn(b, f) = LittleEndian(SubSeq(b, 1, 3))
      BY <2>5 DEF NumberIn
    <3> QED
      BY <2>2, <2>3, <3>1, <3>2 DEF n
  <2>6. CASE f = "FirmwareVersion"
    <3>1. FieldOf(step, step.args \o b, f) = ReadValue(AfterRead(AfterRead(b, 3), 1), 2)
      <4>1. /\ step.args \o b = b
            /\ step.stores[f].position = 3 /\ step.stores[f].form = "number"
            /\ step.reads[1] = 3 /\ step.reads[2] = 1 /\ step.reads[3] = 2
        BY <1>0, <2>1, <2>6 DEF From
      <4>2. FieldOf(step, b, f) = Formed("number", ReadValue(AfterRead(AfterRead(b, 3), 1), 2))
        BY <4>1 DEF FieldOf, LeftFor
      <4> QED
        BY <4>1, <4>2 DEF Formed
    <3>2. NumberIn(b, f) = LittleEndian(SubSeq(b, 5, 6))
      BY <2>6 DEF NumberIn
    <3> QED
      BY <2>2, <2>3, <3>1, <3>2 DEF n
  <2> QED
    BY <2>1, <2>5, <2>6
<1> QED
  BY <1>1, <1>2, <1>3, Rows

-----------------------------------------------------------------------------
(* The report does not disturb the program.                                *)

(* A step with the report is a step of the program, or none.               *)
LEMMA ReportSteps == [ReportNext]_<<vars, reportVars>> => [Next]_vars
<1>1. StartReport => Next
  BY DEF StartReport, Next, MainStep
<1>2. StoreResults => Next
  BY DEF StoreResults, Next, LoopStep
<1>3. PrintResults => Next
  BY DEF PrintResults, Next, LoopStep
<1>4. ConfigureCall \/ InitCall \/ RegisterPendingCall \/ RegisterBusCall \/ RunCall
        \/ Wait \/ Interrupted \/ Quit \/ Answer \/ BusFault \/ Halted => Next
  BY DEF Next, MainStep, LoopStep
<1> QED
  BY <1>1, <1>2, <1>3, <1>4, Zenon DEF ReportNext

(* The runs of the program with its report are runs of the program, so what *)
(* is proved of UIM342App holds of them.                                   *)
THEOREM ReportIsProgram == ReportSpec => Spec
<1>1. ReportInit => Init
  BY DEF ReportInit
<1> QED
  BY <1>1, ReportSteps, PTL DEF ReportSpec, Spec

-----------------------------------------------------------------------------
(* How far apart the steps credited with a frame are.                      *)

\* The steps credited with a frame.
CreditedIn(pairs) == {pairs[i][1] : i \in DOMAIN pairs}

Credited == CreditedIn(answers)

\* The last of them.
LastCredited == answers[Len(answers)][1]

(* While no frame came, only the first step can be under way.  A frame may *)
(* leave a step credited, and surplus wake-ups carry the index on: with all *)
(* of them used up it is at most one more than their number ahead of the   *)
(* last step credited.  So the credited ones are that close.               *)
FirstStep ==
  SP!Running /\ answers = <<>> =>
    /\ exec.stepIndex = 0
    /\ pending <= SP!Need
    /\ \/ exec.seqState = "INIT" /\ ~exec.stepActive
       \/ /\ exec.seqState = "EXECUTING" /\ exec.stepActive
          /\ exec.stepState \in {"READY", "WAITRSP", "ERROR"}

Ahead(index, wakeups, last, credited, surplus) ==
  /\ \A c \in credited : c <= last
  /\ last <= index
  /\ last <= (Cardinality(credited) - 1) * (surplus + 1)
  /\ wakeups + index <= last + surplus + 1

LaterSteps ==
  SP!Running /\ answers # <<>> =>
    /\ exec.stepIndex < StepCount["axisInfo"]
    /\ Ahead(exec.stepIndex, pending, LastCredited, Credited, Surplus)

CreditInv ==
  /\ ToStart => pending = 0
  /\ Credited \subseteq 0..(StepCount["axisInfo"] - 1)
  /\ FirstStep
  /\ LaterSteps
  /\ completed # <<>> => StepCount["axisInfo"] <= Cardinality(Credited) * (Surplus + 1)

(* The arithmetic of it.                                                   *)
LEMMA GapArithmetic ==
  ASSUME NEW n \in Nat, NEW s \in Nat, NEW t \in Nat, s <= t
  PROVE  /\ n * (s + 1) \in Nat
         /\ n * (s + 1) <= n * (t + 1)
         /\ n * (s + 1) + (s + 1) = (n + 1) * (s + 1)
<1>1. n * (s + 1) \in Nat /\ n * (s + 1) + (s + 1) = (n + 1) * (s + 1)
  OBVIOUS
<1>2. n * (s + 1) <= n * (t + 1)
  <2>1. t + 1 = (s + 1) + (t - s) /\ t - s \in Nat
    OBVIOUS
  <2>2. \A a, b \in Nat : n * (a + b) = n * a + n * b /\ n * a \in Nat /\ n * b \in Nat
    OBVIOUS
  <2>3. n * (t + 1) = n * (s + 1) + n * (t - s) /\ n * (t - s) \in Nat /\ n * (s + 1) \in Nat
    <3>1. s + 1 \in Nat
      OBVIOUS
    <3> QED
      BY <2>1, <2>2, <3>1
  <2> QED
    BY <2>3
<1> QED
  BY <1>1, <1>2

(* One step further.                                                        *)
LEMMA GapReached ==
  ASSUME NEW n \in Nat, NEW s \in Nat, NEW k \in Nat, NEW w \in Nat, NEW last \in Nat,
         last <= n * (s + 1), w + k <= last + s + 1
  PROVE  w + k <= (n + 1) * (s + 1)
<1> DEFINE x == n * (s + 1)
           y == (n + 1) * (s + 1)
<1>1. x \in Nat /\ x + (s + 1) = y
  BY GapArithmetic
<1>2. last <= x
  OBVIOUS
<1> HIDE DEF x, y
<1>3. w + k <= y
  BY <1>1, <1>2
<1> QED
  BY <1>3 DEF y

(* More steps make more.                                                   *)
LEMMA ProductGrows ==
  ASSUME NEW a \in Nat, NEW b \in Nat, NEW s \in Nat, a <= b
  PROVE  a * (s + 1) <= b * (s + 1) /\ a * (s + 1) \in Nat /\ b * (s + 1) \in Nat
<1>1. b = a + (b - a) /\ b - a \in Nat /\ s + 1 \in Nat
  OBVIOUS
<1>2. \A m \in Nat, u, v \in Nat :
        (u + v) * m = u * m + v * m /\ u * m \in Nat /\ v * m \in Nat
  OBVIOUS
<1>3. b * (s + 1) = a * (s + 1) + (b - a) * (s + 1)
      /\ a * (s + 1) \in Nat /\ (b - a) * (s + 1) \in Nat
  BY <1>1, <1>2
<1> QED
  BY <1>3

(* A frame credits one step.                                               *)
LEMMA OneMoreCredited ==
  ASSUME NEW S, NEW a \in Seq(S), NEW e \in S
  PROVE  CreditedIn(Append(a, e)) = CreditedIn(a) \cup {e[1]}
<1>1. /\ DOMAIN a = 1..Len(a) /\ Len(a) \in Nat
      /\ DOMAIN Append(a, e) = 1..(Len(a) + 1)
  BY OneMore
<1>2. /\ \A i \in DOMAIN a : i \in DOMAIN Append(a, e) /\ Append(a, e)[i] = a[i]
      /\ Len(a) + 1 \in DOMAIN Append(a, e) /\ Append(a, e)[Len(a) + 1] = e
      /\ \A i \in DOMAIN Append(a, e) : i \in DOMAIN a \/ i = Len(a) + 1
  BY <1>1, OneMore
<1> QED
  BY ONLY <1>2, Zenon DEF CreditedIn

(* The credited steps are finitely many.                                   *)
LEMMA CreditedTypes ==
  ASSUME RestTypes
  PROVE  /\ Credited \subseteq Nat
         /\ IsFiniteSet(Credited) /\ Cardinality(Credited) \in Nat
         /\ answers = <<>> => Credited = {}
         /\ answers # <<>> => /\ LastCredited \in Credited
                              /\ Cardinality(Credited) - 1 \in Nat
<1> DEFINE steps == [i \in DOMAIN answers |-> answers[i][1]]
<1>1. answers \in Seq(Nat \X (Nat \cup {NoRequest}))
  BY DEF RestTypes
<1>2. DOMAIN answers = 1..Len(answers) /\ Len(answers) \in Nat
      /\ \A i \in DOMAIN answers : answers[i] \in Nat \X (Nat \cup {NoRequest})
  BY <1>1
<1>3. steps \in Seq(Nat)
  <2>1. \A i \in DOMAIN answers : answers[i][1] \in Nat
    BY <1>2
  <2> QED
    BY <1>2, <2>1
<1>4. Credited = Range(steps)
  BY Zenon DEF Credited, CreditedIn, Range
<1>5. Credited \subseteq Nat
  BY <1>2 DEF Credited, CreditedIn
<1>6. IsFiniteSet(Credited) /\ Cardinality(Credited) \in Nat
  BY <1>3, <1>4, RangeSize, FS_CardinalityType
<1>7. ASSUME answers # <<>>
      PROVE  LastCredited \in Credited /\ Cardinality(Credited) - 1 \in Nat
  <2>1. Len(answers) \in DOMAIN answers
    BY <1>1, <1>7
  <2>2. LastCredited \in Credited
    BY <2>1 DEF LastCredited, Credited, CreditedIn
  <2>3. Cardinality(Credited) # 0
    BY <1>6, <2>2, FS_EmptySet
  <2> QED
    BY <1>6, <2>2, <2>3
<1>8. answers = <<>> => Credited = {}
  BY DEF Credited, CreditedIn
<1> QED
  BY <1>5, <1>6, <1>7, <1>8

(* Steps made with a wake-up each, and more surplus frames, do not break it. *)
LEMMA AheadKept ==
  ASSUME NEW i \in Nat, NEW w \in Nat, NEW c, NEW last \in Nat, Cardinality(c) - 1 \in Nat,
         NEW s \in Nat, NEW t \in Nat, s <= t, Ahead(i, w, last, c, s),
         NEW j \in Nat, NEW v \in Nat, i <= j, v + j <= w + i
  PROVE  Ahead(j, v, last, c, t)
<1> DEFINE n == Cardinality(c) - 1
<1>1. n * (s + 1) \in Nat /\ n * (t + 1) \in Nat /\ n * (s + 1) <= n * (t + 1)
  BY GapArithmetic
<1>2. last <= n * (s + 1)
  BY DEF Ahead
<1>3. last <= n * (t + 1)
  <2> HIDE DEF n
  <2> QED
    BY <1>1, <1>2
<1> QED
  BY <1>3 DEF Ahead

(* The sizes in the account of the frames in flight.                       *)
FlightSizes == SP!Need + Waiting \in {0, 1} /\ InFlight \in Nat

(* They are numbers wherever the types are right.                          *)
LEMMA FlightSized == CoreInv => FlightSizes
  BY FlightTypes DEF FlightSizes

(* What holds in general before a step of axisInfo.                        *)
InfoInv == LagInv /\ OnceInv

(* The types it gives on both sides of a step.                             *)
LEMMA InfoTypes ==
  ASSUME InfoInv, InfoInv', [Next]_vars
  PROVE  /\ TypeInv /\ CoreInv /\ RestTypes /\ RestTypes' /\ CoreInv'
         /\ Surplus \in Nat /\ Surplus' \in Nat /\ Surplus <= Surplus'
         /\ pending \in Nat /\ pending' \in Nat
         /\ exec \in SP!Executions /\ exec.stepIndex \in Nat
         /\ curSeq \in SeqIDs \cup {NoSeq, Wild}
         /\ SP!Need \in {0, 1} /\ (ToStart' => ToStart)
<1>1. TypeInv /\ CoreInv /\ CoreInv'
  <2>1. TypeInv /\ TypeInv'
    BY DEF InfoInv, LagInv, FlightInv
  <2>2. TypeInv' => CoreInv'
    BY TypesHaveCore, PTL
  <2> QED
    BY <2>1, <2>2, TypesHaveCore
<1>2. Surplus \in Nat /\ Surplus' \in Nat /\ Surplus <= Surplus'
  BY <1>1, FlightTypes, SurplusGrows
<1>3. SP!Need \in {0, 1}
  BY DEF SP!Need
<1>4. ToStart' => ToStart
  BY <1>1, NextOneStart DEF InfoInv, OnceInv, TypeInv
<1> QED
  BY <1>1, <1>2, <1>3, <1>4 DEF CoreInv, SP!TypeOK, SP!Executions

(* When no frame is credited, it is enough to look at the step under way.  *)
LEMMA CreditKept ==
  ASSUME InfoInv, InfoInv', CreditInv, [Next]_vars,
         answers' = answers, completed' = completed, ToStart' => pending' = 0,
         FirstStep', LaterSteps'
  PROVE  CreditInv'
<1>1. Credited' = Credited
  BY DEF Credited
<1>2. Cardinality(Credited) * (Surplus + 1) <= Cardinality(Credited) * (Surplus' + 1)
      /\ Cardinality(Credited) * (Surplus + 1) \in Nat
      /\ Cardinality(Credited) * (Surplus' + 1) \in Nat
  BY InfoTypes, CreditedTypes, GapArithmetic
<1>3. completed # <<>> => StepCount["axisInfo"] <= Cardinality(Credited) * (Surplus + 1)
  BY DEF CreditInv
<1>4. StepCount["axisInfo"] \in Nat
  BY AppAssumption
<1> HIDE DEF Surplus
<1>5. completed' # <<>> =>
        StepCount["axisInfo"] <= Cardinality(Credited') * (Surplus' + 1)
  BY <1>1, <1>2, <1>3, <1>4
<1> QED
  BY <1>1, <1>5 DEF CreditInv

(* A step that only moves the index, for a wake-up.                        *)
LEMMA LaterKept ==
  ASSUME InfoInv, InfoInv', CreditInv, [Next]_vars, answers' = answers,
         SP!Running' /\ answers # <<>> =>
           /\ SP!Running
           /\ exec'.stepIndex \in Nat /\ exec.stepIndex <= exec'.stepIndex
           /\ exec'.stepIndex < StepCount["axisInfo"]
           /\ pending' + exec'.stepIndex <= pending + exec.stepIndex
  PROVE  LaterSteps'
<1> SUFFICES ASSUME SP!Running', answers # <<>>
             PROVE  /\ exec'.stepIndex < StepCount["axisInfo"]
                    /\ Ahead(exec'.stepIndex, pending', LastCredited, Credited, Surplus')
  BY DEF LaterSteps, LastCredited, Credited
<1>1. Ahead(exec.stepIndex, pending, LastCredited, Credited, Surplus)
  BY DEF CreditInv, LaterSteps
<1>2. LastCredited \in Nat /\ Cardinality(Credited) - 1 \in Nat
  BY InfoTypes, CreditedTypes
<1> QED
  BY <1>1, <1>2, InfoTypes, AheadKept

(* A frame is credited to the step under way, which the credited ones are  *)
(* not far behind.                                                         *)
LEMMA FrameCredited ==
  ASSUME InfoInv, InfoInv', CreditInv, [Next]_vars, Sequencer!ProcessFrame(TRUE),
         answers' = Append(answers, <<exec.stepIndex, Head(rx)>>), rx # <<>>,
         completed' = completed, faults' = faults, UNCHANGED todo
  PROVE  CreditInv'
<1> DEFINE N == StepCount["axisInfo"]
           k == exec.stepIndex
<1>a. /\ SP!Running /\ curSeq = "axisInfo" /\ completed = <<>> /\ ~ToStart /\ ~ToStart'
      /\ k < N /\ k \in Nat /\ N \in Nat
      /\ pending' = pending + 1 /\ curSeq' = curSeq /\ exec' = [exec EXCEPT !.stepState = "DONE"]
  <2>1. SP!Running /\ ~ToStart /\ ~ToStart' /\ completed = <<>> /\ curSeq = "axisInfo"
    BY InfoTypes DEF Sequencer!ProcessFrame, Sequencer!Running, SP!Running, InfoInv, OnceInv
  <2> QED
    BY <2>1, InfoTypes, AppAssumption DEF Sequencer!ProcessFrame, Sequencer!ReadyToSchedule
<1>b. exec'.stepIndex = k /\ Surplus' = Surplus
  BY <1>a, InfoTypes DEF SP!Executions, Surplus
<1>c. /\ Credited' = Credited \cup {k} /\ answers' # <<>> /\ LastCredited' = k
  <2>1. answers \in Seq(Nat \X (Nat \cup {NoRequest}))
        /\ <<k, Head(rx)>> \in Nat \X (Nat \cup {NoRequest}) /\ <<k, Head(rx)>>[1] = k
    BY <1>a, InfoTypes DEF RestTypes
  <2>2. Credited' = Credited \cup {k}
    BY <2>1, OneMoreCredited DEF Credited
  <2>3. answers' # <<>> /\ answers'[Len(answers')] = <<k, Head(rx)>>
    BY <2>1
  <2> QED
    BY <2>1, <2>2, <2>3 DEF LastCredited
<1>d. /\ IsFiniteSet(Credited) /\ Cardinality(Credited) \in Nat
      /\ Cardinality(Credited') = Cardinality(Credited) + (IF k \in Credited THEN 0 ELSE 1)
  <2>1. IsFiniteSet(Credited) /\ Cardinality(Credited) \in Nat
    BY InfoTypes, CreditedTypes
  <2>2. Cardinality(Credited \cup {k})
          = IF k \in Credited THEN Cardinality(Credited) ELSE Cardinality(Credited) + 1
    BY <2>1, FS_AddElement, Zenon
  <2> QED
    BY <1>c, <2>1, <2>2
<1>1. Credited' \subseteq 0..(N - 1)
  BY <1>a, <1>c DEF CreditInv
<1>2. Ahead(k, pending', k, Credited', Surplus)
  <2>1. \A c \in Credited' : c <= k
    <3>1. \A c \in Credited : c <= k
      <4>1. CASE answers = <<>>
        BY <4>1, InfoTypes, CreditedTypes
      <4>2. CASE answers # <<>>
        <5>1. Ahead(k, pending, LastCredited, Credited, Surplus) /\ LastCredited \in Credited
              /\ Credited \subseteq Nat
          BY <1>a, <4>2, InfoTypes, CreditedTypes DEF CreditInv, LaterSteps
        <5> QED
          BY <1>a, <5>1 DEF Ahead
      <4> QED
        BY <4>1, <4>2
    <3> QED
      BY <1>a, <1>c, <3>1
  <2>2. k <= (Cardinality(Credited') - 1) * (Surplus + 1)
    <3>1. CASE answers = <<>>
      <4>1. k = 0
        BY <1>a, <3>1 DEF CreditInv, FirstStep
      <4>2. Credited = {} /\ Cardinality(Credited') = 1
        BY <1>c, <1>d, <3>1, InfoTypes, CreditedTypes, FS_EmptySet
      <4> QED
        BY <4>1, <4>2, InfoTypes
    <3>2. CASE answers # <<>>
      <4> DEFINE n == Cardinality(Credited) - 1
      <4>1. /\ Ahead(k, pending, LastCredited, Credited, Surplus) /\ LastCredited \in Credited
            /\ Credited \subseteq Nat /\ n \in Nat
        BY <1>a, <3>2, InfoTypes, CreditedTypes DEF CreditInv, LaterSteps
      <4>2. /\ LastCredited <= n * (Surplus + 1) /\ pending + k <= LastCredited + Surplus + 1
            /\ LastCredited <= k /\ \A c \in Credited : c <= LastCredited
        BY <4>1 DEF Ahead
      <4>3. CASE k \in Credited
        <5>1. k = LastCredited
          BY <1>a, <4>1, <4>2, <4>3
        <5>2. Cardinality(Credited') = Cardinality(Credited)
          BY <1>d, <4>3
        <5> QED
          BY <4>2, <5>1, <5>2
      <4>4. CASE k \notin Credited
        <5>1. Cardinality(Credited') - 1 = n + 1
          BY <1>d, <4>4
        <5>2. /\ n \in Nat /\ Surplus \in Nat /\ k \in Nat /\ pending \in Nat
              /\ LastCredited \in Nat /\ Cardinality(Credited') - 1 \in Nat
          BY <1>a, <4>1, <5>1, InfoTypes
        <5> HIDE DEF n, k, Surplus
        <5>3. pending + k <= (n + 1) * (Surplus + 1) /\ (n + 1) * (Surplus + 1) \in Nat
          BY <4>2, <5>2, GapReached
        <5>4. k <= (n + 1) * (Surplus + 1)
          BY <5>2, <5>3
        <5> QED
          BY <5>1, <5>4
      <4> QED
        BY <4>3, <4>4
    <3> QED
      BY <3>1, <3>2
  <2>3. pending' <= Surplus + 1
    <3>1. FlightAccount' /\ (SP!Need + Waiting)' \in {0, 1} /\ InFlight' \in Nat
      <4>1. CoreInv' => FlightSizes'
        BY FlightSized, PTL
      <4> QED
        BY <4>1, InfoTypes DEF InfoInv, LagInv, FlightInv, FlightSizes
    <3>2. InFlight' + pending' <= Surplus + (SP!Need + Waiting)'
      <4>1. InFlight' + pending' <= Surplus' + SP!Need' + Waiting'
        BY <3>1 DEF FlightAccount
      <4>2. SP!Need' \in Nat /\ Waiting' \in Nat
        BY DEF SP!Need, Waiting
      <4> QED
        BY <1>b, <4>1, <4>2, InfoTypes
    <3> HIDE DEF Surplus
    <3> QED
      BY <3>1, <3>2, InfoTypes
  <2> QED
    BY <1>a, <2>1, <2>2, <2>3, InfoTypes DEF Ahead
<1>3. FirstStep' /\ LaterSteps'
  BY <1>a, <1>b, <1>c, <1>2 DEF FirstStep, LaterSteps
<1> QED
  BY <1>a, <1>1, <1>3 DEF CreditInv

(* It holds at first.                                                      *)
LEMMA InitCredit == Init => CreditInv
<1> SUFFICES ASSUME Init PROVE CreditInv
  OBVIOUS
<1>1. /\ pending = 0 /\ answers = <<>> /\ completed = <<>>
      /\ curSeq \in {NoSeq, Wild}
  BY DEF Init, InitWith, Sequencer!Init
<1>2. ~SP!Running
  BY <1>1, AppAssumption DEF SP!Running
<1>3. Credited = {}
  BY <1>1 DEF Credited, CreditedIn
<1> QED
  BY <1>1, <1>2, <1>3 DEF CreditInv, FirstStep, LaterSteps

(* No step of the program breaks it.                                       *)
LEMMA NextCredit ==
  ASSUME InfoInv, InfoInv', CreditInv, [Next]_vars
  PROVE  CreditInv'
<1>a. /\ exec \in SP!Executions /\ exec.stepIndex \in Nat /\ pending \in Nat /\ pending' \in Nat
      /\ SP!Need \in {0, 1} /\ (ToStart' => ToStart) /\ TypeInv
  BY InfoTypes
<1>b. /\ ToStart => pending = 0
      /\ SP!Running => ~ToStart /\ curSeq = "axisInfo" /\ completed = <<>>
      /\ SP!Running /\ answers # <<>> => exec.stepIndex < StepCount["axisInfo"]
      /\ FirstStep
  BY DEF InfoInv, OnceInv, CreditInv, LaterSteps
(* Where nothing of the step under way changes.                            *)
<1>c. ASSUME UNCHANGED <<curSeq, exec, pending, answers, completed>>
      PROVE  CreditInv'
  <2>1. FirstStep'
    BY <1>b, <1>c DEF FirstStep, SP!Running, SP!Need, SP!Blocked
  <2>2. LaterSteps'
    BY <1>a, <1>b, <1>c, LaterKept DEF SP!Running
  <2> QED
    BY <1>a, <1>b, <1>c, <2>1, <2>2, CreditKept
<1>1. CASE \/ ConfigureCall \/ InitCall \/ RegisterPendingCall \/ RegisterBusCall \/ RunCall
           \/ Wait \/ Interrupted \/ Quit \/ Answer \/ BusFault \/ UNCHANGED vars
  <2>1. UNCHANGED <<curSeq, exec, pending, answers, completed>>
    BY <1>1 DEF ConfigureCall, InitCall, RegisterPendingCall, RegisterBusCall, RunCall, Wait,
       Interrupted, Quit, Answer, BusFault, vars, seqVars, histVars
  <2> QED
    BY <1>c, <2>1
<1>2. CASE StartCall
  <2>1. ToStart /\ ~ToStart' /\ pending = 0 /\ answers = <<>> /\ completed = <<>>
    BY <1>2, <1>a, <1>b, NextOneStart
       DEF TypeInv, InfoInv, OnceInv, LagInv, QuietInv, Quiet, ToStart
  <2>2. CASE UNCHANGED <<curSeq, exec, pending, answers>>
    BY <1>2, <1>c, <2>2 DEF StartCall
  <2>3. CASE /\ exec' = [Sequencer!FreshExec EXCEPT !.seqState = "INIT"]
             /\ pending' = pending + 1 /\ answers' = <<>>
    <3>1. /\ exec'.stepIndex = 0 /\ exec'.seqState = "INIT" /\ exec'.stepActive = FALSE
          /\ exec'.stepState = "NOTSET"
      BY <2>3 DEF Sequencer!FreshExec
    <3>2. FirstStep'
      <4>1. SP!Running' => SP!Need' = 1
        BY <3>1 DEF SP!Need, SP!Running, SP!Blocked
      <4> QED
        BY <2>1, <2>3, <3>1, <4>1 DEF FirstStep
    <3>3. LaterSteps'
      BY <2>3 DEF LaterSteps
    <3> QED
      BY <1>2, <2>1, <2>3, <3>2, <3>3, CreditKept DEF StartCall
  <2> QED
    BY <1>2, <2>2, <2>3 DEF StartCall, Sequencer!StartSequence, seqVars
<1>3. CASE SequencerEvent
  <2>a. answers' = answers /\ todo' = todo
    BY <1>3 DEF SequencerEvent
  <2>b. pending > 0 => ~ToStart /\ ~ToStart'
    BY <1>a, <1>b
  <2>1. CASE Sequencer!IdleEvent /\ completed' = completed
    <3>1. pending > 0 /\ ~SP!Running'
      BY <2>1, AppAssumption DEF Sequencer!IdleEvent, SP!Running
    <3>2. FirstStep' /\ LaterSteps'
      BY <3>1 DEF FirstStep, LaterSteps
    <3> QED
      BY <2>1, <2>a, <2>b, <3>1, <3>2, CreditKept
  <2>2. CASE Sequencer!InitEvent /\ completed' = completed
    <3>1. /\ SP!Running /\ exec.seqState = "INIT" /\ pending > 0 /\ pending' = pending
          /\ curSeq' = curSeq
          /\ exec'.stepIndex = 0 /\ exec'.seqState = "EXECUTING" /\ exec'.stepActive = TRUE
          /\ exec'.stepState = "READY"
      BY <1>a, <2>2 DEF Sequencer!InitEvent, Sequencer!Running, SP!Running, Sequencer!Reschedule,
         Sequencer!Readied, SP!Executions
    <3>2. exec.stepIndex = 0
      BY <3>1 DEF InfoInv, LagInv, IndexInv
    <3>3. FirstStep'
      <4>1. SP!Need' = 1
        BY <3>1 DEF SP!Need, SP!Running, SP!Blocked
      <4>2. answers = <<>> => pending <= 1
        BY <1>a, <1>b, <3>1 DEF FirstStep
      <4> QED
        BY <2>a, <3>1, <4>1, <4>2 DEF FirstStep
    <3>4. LaterSteps'
      BY <1>a, <1>b, <2>a, <3>1, <3>2, LaterKept
    <3> QED
      BY <2>2, <2>a, <2>b, <3>1, <3>3, <3>4, CreditKept
  <2>3. CASE Sequencer!FinishEvent /\ completed' = Append(completed, curSeq)
    <3> DEFINE N == StepCount["axisInfo"]
               n == Cardinality(Credited) - 1
    <3>1. SP!Running /\ pending > 0 /\ ~SP!Running' /\ curSeq = "axisInfo" /\ N \in Nat \ {0}
      BY <1>b, <2>3, AppAssumption DEF Sequencer!FinishEvent, Sequencer!Running, SP!Running
    <3>2. exec.seqState = "EXECUTING" /\ ~exec.stepActive /\ exec.stepIndex + 1 >= N
      BY <2>3, <3>1 DEF Sequencer!FinishEvent, Sequencer!PastEnd, Sequencer!NextIndex
    <3>3. answers # <<>>
      BY <1>b, <3>1, <3>2 DEF FirstStep
    <3>4. /\ Ahead(exec.stepIndex, pending, LastCredited, Credited, Surplus)
          /\ n \in Nat /\ LastCredited \in Nat
      BY <3>1, <3>3, InfoTypes, CreditedTypes DEF CreditInv, LaterSteps
    <3>5. N <= Cardinality(Credited) * (Surplus + 1)
      <4>0. n + 1 = Cardinality(Credited) /\ Surplus \in Nat /\ Surplus <= Surplus
        BY InfoTypes, CreditedTypes
      <4>1. /\ LastCredited <= n * (Surplus + 1)
            /\ pending + exec.stepIndex <= LastCredited + Surplus + 1
        BY <3>4 DEF Ahead
      <4> DEFINE k == exec.stepIndex
      <4>2. k \in Nat /\ pending \in Nat /\ pending > 0 /\ N <= k + 1 /\ N \in Nat
        BY <1>a, <3>1, <3>2
      <4> HIDE DEF n, k, N, Surplus
      <4>3. pending + k <= (n + 1) * (Surplus + 1) /\ (n + 1) * (Surplus + 1) \in Nat
        BY <3>4, <4>0, <4>1, <4>2, GapReached DEF k
      <4>4. N <= pending + k
        BY <4>2
      <4>5. N <= (n + 1) * (Surplus + 1)
        BY <4>2, <4>3, <4>4
      <4> QED
        BY <4>0, <4>5
    <3>6. Credited' = Credited /\ N <= Cardinality(Credited) * (Surplus' + 1)
      <4>1. Cardinality(Credited) * (Surplus + 1) <= Cardinality(Credited) * (Surplus' + 1)
            /\ Cardinality(Credited) * (Surplus + 1) \in Nat
            /\ Cardinality(Credited) * (Surplus' + 1) \in Nat
        BY InfoTypes, CreditedTypes, GapArithmetic
      <4> HIDE DEF Surplus
      <4> QED
        BY <2>a, <3>1, <3>5, <4>1 DEF Credited
    <3> QED
      BY <2>b, <3>1, <3>6 DEF CreditInv, FirstStep, LaterSteps
  <2>4. ASSUME NEW sent \in BOOLEAN, Sequencer!RunStepEvent(sent), completed' = completed
        PROVE  CreditInv'
    <3> DEFINE k == Sequencer!NextIndex
    <3>1. /\ SP!Running /\ pending > 0 /\ pending' = pending - 1 /\ curSeq' = curSeq
          /\ exec.seqState = "EXECUTING" /\ (exec.stepActive => exec.stepState = "READY")
          /\ exec'.stepIndex = k /\ exec'.seqState = "EXECUTING" /\ exec'.stepActive = TRUE
          /\ exec'.stepState \in {"WAITRSP", "ERROR"}
      BY <1>a, <2>4 DEF Sequencer!RunStepEvent, Sequencer!Running, SP!Running,
         Sequencer!NoReschedule, Sequencer!Readied, SP!Executions
    <3>2. k \in {exec.stepIndex, exec.stepIndex + 1} /\ k < StepCount["axisInfo"]
          /\ (exec.stepActive => k = exec.stepIndex)
      <4>1. ~(k >= StepCount["axisInfo"])
        BY <1>b, <2>4, <3>1 DEF Sequencer!RunStepEvent, Sequencer!PastEnd
      <4>2. k \in {exec.stepIndex, exec.stepIndex + 1} /\ (exec.stepActive => k = exec.stepIndex)
        BY DEF Sequencer!NextIndex
      <4> QED
        BY <1>a, <4>1, <4>2, AppAssumption
    <3>3. FirstStep'
      <4>1. answers = <<>> => exec.stepIndex = 0 /\ pending <= 1 /\ exec.stepActive
        BY <1>a, <1>b, <3>1 DEF FirstStep
      <4>2. SP!Need' \in {0, 1}
        BY DEF SP!Need
      <4> QED
        BY <1>a, <2>a, <3>1, <3>2, <4>1, <4>2 DEF FirstStep
    <3>4. LaterSteps'
      BY <1>a, <2>a, <3>1, <3>2, LaterKept
    <3> QED
      BY <2>4, <2>a, <2>b, <3>1, <3>3, <3>4, CreditKept
  <2>5. CASE Sequencer!StepDoneEvent /\ completed' = completed
    <3>1. /\ SP!Running /\ pending > 0 /\ pending' = pending /\ curSeq' = curSeq
          /\ exec.seqState = "EXECUTING" /\ exec.stepActive /\ exec.stepState # "READY"
          /\ exec'.stepIndex = exec.stepIndex
      BY <1>a, <2>5 DEF Sequencer!StepDoneEvent, Sequencer!Running, SP!Running,
         Sequencer!Reschedule, Sequencer!ClearedStep, SP!Executions
    <3>2. answers # <<>>
      <4> SUFFICES ASSUME answers = <<>> PROVE FALSE
        OBVIOUS
      <4>1. exec.stepState \in {"WAITRSP", "ERROR"} /\ pending <= SP!Need
        BY <1>b, <3>1 DEF FirstStep
      <4>2. SP!Need = 0
        BY <4>1 DEF SP!Need, SP!Blocked
      <4> QED
        BY <1>a, <3>1, <4>1, <4>2
    <3>3. FirstStep' /\ LaterSteps'
      BY <1>a, <1>b, <2>a, <3>1, <3>2, LaterKept DEF FirstStep
    <3> QED
      BY <2>5, <2>a, <2>b, <3>1, <3>3, CreditKept
  <2> QED
    BY <1>3, <2>1, <2>2, <2>3, <2>4, <2>5 DEF SequencerEvent
<1>4. CASE BusEvent
  <2>1. completed' = completed /\ faults' = faults /\ todo' = todo /\ rx # <<>>
    BY <1>4 DEF BusEvent
  <2>2. CASE /\ Sequencer!ProcessFrame(TRUE)
             /\ answers' = Append(answers, <<exec.stepIndex, Head(rx)>>)
    BY <2>1, <2>2, FrameCredited
  <2>3. CASE UNCHANGED <<curSeq, exec, pending, answers>>
    BY <1>c, <2>1, <2>3
  <2> QED
    BY <1>4, <2>2, <2>3 DEF BusEvent, Sequencer!WildFrame, seqVars
<1> QED
  BY <1>1, <1>2, <1>3, <1>4 DEF Next, MainStep, LoopStep, Halted

-----------------------------------------------------------------------------
(* What the fields of the credited steps hold.                             *)

\* The fields of a step are those of one frame, which is the answer to its
\* request as long as no surplus frame came.
Stored(r, fields) ==
  \E payload \in Bytes :
    /\ Surplus = 0 => payload = Response(r)
    /\ \A f \in DOMAIN StepAt(r).stores : fields[f] = FieldOf(StepAt(r), payload, f)

ContentInv ==
  /\ regs \in RegisterSets /\ garbage \in Garbage
  /\ Surplus = 0 => rx \in Seq(Nat)
  /\ SP!Running => \A r \in Credited : Stored(r, report)
  /\ completed # <<>> => \A r \in Credited : Stored(r, printed)

ReportInv == InfoInv /\ CreditInv /\ ContentInv

(* The step of a request is one of the program, and its register fits it.  *)
LEMMA RequestTypes ==
  ASSUME ContentInv, NEW r \in Requests
  PROVE  /\ StepAt(r) \in ProgramSteps
         /\ garbage \in [1..4 -> Nat] /\ regs[r] \in Bytes /\ Len(regs[r]) = AnswerSize(StepAt(r).cmd)
         /\ Response(r) \in Bytes
<1>1. StepAt(r) \in ProgramSteps
  <2>1. AxisInfoSteps \in Seq(ProgramSteps)
    BY TableOfSteps
  <2>2. Range(AxisInfoSteps) \subseteq ProgramSteps
    BY <2>1, ElementType DEF Range
  <2>3. r + 1 \in DOMAIN Steps /\ Steps \in Seq(Range(AxisInfoSteps))
    BY ReportAssumption DEF Requests
  <2>4. Steps[r + 1] \in Range(AxisInfoSteps)
    BY <2>3, ElementType
  <2> QED
    BY <2>2, <2>4 DEF StepAt
<1>2. /\ garbage \in [1..4 -> Nat] /\ regs[r] \in Bytes /\ Len(regs[r]) = AnswerSize(StepAt(r).cmd)
  BY ReportAssumption DEF ContentInv, Bytes
<1>3. StepAt(r).args \in Bytes
  <2>1. CASE StepAt(r) = Model
    BY <2>1 DEF Model, Step, Bytes
  <2>2. CASE Plain(StepAt(r))
    BY <2>2 DEF Plain, Bytes
  <2>3. CASE WithParameter(StepAt(r))
    BY <2>3, ByteType DEF WithParameter, Bytes
  <2> QED
    BY <1>1, <2>1, <2>2, <2>3, Rows
<1>4. Response(r) \in Bytes
  BY <1>2, <1>3, Joined DEF Response, Bytes
<1> QED
  BY <1>1, <1>2, <1>4

(* What was stored stays so.                                               *)
LEMMA StoredKept ==
  ASSUME Surplus \in Nat, Surplus' \in Nat, Surplus <= Surplus', UNCHANGED memory,
         NEW r, NEW old, NEW new, Stored(r, old),
         \A f \in DOMAIN StepAt(r).stores : new[f] = old[f]
  PROVE  \E payload \in Bytes :
           /\ Surplus' = 0 => payload = Response(r)'
           /\ \A f \in DOMAIN StepAt(r).stores : new[f] = FieldOf(StepAt(r), payload, f)'
<1>1. PICK payload \in Bytes :
        /\ Surplus = 0 => payload = Response(r)
        /\ \A f \in DOMAIN StepAt(r).stores : old[f] = FieldOf(StepAt(r), payload, f)
  BY DEF Stored
<1>2. Response(r)' = Response(r) /\ garbage' = garbage
  BY DEF Response, memory, StepAt
<1>3. \A f : FieldOf(StepAt(r), payload, f)' = FieldOf(StepAt(r), payload, f)
  BY <1>2 DEF FieldOf, ReadValue, StepAt
<1>4. Surplus' = 0 => Surplus = 0
  OBVIOUS
<1> QED
  BY <1>1, <1>2, <1>3, <1>4

(* Fields that do not change are kept, however long the run.               *)
LEMMA ContentKept ==
  ASSUME ReportInv, InfoInv', [Next]_vars, UNCHANGED memory, answers' = answers,
         Surplus' = 0 => rx' \in Seq(Nat),
         SP!Running' => SP!Running /\ report' = report,
         completed' # <<>> =>
           (completed # <<>> /\ printed' = printed) \/ (SP!Running /\ printed' = report)
  PROVE  ContentInv'
<1>a. Surplus \in Nat /\ Surplus' \in Nat /\ Surplus <= Surplus'
  BY InfoTypes DEF ReportInv
<1>b. Credited' = Credited
  BY DEF Credited
<1>1. regs' \in RegisterSets /\ garbage' \in Garbage
  BY DEF ReportInv, ContentInv, memory
<1>2. ASSUME SP!Running', NEW r \in Credited
      PROVE  Stored(r, report)'
  <2>1. Stored(r, report) /\ report' = report
    BY <1>2 DEF ReportInv, ContentInv
  <2> QED
    BY <1>a, <2>1, StoredKept DEF Stored
<1>3. ASSUME completed' # <<>>, NEW r \in Credited
      PROVE  Stored(r, printed)'
  <2>1. CASE Stored(r, printed) /\ printed' = printed
    BY <1>a, <2>1, StoredKept DEF Stored
  <2>2. CASE Stored(r, report) /\ printed' = report
    BY <1>a, <2>2, StoredKept DEF Stored
  <2> QED
    BY <1>3, <2>1, <2>2 DEF ReportInv, ContentInv
<1> QED
  BY <1>b, <1>1, <1>2, <1>3 DEF ContentInv

(* The step that is given a frame stores its fields from it and no others; *)
(* without surplus frames it is the answer to that step's own request.     *)
LEMMA FrameStored ==
  ASSUME ReportInv, InfoInv', [Next]_vars, UNCHANGED memory,
         SP!Running, completed' = completed, faults' = faults,
         rx # <<>>, rx' = Tail(rx), exec.stepIndex < StepCount["axisInfo"],
         answers' = Append(answers, <<exec.stepIndex, Head(rx)>>),
         NEW payload \in Payloads(Head(rx)), report' = Parsed(exec.stepIndex, payload)
  PROVE  ContentInv'
<1> DEFINE k == exec.stepIndex
<1>a. /\ Surplus \in Nat /\ Surplus' = Surplus /\ RestTypes /\ completed = <<>>
      /\ k \in Nat /\ k \in Requests /\ Len(Steps) \in Nat
  <2>1. k \in Nat /\ Surplus \in Nat /\ RestTypes
    BY InfoTypes DEF ReportInv
  <2>2. completed = <<>>
    BY DEF ReportInv, InfoInv, OnceInv
  <2>3. Len(Steps) = StepCount["axisInfo"] /\ Len(Steps) \in Nat
    BY ReportAssumption
  <2> QED
    BY <2>1, <2>2, <2>3 DEF Requests, Surplus
<1>b. /\ answers \in Seq(Nat \X (Nat \cup {NoRequest})) /\ rx \in Seq(Nat \cup {NoRequest})
      /\ Head(rx) \in Nat \cup {NoRequest}
  BY <1>a DEF RestTypes
<1>c. Credited' = Credited \cup {k} /\ Credited \subseteq Requests
  <2>1. <<k, Head(rx)>> \in Nat \X (Nat \cup {NoRequest}) /\ <<k, Head(rx)>>[1] = k
    BY <1>a, <1>b
  <2>2. Credited' = Credited \cup {k}
    BY <1>b, <2>1, OneMoreCredited DEF Credited
  <2> QED
    BY <2>2, ReportAssumption DEF ReportInv, CreditInv, Requests
<1>1. /\ Head(rx) # NoRequest => Head(rx) \in 0..k
      /\ Surplus = 0 => Head(rx) = k
  <2>1. ASSUME Head(rx) \in Nat PROVE Lag(k, Head(rx), 0, Surplus)
    <3>1. answers'[Len(answers')] = <<k, Head(rx)>> /\ Len(answers') \in DOMAIN answers'
      BY <1>a, <1>b
    <3> QED
      BY <1>a, <2>1, <3>1 DEF InfoInv, LagInv, AnswersLag
  <2>2. Surplus = 0 => Head(rx) \in Nat
    BY DEF ReportInv, ContentInv
  <2> QED
    BY <1>a, <1>b, <2>1, <2>2 DEF Lag
<1>2. payload \in Bytes /\ (Surplus = 0 => payload = Response(k))
  <2>1. CASE Head(rx) = NoRequest
    <3>1. payload \in Bytes
      BY <2>1, ReportAssumption DEF Payloads, Bytes
    <3>2. Surplus # 0
      BY <1>1, <1>a, <2>1, AppAssumption
    <3> QED
      BY <3>1, <3>2
  <2>2. CASE Head(rx) # NoRequest
    <3>1. Head(rx) \in Requests
      BY <1>a, <1>1, <2>2 DEF Requests
    <3>2. payload = Response(Head(rx))
      BY <2>2 DEF Payloads
    <3>3. Response(Head(rx)) \in Bytes
      BY <3>1, RequestTypes DEF ReportInv
    <3> QED
      BY <1>1, <3>2, <3>3
  <2> QED
    BY <2>1, <2>2
<1>3. \A f \in DOMAIN StepAt(k).stores : report'[f] = FieldOf(StepAt(k), payload, f)
  BY <1>a DEF Parsed, Fields
<1>4. Stored(k, report')
  BY <1>2, <1>3 DEF Stored
<1>5. ASSUME NEW r \in Credited, r # k
      PROVE  Stored(r, report')
  <2>1. Stored(r, report) /\ r \in Requests
    BY <1>c DEF ReportInv, ContentInv
  <2>2. \A f \in DOMAIN StepAt(r).stores : f \notin DOMAIN StepAt(k).stores
    BY <1>a, <1>5, <2>1, ReportAssumption
  <2>3. \A f \in DOMAIN StepAt(r).stores : report'[f] = report[f]
    BY <2>1, <2>2 DEF Parsed, Fields
  <2> QED
    BY <2>1, <2>3 DEF Stored
<1>6. \A r \in Credited' : Stored(r, report')
  BY <1>c, <1>4, <1>5
<1>7. ASSUME NEW r \in Credited' PROVE Stored(r, report)'
  <2>1. Stored(r, report')
    BY <1>6
  <2>2. Surplus <= Surplus' /\ Surplus' \in Nat
    BY <1>a
  <2>3. \E bytes \in Bytes :
          /\ Surplus' = 0 => bytes = Response(r)'
          /\ \A f \in DOMAIN StepAt(r).stores : report'[f] = FieldOf(StepAt(r), bytes, f)'
    BY ONLY UNCHANGED memory, <1>a, <2>1, <2>2, StoredKept, Zenon
  <2> QED
    BY <2>3 DEF Stored
<1>8. Surplus' = 0 => rx' \in Seq(Nat)
  BY <1>a DEF ReportInv, ContentInv
<1> QED
  BY <1>a, <1>7, <1>8 DEF ContentInv, ReportInv, memory

(* It holds at first.                                                      *)
LEMMA InitContent == ReportInit => ContentInv
<1> SUFFICES ASSUME ReportInit PROVE ContentInv
  OBVIOUS
<1>1. /\ regs \in RegisterSets /\ garbage \in Garbage
      /\ rx = <<>> /\ answers = <<>> /\ completed = <<>>
  BY DEF ReportInit, Init, InitWith
<1>2. Credited = {}
  BY <1>1 DEF Credited, CreditedIn
<1> QED
  BY <1>1, <1>2 DEF ContentInv

(* No step of the program breaks it.                                       *)
LEMMA NextContent ==
  ASSUME ReportInv, InfoInv', [ReportNext]_<<vars, reportVars>>
  PROVE  ContentInv'
<1>a. [Next]_vars
  BY ReportSteps
<1>b. /\ tx \in Seq(Nat) /\ TypeInv /\ CoreInv
      /\ Surplus \in Nat /\ Surplus' \in Nat /\ Surplus <= Surplus'
      /\ Surplus = 0 => rx \in Seq(Nat)
  BY <1>a, InfoTypes DEF ReportInv, ContentInv, RestTypes
<1>c. Surplus' = 0 => Surplus = 0 /\ rx \in Seq(Nat)
  BY <1>b
<1>1. CASE StartReport
  <2>1. /\ StartCall /\ UNCHANGED memory /\ printed' = printed /\ rx' = rx
        /\ completed' = completed
    BY <1>1 DEF StartReport, StartCall, busVars
  <2>2. ToStart
    BY <1>a, <1>b, <2>1, NextOneStart DEF ReportInv, InfoInv, OnceInv, TypeInv
  <2>3. completed = <<>> /\ answers = <<>>
    BY <2>2 DEF ReportInv, InfoInv, OnceInv, LagInv, QuietInv, Quiet, ToStart
  <2>4. answers' = <<>>
    BY <2>1, <2>3 DEF StartCall
  <2>5. Credited' = {}
    BY <2>4 DEF Credited, CreditedIn
  <2> QED
    BY <1>c, <2>1, <2>3, <2>5 DEF ContentInv, ReportInv, memory
<1>2. CASE StoreResults
  <2>1. /\ BusEvent /\ UNCHANGED memory /\ printed' = printed
        /\ completed' = completed /\ faults' = faults /\ rx # <<>> /\ rx' = Tail(rx)
    BY <1>2 DEF StoreResults, BusEvent
  <2>2. CASE answers' = answers
    <3>1. report' = report
      BY <1>2, <2>2 DEF StoreResults
    <3>2. curSeq' = curSeq
      BY <2>1 DEF BusEvent, Sequencer!ProcessFrame, Sequencer!WildFrame, seqVars
    <3>3. Surplus' = 0 => rx' \in Seq(Nat)
      BY <1>c, <2>1
    <3> QED
      BY <1>a, <2>1, <2>2, <3>1, <3>2, <3>3, ContentKept DEF SP!Running
  <2>3. CASE answers' # answers
    <3>1. /\ Sequencer!ProcessFrame(TRUE)
          /\ answers' = Append(answers, <<exec.stepIndex, Head(rx)>>)
      BY <2>1, <2>3 DEF BusEvent
    <3>2. PICK payload \in Payloads(Head(rx)) : report' = Parsed(exec.stepIndex, payload)
      BY <1>2, <2>3 DEF StoreResults
    <3>3. SP!Running /\ curSeq = "axisInfo"
      BY <3>1 DEF Sequencer!ProcessFrame, Sequencer!Running, SP!Running, ReportInv, InfoInv,
         OnceInv
    <3>4. exec.stepIndex < StepCount["axisInfo"]
      BY <3>1, <3>3 DEF Sequencer!ProcessFrame
    <3> QED
      BY <1>a, <2>1, <3>1, <3>2, <3>3, <3>4, FrameStored
  <2> QED
    BY <2>2, <2>3
<1>3. CASE PrintResults
  <2>1. SequencerEvent /\ UNCHANGED memory /\ rx' = rx /\ answers' = answers
    BY <1>3 DEF PrintResults, SequencerEvent
  <2>2. CASE completed' = completed
    <3>1. report' = report /\ printed' = printed
      BY <1>3, <2>2 DEF PrintResults
    <3>2. curSeq' \in {curSeq, NoSeq}
      BY <2>1 DEF SequencerEvent, Sequencer!IdleEvent, Sequencer!InitEvent,
         Sequencer!FinishEvent, Sequencer!RunStepEvent, Sequencer!StepDoneEvent
    <3>3. SP!Running' => SP!Running
      BY <3>2, AppAssumption DEF SP!Running
    <3> QED
      BY <1>a, <1>c, <2>1, <2>2, <3>1, <3>3, ContentKept
  <2>3. CASE completed' # completed
    <3>1. printed' = report
      BY <1>3, <2>3 DEF PrintResults
    <3>2. SP!Running /\ ~SP!Running'
      <4>1. Sequencer!FinishEvent
        BY <2>1, <2>3 DEF SequencerEvent
      <4> QED
        BY <4>1, AppAssumption DEF Sequencer!FinishEvent, Sequencer!Running, SP!Running
    <3> QED
      BY <1>a, <1>c, <2>1, <3>1, <3>2, ContentKept
  <2> QED
    BY <2>2, <2>3
<1>4. CASE /\ \/ ConfigureCall \/ InitCall \/ RegisterPendingCall \/ RegisterBusCall \/ RunCall
              \/ Wait \/ Interrupted \/ Quit \/ Answer \/ BusFault \/ UNCHANGED vars
           /\ UNCHANGED reportVars
  <2>1. /\ UNCHANGED <<curSeq, answers, completed>>
        /\ report' = report /\ printed' = printed /\ UNCHANGED memory
    BY <1>4 DEF ConfigureCall, InitCall, RegisterPendingCall, RegisterBusCall, RunCall, Wait,
       Interrupted, Quit, Answer, BusFault, vars, seqVars, histVars, reportVars
  <2>2. Surplus' = 0 => rx' \in Seq(Nat)
    <3>1. CASE rx' = rx
      BY <1>c, <3>1
    <3>2. CASE Answer
      BY <1>b, <1>c, <3>2 DEF Answer
    <3>3. CASE BusFault
      <4>1. CASE rx' = rx
        BY <1>c, <4>1
      <4>2. CASE \E k \in {"stray", "duplicate"} : Fault(k)
        <5>1. Surplus' = Surplus + 1
          BY <1>b, <4>2, SurplusCounts
        <5> QED
          BY <1>b, <5>1
      <4> QED
        BY <3>3, <4>1, <4>2 DEF BusFault
    <3> QED
      BY <1>4, <3>1, <3>2, <3>3 DEF ConfigureCall, InitCall, RegisterPendingCall,
         RegisterBusCall, RunCall, Wait, Interrupted, Quit, vars, busVars
  <2> QED
    BY <1>a, <2>1, <2>2, ContentKept DEF SP!Running
<1> QED
  BY <1>1, <1>2, <1>3, <1>4 DEF ReportNext, Halted, reportVars

-----------------------------------------------------------------------------
(* The two theorems.                                                       *)

(* The invariant is inductive.                                             *)
LEMMA InitReport == ReportInit => ReportInv
<1> SUFFICES ASSUME ReportInit PROVE ReportInv
  OBVIOUS
<1>1. Init /\ Cmd = "axisInfo"
  BY ReportAssumption DEF ReportInit
<1> QED
  BY <1>1, InitLag, InitOnce, InitCredit, InitContent DEF ReportInv, InfoInv

(* Every step keeps it.                                                    *)
LEMMA NextReport == ReportInv /\ [ReportNext]_<<vars, reportVars>> => ReportInv'
<1> SUFFICES ASSUME ReportInv, [ReportNext]_<<vars, reportVars>> PROVE ReportInv'
  OBVIOUS
<1>1. [Next]_vars
  BY ReportSteps
<1>2. LagInv'
  BY <1>1, NextTypes, TypesHaveCore, NextWakeups, NextFlight, NextQuiet, NextIndexInv,
     NextBusLag, NextAnswersLag DEF ReportInv, InfoInv, LagInv, FlightInv
<1>3. OnceInv'
  BY <1>1, NextOnce DEF ReportInv, InfoInv, LagInv, FlightInv
<1>4. InfoInv'
  BY <1>2, <1>3 DEF InfoInv
<1>5. CreditInv'
  BY <1>1, <1>4, NextCredit DEF ReportInv
<1>6. ContentInv'
  BY <1>4, NextContent
<1> QED
  BY <1>4, <1>5, <1>6 DEF ReportInv

(* What is stored for a step credited with a frame is printed.             *)
LEMMA CreditedAreTold ==
  ASSUME ReportInv, completed # <<>>
  PROVE  /\ Credited \subseteq Requests
         /\ Credited \subseteq Told
         /\ IsFiniteSet(Requests) /\ Cardinality(Requests) = Len(Steps)
         /\ Len(Steps) \in Nat /\ Surplus \in Nat
         /\ Len(Steps) <= Cardinality(Credited) * (Surplus + 1)
<1>1. Len(Steps) = StepCount["axisInfo"] /\ Len(Steps) \in Nat
  BY ReportAssumption
<1>2. Credited \subseteq Requests
  BY <1>1 DEF ReportInv, CreditInv, Requests
<1>3. IsFiniteSet(Requests) /\ Cardinality(Requests) = Len(Steps)
  <2>1. 0 \in Int /\ Len(Steps) - 1 \in Int
    BY <1>1
  <2>2. /\ IsFiniteSet(0..(Len(Steps) - 1))
        /\ Cardinality(0..(Len(Steps) - 1))
             = IF 0 > Len(Steps) - 1 THEN 0 ELSE Len(Steps) - 1 - 0 + 1
    BY <2>1, FS_Interval, Zenon
  <2> QED
    BY <1>1, <2>2 DEF Requests
<1>4. ASSUME NEW r \in Credited PROVE r \in Told
  <2>1. PICK payload \in Bytes :
          \A f \in DOMAIN StepAt(r).stores : printed[f] = FieldOf(StepAt(r), payload, f)
    BY DEF ReportInv, ContentInv, Stored
  <2>2. StepAt(r) \in ProgramSteps /\ garbage \in [1..4 -> Nat]
    BY <1>2, RequestTypes DEF ReportInv
  <2>3. \A f \in DOMAIN StepAt(r).stores : printed[f] \in Int \cup BOOLEAN
    BY <2>1, <2>2, FieldType
  <2>4. Missing \notin Int \cup BOOLEAN
    BY ReportAssumption
  <2> QED
    BY <1>2, <2>3, <2>4 DEF Told
<1>5. Surplus \in Nat
  BY TypesHaveCore, FlightTypes DEF ReportInv, InfoInv, LagInv, FlightInv
<1>6. Len(Steps) <= Cardinality(Credited) * (Surplus + 1)
  BY <1>1 DEF ReportInv, CreditInv
<1> QED
  BY <1>1, <1>2, <1>3, <1>4, <1>5, <1>6

(* With S surplus frames, one step in S + 1 at least has its fields printed, *)
(* however long the sequence is, wherever in it those frames come and      *)
(* whatever else is lost or fails.                                         *)
THEOREM GapsAreBounded == ReportSpec => []GapsBounded
<1>1. ASSUME ReportInv, completed # <<>>
      PROVE  Len(Steps) <= Cardinality(Told) * (Surplus + 1)
  <2>1. /\ IsFiniteSet(Told) /\ Cardinality(Credited) <= Cardinality(Told)
        /\ Cardinality(Told) \in Nat /\ Cardinality(Credited) \in Nat
    <3>1. Told \in SUBSET Requests
      BY DEF Told
    <3>2. IsFiniteSet(Told)
      BY <1>1, <3>1, CreditedAreTold, FS_Subset
    <3>3. Credited \in SUBSET Told
      BY <1>1, CreditedAreTold
    <3> QED
      BY <3>2, <3>3, FS_Subset, FS_CardinalityType
  <2>2. Cardinality(Credited) * (Surplus + 1) <= Cardinality(Told) * (Surplus + 1)
        /\ Cardinality(Credited) * (Surplus + 1) \in Nat
        /\ Cardinality(Told) * (Surplus + 1) \in Nat
    <3> DEFINE a == Cardinality(Credited)
               b == Cardinality(Told)
    <3>1. a \in Nat /\ b \in Nat /\ a <= b /\ Surplus \in Nat
      BY <1>1, <2>1, CreditedAreTold
    <3> HIDE DEF a, b, Surplus
    <3>2. a * (Surplus + 1) <= b * (Surplus + 1) /\ a * (Surplus + 1) \in Nat
          /\ b * (Surplus + 1) \in Nat
      BY <3>1, ProductGrows
    <3> QED
      BY <3>2 DEF a, b
  <2>3. Len(Steps) <= Cardinality(Credited) * (Surplus + 1) /\ Len(Steps) \in Nat
    BY <1>1, CreditedAreTold
  <2> HIDE DEF Surplus
  <2> QED
    BY <2>2, <2>3
<1>2. ReportInv => GapsBounded
  BY <1>1 DEF GapsBounded
<1> QED
  BY <1>2, InitReport, NextReport, PTL DEF ReportSpec

(* As long as no surplus frame came, the report that axisInfo prints is    *)
(* whole, and each field says what the register of its own step held, read *)
(* at the right offset and width and worded the right way, or it is one of *)
(* the four kinds of which is known what the code says instead, and says    *)
(* that.                                                                    *)
THEOREM UntruthsAreKnown == ReportSpec => []UntruthsKnown
<1>1. ASSUME ReportInv, completed # <<>>, Surplus = 0
      PROVE  Credited = Requests /\ Told = Requests
  <2>1. Len(Steps) <= Cardinality(Credited)
    <3>1. Len(Steps) <= Cardinality(Credited) * (0 + 1) /\ Cardinality(Credited) \in Nat
      BY <1>1, CreditedAreTold, CreditedTypes DEF ReportInv, InfoInv, LagInv, FlightInv, TypeInv
    <3> QED
      BY <3>1
  <2>2. Cardinality(Credited) <= Cardinality(Requests)
        /\ (Cardinality(Requests) = Cardinality(Credited) => Requests = Credited)
    <3>1. IsFiniteSet(Requests) /\ Credited \in SUBSET Requests
      BY <1>1, CreditedAreTold
    <3> QED
      BY <3>1, FS_Subset, Zenon
  <2>3. Cardinality(Requests) = Len(Steps) /\ Len(Steps) \in Nat
    BY <1>1, CreditedAreTold
  <2>4. Cardinality(Credited) \in Nat
    BY <1>1, CreditedTypes DEF ReportInv, InfoInv, LagInv, FlightInv, TypeInv
  <2>5. Requests = Credited
    BY <2>1, <2>2, <2>3, <2>4
  <2>6. Credited \subseteq Told
    BY <1>1, CreditedAreTold
  <2> QED
    BY <2>5, <2>6 DEF Told
<1>2. ASSUME ReportInv, completed # <<>>, Surplus = 0, NEW f \in Fields
      PROVE  printed[f] = Truth(f, Given(f)) \/ printed[f] = KnownUntruth(f, Given(f))
  <2> DEFINE r == RequestOf(f)
             b == regs[r]
  <2>1. r \in Requests /\ f \in DOMAIN StepAt(r).stores
    <3>1. \E q \in Requests : f \in DOMAIN StepAt(q).stores
      BY DEF Fields
    <3> QED
      BY <3>1, Zenon DEF RequestOf
  <2>2. r \in Credited
    BY <1>1, <1>2, <2>1
  <2> HIDE DEF r
  <2>3. printed[f] = FieldOf(StepAt(r), StepAt(r).args \o b, f)
    BY <1>2, <2>1, <2>2 DEF ReportInv, ContentInv, Stored, Response
  <2>4. StepAt(r) \in ProgramSteps /\ garbage \in [1..4 -> Nat] /\ b \in Bytes
        /\ Len(b) = AnswerSize(StepAt(r).cmd)
    BY <1>2, <2>1, RequestTypes DEF ReportInv
  <2>5. Given(f) = NumberIn(b, f)
    BY DEF Given, r
  <2> QED
    BY <2>1, <2>3, <2>4, <2>5, FieldTrue
<1>3. ReportInv => UntruthsKnown
  BY <1>1, <1>2 DEF UntruthsKnown
<1> QED
  BY <1>3, InitReport, NextReport, PTL DEF ReportSpec
=============================================================================
