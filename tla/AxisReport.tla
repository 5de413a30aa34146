----------------------------- MODULE AxisReport -----------------------------
(***************************************************************************)
(* What the command axisInfo tells its user: the steps of                  *)
(* UIM342AxisInfoSequence (UIM342Cmd.cpp), the frames they ask with, what  *)
(* their parseResponse makes of the frames they are given, and the results *)
(* of the execution (CmdSeqResults, CmdSequence.cpp) that are printed when *)
(* the sequence ends.                                                      *)
(*                                                                         *)
(* UIM342App decides which step is given which frame; this module gives    *)
(* the frames their contents.  A payload is a sequence of bytes.           *)
(***************************************************************************)
EXTENDS UIM342App, Integers

CONSTANTS
  Steps,         \* the steps of the sequence: AxisInfoSteps, or some of them
  ByteSize,      \* how many values a byte has, 256 in the code
  RegisterSets,  \* what the controller's registers may hold: functions from
                 \* requests to the bytes the controller answers them with
  StrayPayloads, \* what a frame that answers no request may carry
  Garbage,       \* what uninitialized variables may hold: functions from the
                 \* bytes a variable has, 1 to 4, to a number
  Missing        \* the value of a field that was never stored

VARIABLES
  regs,    \* the registers, read only
  garbage, \* what uninitialized variables hold: as each field is stored from
           \* one of them, one value for all of a size shows all a field can be
  report,  \* the fields of m_resultData of the current execution
  printed  \* history: the fields when printTree was called

memory     == <<regs, garbage>>
reportVars == <<memory, report, printed>>

-----------------------------------------------------------------------------
(* The steps.  A step's request has a command code and perhaps a byte that  *)
(* selects a parameter; of the response, values of the given widths (in     *)
(* bytes) are read one after the other; fields are stored, each from the    *)
(* value at some position and in some form.                                 *)

Step(cmd, args, reads, stores) ==
  [cmd |-> cmd, args |-> args, reads |-> reads, stores |-> stores]

From(position, form) == [position |-> position, form |-> form]

\* The field is called "Serial Number"; a uint is formatted with "%d".
SerialNumber == Step(140, <<>>, <<4>>, [SerialNumber |-> From(1, "int")])

\* readData, read8 and read16: three bytes, an unused one, the version.
Model == Step(139, <<>>, <<3, 1, 2>>, [Model           |-> From(1, "number"),
                                  FirmwareVersion |-> From(3, "number")])

CANBitrate == Step(129, <<5>>, <<1, 1>>, [Bitrate |-> From(2, "bitrate")])
CANNodeID  == Step(129, <<7>>, <<1, 1>>, [DeviceCANID |-> From(2, "number")])
CANGroupID == Step(129, <<8>>, <<1, 1>>, [GroupCANID |-> From(2, "number")])

\* The parameters of UIM342GetInitialConfigurationStep, from 0.  Of two
\* wordings of a field, "nonzero" is the second.
InitialConfigurationFields ==
  <<[IC_MotorDriverOnAfterPowerIsOn         |-> From(2, "nonzero")],
    [IC_PositiveMotorDirectionClockwise     |-> From(2, "zero")],
    [IC_ExecuteTheUserProgramAfterPowerIsOn |-> From(2, "nonzero")],
    [IC_LockDownOnEStop                     |-> From(2, "nonzero")],
    [IC_UnitsOfACAndDC                      |-> From(2, "nonzero")],
    [IC_EncoderType                         |-> From(2, "nonzero")],
    [IC_ControlType                         |-> From(2, "nonzero")],
    [IC_SoftwareLimit                       |-> From(2, "nonzero")]>>

InitialConfiguration(p) == Step(134, <<p>>, <<1, 2>>, InitialConfigurationFields[p + 1])

\* Both branches of each case of UIM342GetInformationEnableStep store false.
InformationEnable(p) ==
  Step(135, <<p>>, <<1, 2>>,
       CASE p = 0 -> [IE_PIN1ChangeNotification |-> From(2, "false")]
         [] p = 1 -> [IE_PIN2ChangeNotification |-> From(2, "false")]
         [] p = 2 -> [IE_PIN3ChangeNotification |-> From(2, "false")]
         [] p = 8 -> [IE_PTPFinishNotification  |-> From(2, "false")])

QuadratureEncoderFields ==
  <<[QE_LinesPerRevolutionOfEncoder |-> From(2, "number")],
    [QE_StallTolerance              |-> From(2, "number")],
    [QE_SingleTurnBits              |-> From(2, "number")],
    [QE_BatteryStatusLow            |-> From(2, "zero")],
    [QE_CountsPerRevolution         |-> From(2, "number")]>>

QuadratureEncoder(p) == Step(189, <<p>>, <<1, 2>>, QuadratureEncoderFields[p + 1])

MotorDriverFields ==
  <<[MT_MicrostepResolution                  |-> From(2, "number")],
    [MT_WorkingCurrent                       |-> From(2, "number")],
    [MT_PercentIdleCurrentOverWorkingCurrent |-> From(2, "number")],
    [MT_DelayAutomaticEnableAfterPowerOn     |-> From(2, "number")]>>

WrongMotorDriverReadsOneByte(p) == Step(144, <<p>>, <<1, 1>>, MotorDriverFields[p + 1])

MotorDriver(p) == Step(144, <<p>>, <<1, 2>>, MotorDriverFields[p + 1])

MTState          == Step(149, <<>>, <<1>>, [MT_State |-> From(1, "one")])
RelativePosition == Step(159, <<>>, <<4>>, [RelativePosition |-> From(1, "number")])
AbsolutePosition == Step(160, <<>>, <<4>>, [AbsolutePosition |-> From(1, "number")])

\* initCmdSteps: the request numbers of UIM342App are the indices from 0.
AxisInfoSteps ==
  <<SerialNumber, Model, CANBitrate, CANNodeID, CANGroupID>>
    \o [p \in 1..8 |-> InitialConfiguration(p - 1)]
    \o [i \in 1..4 |-> InformationEnable(<<0, 1, 2, 8>>[i])]
    \o [p \in 1..5 |-> QuadratureEncoder(p - 1)]
    \o [p \in 1..4 |-> MotorDriver(p - 1)]
    \o <<MTState, RelativePosition, AbsolutePosition>>

StepAt(index) == Steps[index + 1]
Requests      == 0..(Len(Steps) - 1)
Fields        == UNION {DOMAIN StepAt(r).stores : r \in Requests}

\* How many bytes of value the controller answers a command with.
AnswerSize(cmd) ==
  CASE cmd \in {129, 149}           -> 1
    [] cmd \in {134, 135, 144, 189} -> 2
    [] cmd \in {140, 159, 160}      -> 4
    [] cmd = 139                    -> 6

Byte == 0..(ByteSize - 1)

\* How many values a variable of one to four bytes has.
Values == <<ByteSize, ByteSize * ByteSize, ByteSize * ByteSize * ByteSize,
            ByteSize * ByteSize * ByteSize * ByteSize>>

(* Each field is stored by one step.  A byte has room for the parameters'   *)
(* numbers, up to 8.                                                        *)
ASSUME ReportAssumption ==
  /\ Cmd = "axisInfo"
  /\ StepCount["axisInfo"] = Len(Steps)
  /\ Steps \in Seq(Range(AxisInfoSteps))
  /\ \A q, r \in Requests :
       q # r => DOMAIN StepAt(q).stores \cap DOMAIN StepAt(r).stores = {}
  /\ ByteSize \in 9..256
  /\ \A registers \in RegisterSets :
       /\ registers \in [Requests -> Seq(Byte)]
       /\ \A r \in Requests : Len(registers[r]) = AnswerSize(StepAt(r).cmd)
  /\ StrayPayloads \subseteq Seq(Byte)
  /\ \A g \in Garbage :
       g \in [1..4 -> Nat] /\ \A bytes \in 1..4 : g[bytes] < Values[bytes]
  /\ Missing \notin Int \cup BOOLEAN

-----------------------------------------------------------------------------
(* Parsing.                                                                 *)

ByteAt(bytes, i) == IF i \in DOMAIN bytes THEN bytes[i] ELSE 0

\* No value has more than four bytes.
LittleEndian(bytes) ==
  ByteAt(bytes, 1) + ByteSize * (ByteAt(bytes, 2)
    + ByteSize * (ByteAt(bytes, 3) + ByteSize * ByteAt(bytes, 4)))

\* The number with the bits of a uint as an int: two's complement.
AsInt(n) == IF 2 * n < Values[4] THEN n ELSE n - Values[4]

Bit(n, power) == (n \div power) % 2

\* read8 adds to a number the bits of the byte it lacks.
OrByte(n, byte) ==
  LET Lacks(power) == IF Bit(byte, power) = 1 /\ Bit(n, power) = 0 THEN power ELSE 0
  IN  n + Lacks(1) + Lacks(2) + Lacks(4) + Lacks(8)
        + Lacks(16) + Lacks(32) + Lacks(64) + Lacks(128)

(* One read8, read16, read32 or readData: of what is left, the bytes asked  *)
(* for, or nothing if there are too few, which no parseResponse checks.     *)
(* A variable that was not read keeps its garbage.                          *)
ReadValue(rest, width) ==
  IF Len(rest) < width THEN garbage[width]
  ELSE IF width = 1 THEN OrByte(garbage[1], rest[1])
  ELSE LittleEndian(SubSeq(rest, 1, width))

AfterRead(rest, width) ==
  IF Len(rest) < width THEN rest ELSE SubSeq(rest, width + 1, Len(rest))

\* What is left for the read at a position; no step makes more than three.
LeftFor(position, widths, payload) ==
  CASE position = 1 -> payload
    [] position = 2 -> AfterRead(payload, widths[1])
    [] position = 3 -> AfterRead(AfterRead(payload, widths[1]), widths[2])

Rates == <<1000, 800, 500, 250, 125>>

\* What is printed: a uint with "%u", or with "%d", or a text for it.
Formed(form, value) ==
  CASE form = "number"  -> value
    [] form = "int"     -> AsInt(value)
    [] form = "nonzero" -> value # 0
    [] form = "zero"    -> value = 0
    [] form = "one"     -> value = 1
    [] form = "false"   -> FALSE
    [] form = "bitrate" -> IF value < Len(Rates) THEN Rates[value + 1] ELSE 0

\* What parseResponse of a step stores in a field.
FieldOf(step, payload, f) ==
  LET from == step.stores[f]
  IN  Formed(from.form, ReadValue(LeftFor(from.position, step.reads, payload),
                                  step.reads[from.position]))

(* parseResponse: the fields of the step are stored, whatever was read,     *)
(* over what they held.                                                     *)
Parsed(index, payload) ==
  [f \in Fields |->
     IF f \in DOMAIN StepAt(index).stores THEN FieldOf(StepAt(index), payload, f)
                                          ELSE report[f]]

NothingStored == [f \in Fields |-> Missing]

-----------------------------------------------------------------------------
(* What is on the bus.                                                      *)

Identifier == INSTANCE CANIdentifier

BitsOf(n) == {b \in 0..7 : (n \div 2^b) % 2 = 1}

(* startStep's new CANFrame: formatRequest sets the command, and nobody     *)
(* sets the IDs.                                                            *)
RequestID(request) == Identifier!WireID({}, {}, BitsOf(StepAt(request).cmd))

\* The controller repeats the parameter and adds its value.
Response(request) == StepAt(request).args \o regs[request]

Payloads(frame) == IF frame = NoRequest THEN StrayPayloads ELSE {Response(frame)}

-----------------------------------------------------------------------------
ReportInit ==
  /\ Init
  /\ regs \in RegisterSets
  /\ garbage \in Garbage
  /\ report = NothingStored
  /\ printed = NothingStored

(* A new execution has empty results.                                       *)
StartReport ==
  /\ StartCall
  /\ report' = NothingStored
  /\ UNCHANGED <<memory, printed>>

(* The frame is parsed by the current step, if a sequence runs.             *)
StoreResults ==
  /\ BusEvent
  /\ IF answers' = answers
       THEN UNCHANGED report
       ELSE \E payload \in Payloads(Head(rx)) :
              report' = Parsed(exec.stepIndex, payload)
  /\ UNCHANGED <<memory, printed>>

(* finishCurrentSequence prints the results; they go with the execution.    *)
PrintResults ==
  /\ SequencerEvent
  /\ IF completed' = completed
       THEN UNCHANGED <<report, printed>>
       ELSE printed' = report /\ report' = NothingStored
  /\ UNCHANGED memory

ReportNext ==
  \/ StartReport
  \/ StoreResults
  \/ PrintResults
  \/ /\ ConfigureCall \/ InitCall \/ RegisterPendingCall \/ RegisterBusCall \/ RunCall
          \/ Wait \/ Interrupted \/ Quit \/ Answer \/ BusFault \/ Halted
     /\ UNCHANGED reportVars

ReportSpec == ReportInit /\ [][ReportNext]_<<vars, reportVars>>

(* The fairness of UIM342App; the contents of frames stop nobody.           *)
ReportFairSpec ==
  ReportSpec /\ WF_vars(MainStep) /\ WF_vars(LoopStep) /\ WF_vars(Answer)

-----------------------------------------------------------------------------
(* Properties.                                                              *)

EnableFlags == {"IE_PIN1ChangeNotification", "IE_PIN2ChangeNotification",
                "IE_PIN3ChangeNotification", "IE_PTPFinishNotification"}

PositionFields == {"RelativePosition", "AbsolutePosition"}

\* The values of one byte, read by read8.
ByteFields == {"Bitrate", "DeviceCANID", "GroupCANID", "MT_State"}

\* The register a field is about.
RequestOf(f) == CHOOSE r \in Requests : f \in DOMAIN StepAt(r).stores

(* The number the controller gave for a field, of the bytes of its answer;  *)
(* the model number and the firmware version share one.                     *)
NumberIn(bytes, f) ==
  CASE f = "Model"           -> LittleEndian(SubSeq(bytes, 1, 3))
    [] f = "FirmwareVersion" -> LittleEndian(SubSeq(bytes, 5, 6))
    [] OTHER                 -> LittleEndian(bytes)

Given(f) == NumberIn(regs[RequestOf(f)], f)

(* What a field ought to say when the controller gave the number n.  A      *)
(* position is signed: the examples add -1000 to it.                        *)
Truth(f, n) ==
  CASE f \in {"IC_PositiveMotorDirectionClockwise", "QE_BatteryStatusLow"} -> n = 0
    [] f \in {"IC_MotorDriverOnAfterPowerIsOn", "IC_LockDownOnEStop",
              "IC_ExecuteTheUserProgramAfterPowerIsOn", "IC_UnitsOfACAndDC",
              "IC_EncoderType", "IC_ControlType", "IC_SoftwareLimit"}
         \cup EnableFlags -> n # 0
    [] f = "MT_State" -> n = 1
    [] f = "Bitrate"  -> IF n \in 0..4 THEN <<1000, 800, 500, 250, 125>>[n + 1] ELSE 0
    [] f \in PositionFields -> AsInt(n)
    [] OTHER -> n

(* What the code says instead: no enable flag is set; a position is printed *)
(* as a uint, a serial number as an int; in a byte, read8 leaves the bits   *)
(* of what was in the variable before.  Nothing else is known to be wrong.  *)
KnownUntruth(f, n) ==
  CASE f \in EnableFlags    -> FALSE
    [] f \in PositionFields -> n
    [] f = "SerialNumber"   -> AsInt(n)
    [] f \in ByteFields     -> Truth(f, OrByte(garbage[1], n))
    [] OTHER                -> Truth(f, n)

\* The requests whose fields are printed.
Told == {r \in Requests : \A f \in DOMAIN StepAt(r).stores : printed[f] # Missing}

(* Unless a frame came that answered nothing, what is printed is complete   *)
(* and nothing else in it is untrue: the responses are taken apart as the   *)
(* controller makes them and end up under the right names.                  *)
UntruthsKnown ==
  (completed # <<>> /\ Surplus = 0) =>
    /\ Told = Requests
    /\ \A f \in Fields : \/ printed[f] = Truth(f, Given(f))
                         \/ printed[f] = KnownUntruth(f, Given(f))

(* A frame that answers nothing is not made up for: from then on two frames *)
(* can be given to one step and none to the next, again and again, and the  *)
(* sequence still counts as complete.  With S such frames at least one step *)
(* in S + 1 has its fields printed, and all have without.                   *)
GapsBounded ==
  completed # <<>> => Len(Steps) <= Cardinality(Told) * (Surplus + 1)

(* The report says what the controller's registers held: the enable flags   *)
(* are its own, as the two branches of the code have it, a position can be  *)
(* negative, as in the examples (cansend_examples.txt:35, "18.FC.FF.FF -    *)
(* Sub Position"), and the answer to "Read Motor Driver State" (line 7      *)
(* there) is what is said of the driver.                                    *)
ReportTrue ==
  (completed # <<>> /\ Surplus = 0) => \A f \in Fields : printed[f] = Truth(f, Given(f))

(* Every request carries the IDs of the examples (cansend_examples.txt:1):  *)
(* "ProducerID: 4, ConsumerID: 5", as setup() gives them to the device.     *)
RequestsAddressed ==
  \A r \in Range(tx) :
    RequestID(r) = Identifier!WireID(BitsOf(4), BitsOf(Net.nodeID[Driver]),
                                     BitsOf(StepAt(r).cmd))
=============================================================================
