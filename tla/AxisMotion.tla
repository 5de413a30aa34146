----------------------------- MODULE AxisMotion -----------------------------
(***************************************************************************)
(* Moving the axis: the motion branch of App::execute (uim342_utils.cpp),  *)
(* the parameters it shares with the sequences (CmdSeqParameters,          *)
(* CmdSequence.cpp), the requests of the motion sequences (UIM342Cmd.cpp)  *)
(* and what the motor controller does when they reach it.                  *)
(*                                                                         *)
(* UIM342App decides when a step sends its request and when the controller *)
(* answers; this module gives the requests of the motion steps contents.   *)
(*                                                                         *)
(* execute() as it stands starts four sequences and never runs the event   *)
(* loop: that is the plan {}, under which nothing is ever sent.  The other *)
(* plans are not the code.  1..4 is what the branch says with its four     *)
(* commented-out lines (179, 182, 185, 189) put back, which run the loop   *)
(* behind each start, and {4} is the one run the axisInfo branch has.      *)
(***************************************************************************)
EXTENDS UIM342App, Integers

CONSTANTS
  RunPlans,   \* sets of starts behind which the event loop is run, {} in the code
  Increments, \* what the option -i may set m_increment to
  MaxInt,     \* the greatest int, 2^31 - 1 in the code
  PowerOn     \* what the controller may have been left like

VARIABLES
  increment, \* m_increment
  params,    \* m_cmdParams: the parameters that are set, by their IDs
  wanted,    \* history: the parameters when the current sequence was started
  orders,    \* the requests in tx with their contents
  motor,     \* the controller and its motor
  executed   \* history: the orders executed, each with the motor before it

motionVars == <<increment, params, wanted, orders, motor, executed>>

-----------------------------------------------------------------------------
(* Command codes of the steps, in the order of initCmdSteps.                *)

MDEnable     == 149 \* 0x95
SetPosition  == 159 \* 0x9F
SetSpeed     == 158 \* 0x9E
BeginMotion  == 150 \* 0x96
ReadPosition == 160 \* 0xA0
StopMotion   == 151 \* 0x97

WrongMotionStepsStopFirst ==
  [mdEnable    |-> <<MDEnable>>,
   setupMotion |-> <<SetPosition, SetSpeed>>,
   execMotion  |-> <<StopMotion, ReadPosition, BeginMotion>>]

\* The second step of execMotion sleeps for ten seconds and then sends.
MotionSteps ==
  [mdEnable    |-> <<MDEnable>>,
   setupMotion |-> <<SetPosition, SetSpeed>>,
   execMotion  |-> <<BeginMotion, ReadPosition, StopMotion>>]

Ints == -(MaxInt + 1)..MaxInt

ASSUME MotionAssumption ==
  /\ Cmd = "axisMove"
  /\ \A s \in DOMAIN MotionSteps : StepCount[s] = Len(MotionSteps[s])
  /\ RunPlans \subseteq SUBSET DOMAIN Command
  /\ MaxInt \in Nat
  /\ Increments \cup {1000} \subseteq Ints
  /\ PowerOn \subseteq [driver: BOOLEAN, target: Int, speed: Int, moving: {FALSE}]

-----------------------------------------------------------------------------
(* Parameters.  setValueFromInt writes the number in decimal and            *)
(* lookupAsInt reads it back with %i: in the model the text of a number is  *)
(* the number.                                                              *)

WrongSetValueKeepsOld(p, id, value) ==
  [k \in DOMAIN p \cup {id} |-> IF k \in DOMAIN p THEN p[k] ELSE value]

\* CmdSeqParameters::setValue, over what was set before.
SetValue(p, id, value) == [k \in DOMAIN p \cup {id} |-> IF k = id THEN value ELSE p[k]]

\* CmdSeqParameters::isSetOn, for the spellings execute() uses.
IsSetOn(p, id) == id \in DOMAIN p /\ p[id] = "on"

\* append32 of an int: two's complement.
Word(n) == n % (2 * (MaxInt + 1))

WrongPayloadSwapped(cmd, p) ==
  CASE cmd = MDEnable    -> IF IsSetOn(p, "md_enable") THEN 1 ELSE 0
    [] cmd = SetPosition -> Word(p["speed"])
    [] cmd = SetSpeed    -> Word(p["increment"])
    [] OTHER             -> 0

(* formatRequest: the data behind the command code; 0 also stands for none. *)
(* A missing number would fail the step; execute() sets all of them first.  *)
Payload(cmd, p) ==
  CASE cmd = MDEnable    -> IF IsSetOn(p, "md_enable") THEN 1 ELSE 0
    [] cmd = SetPosition -> Word(p["increment"])
    [] cmd = SetSpeed    -> Word(p["speed"])
    [] OTHER             -> 0

\* A request of the current sequence; asked is what it would have carried had
\* the parameters been those of the start of its sequence.
Order(index) ==
  LET cmd == MotionSteps[curSeq][index + 1]
  IN  [cmd   |-> cmd,
       data  |-> Payload(cmd, params),
       asked |-> Payload(cmd, wanted)]

-----------------------------------------------------------------------------
(* The controller.                                                          *)

Signed(word) == IF word <= MaxInt THEN word ELSE word - 2 * (MaxInt + 1)

\* A motor without its driver does not move.
After(order, m) ==
  CASE order.cmd = MDEnable    -> [m EXCEPT !.driver = order.data = 1,
                                           !.moving = @ /\ order.data = 1]
    [] order.cmd = SetPosition -> [m EXCEPT !.target = Signed(order.data)]
    [] order.cmd = SetSpeed    -> [m EXCEPT !.speed = Signed(order.data)]
    [] order.cmd = BeginMotion -> [m EXCEPT !.moving = m.driver]
    [] order.cmd = StopMotion  -> [m EXCEPT !.moving = FALSE]
    [] OTHER                   -> m

Executes(order) ==
  /\ motor' = After(order, motor)
  /\ executed' = executed \cup {[order |-> order, motor |-> motor]}

-----------------------------------------------------------------------------
(* The calls.                                                               *)

SettingsOn(i) ==
  <<<<"setValue", "increment", i>>, <<"setValue", "speed", 1000>>,
    <<"setValue", "md_enable", "on">>>>

SettingsOff == <<<<"setValue", "md_enable", "off">>>>

Starting(k) == <<<<"startSequence", Command[k]>>>>

WrongMotionCallsOffAtOnce(i) ==
  <<SettingsOn(i) \o Starting(1) \o SettingsOff, Starting(2), Starting(3), Starting(4)>>

\* The motion branch of execute() as it stands, up to each of its starts.
MotionCalls(i) ==
  <<SettingsOn(i) \o Starting(1), Starting(2), Starting(3), SettingsOff \o Starting(4)>>

\* The calls with those runs of the event loop in between that the plan adds.
WithRuns(calls, plan) ==
  LET Run(k) == IF k \in plan THEN <<<<"run", "loop">>>> ELSE <<>>
  IN  Startup \o (calls[1] \o Run(1)) \o (calls[2] \o Run(2))
              \o (calls[3] \o Run(3)) \o (calls[4] \o Run(4))

\* main() names the axis before init().
MotionInit ==
  /\ increment \in Increments
  /\ \E plan \in RunPlans : InitWith(WithRuns(MotionCalls(increment), plan))
  /\ params = SetValue(<<>>, "axisID", "X")
  /\ wanted = <<>>
  /\ orders = <<>>
  /\ motor \in PowerOn
  /\ executed = {}

SetValueCall ==
  /\ Calling("setValue")
  /\ todo' = Tail(todo)
  /\ params' = SetValue(params, Head(todo)[2], Head(todo)[3])
  /\ UNCHANGED <<seqVars, loopVars, openVars, quit, busVars, histVars, faults>>
  /\ UNCHANGED <<increment, wanted, orders, motor, executed>>

(* An execution keeps a pointer to the parameters, not a copy of them.      *)
StartMotionCall ==
  /\ StartCall
  /\ wanted' = IF curSeq = NoSeq THEN params ELSE wanted
  /\ UNCHANGED <<increment, params, orders, motor, executed>>

\* A step that sends formats its request there and then.
SendOrder ==
  /\ SequencerEvent
  /\ orders' = IF tx' = tx THEN orders ELSE Append(orders, Order(Sequencer!NextIndex))
  /\ UNCHANGED <<increment, params, wanted, motor, executed>>

ExecuteOrder ==
  /\ Answer
  /\ Executes(Head(orders))
  /\ orders' = Tail(orders)
  /\ UNCHANGED <<increment, params, wanted>>

(* Of a lost exchange either the request or the answer is lost.             *)
OrderFault ==
  /\ BusFault
  /\ UNCHANGED <<increment, params, wanted>>
  /\ \/ tx' = tx /\ UNCHANGED <<orders, motor, executed>>
     \/ tx' # tx /\ orders' = Tail(orders) /\ Executes(Head(orders))
     \/ /\ tx' # tx /\ rx' = rx
        /\ orders' = Tail(orders)
        /\ UNCHANGED <<motor, executed>>

\* The motor arrives, sooner or later than the ten seconds.
MotionEnds ==
  /\ ~Exited
  /\ motor.moving
  /\ motor' = [motor EXCEPT !.moving = FALSE]
  /\ UNCHANGED <<vars, increment, params, wanted, orders, executed>>

MotionNext ==
  \/ SetValueCall
  \/ StartMotionCall
  \/ SendOrder
  \/ ExecuteOrder
  \/ OrderFault
  \/ MotionEnds
  \/ /\ ConfigureCall \/ InitCall \/ RegisterPendingCall \/ RegisterBusCall \/ RunCall
          \/ Wait \/ Interrupted \/ Quit \/ BusEvent \/ Halted
     /\ UNCHANGED motionVars

MotionSpec == MotionInit /\ [][MotionNext]_<<vars, motionVars>>

-----------------------------------------------------------------------------
(* Properties.                                                              *)

Unheard == faults["lose"] + faults["sendFail"]

(* No call refused, the motor begins to move with its driver on and to the  *)
(* target and at the speed of this command; a frame nobody asked for can    *)
(* make a sequence pass over its first step, which is to switch the driver  *)
(* on or to set the target, and it takes a lost request besides to miss     *)
(* the speed.                                                               *)
MotionPrepared ==
  \A e \in executed : (e.order.cmd = BeginMotion /\ refusals = {}) =>
    /\ e.motor.driver \/ Surplus > 0
    /\ e.motor.target = increment \/ Surplus > 0
    /\ e.motor.speed = 1000 \/ (Surplus > 0 /\ Unheard > 0)

(* The driver is not switched off under a moving motor, although nothing    *)
(* waits for the motion to end and any call may be refused: the order to    *)
(* stop comes first, unless it is lost and a frame nobody asked for stands  *)
(* in for its answer.                                                       *)
StoppedBeforeOff ==
  \A e \in executed :
    (e.order.cmd = MDEnable /\ e.order.data = 0 /\ e.motor.moving) =>
      Surplus > 0 /\ Unheard > 0

(* A sequence reads the parameters when its steps run, and they may have    *)
(* changed since it was started; but not without a call refused in between. *)
ParametersAsAsked ==
  \A o \in Range(orders) \cup {e.order : e \in executed} :
    o.data # o.asked => refusals # {}

(* When the last of the four sequences is complete, the motor is at rest    *)
(* with its driver off, unless a frame nobody asked for came in.            *)
RestsWhenComplete ==
  (completed = Command /\ Surplus = 0) =>
    ~motor.driver /\ ~motor.moving /\ orders = <<>>
=============================================================================
