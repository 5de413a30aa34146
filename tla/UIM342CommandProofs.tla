------------------------- MODULE UIM342CommandProofs -------------------------
(***************************************************************************)
(* Theorems about UIM342App for the command axisInfo: when the program     *)
(* returns its command is done, unless a signal or garbage prevented it;   *)
(* without faults it does what RequestResponse specifies; and what it      *)
(* takes for it to hang: the event loop asleep, nothing on the bus, and    *)
(* nothing that could wake it.                                             *)
(***************************************************************************)
EXTENDS UIM342AnswersProofs

ToStart == \E c \in Range(todo) : c[1] = "startSequence"

(* The command starts one sequence, once.                                   *)
OneStart ==
  /\ \A i \in DOMAIN todo : todo[i][1] = "startSequence" => todo[i][2] = "axisInfo"
  /\ \A i, j \in DOMAIN todo :
       todo[i][1] = "startSequence" /\ todo[j][1] = "startSequence" => i = j

Info == <<"axisInfo">>

OnceInv ==
  /\ OneStart
  /\ ToStart => ~SP!Running /\ completed = <<>> /\ started = <<>> /\ quit = 0
  /\ SP!Running => curSeq = "axisInfo" /\ completed = <<>>
  /\ completed \in {<<>>, Info}
  /\ quit > 0 => completed = Info

(* The calls of axisInfo start one sequence.                                *)
LEMMA InitOneStart ==
  ASSUME Cmd = "axisInfo", todo = Calls
  PROVE  OneStart /\ ToStart
<1> DEFINE c == [i \in DOMAIN Command |-> <<"startSequence", Command[i]>>]
           sc == Startup \o c
           d == <<<<"run", "loop">>>>
<1>1. c = <<<<"startSequence", "axisInfo">>>>
  BY DEF Command
<1>2. Startup \in Seq(TodoCalls) /\ Len(Startup) \in Nat /\ DOMAIN Startup = 1..Len(Startup)
      /\ \A i \in DOMAIN Startup : Startup[i][1] # "startSequence"
  <2>1. Startup \in Seq(TodoCalls) /\ \A i \in DOMAIN Startup : Stage[Startup[i][1]] <= 3
    BY StartupStages
  <2>2. Stage["startSequence"] = 4
    BY DEF Stage
  <2> QED
    BY <2>1, <2>2
<1>3. c \in Seq(TodoCalls) /\ d \in Seq(TodoCalls) /\ Len(c) = 1 /\ Len(d) = 1
  BY <1>1, AppAssumption DEF TodoCalls
<1> DEFINE n == Len(Startup)
<1>4. /\ sc \in Seq(TodoCalls) /\ Len(sc) = n + 1
      /\ \A i \in 1..n : sc[i] = Startup[i]
      /\ sc[n + 1] = <<"startSequence", "axisInfo">>
  <2>1. sc \in Seq(TodoCalls) /\ Len(sc) = n + 1 /\ \A i \in 1..n : sc[i] = Startup[i]
    BY <1>2, <1>3, PrefixKept
  <2>2. sc[n + 1] = c[1]
    BY <1>2, <1>3
  <2> QED
    BY <1>1, <2>1, <2>2
<1> HIDE DEF sc
<1>5. /\ DOMAIN (sc \o d) = 1..(n + 2)
      /\ \A i \in 1..(n + 1) : (sc \o d)[i] = sc[i]
      /\ (sc \o d)[n + 2] = <<"run", "loop">>
  BY <1>2, <1>3, <1>4
<1>6. todo = sc \o d
  BY DEF Calls, sc
<1>7. ASSUME NEW i \in DOMAIN todo, todo[i][1] = "startSequence"
      PROVE  i = n + 1 /\ todo[i][2] = "axisInfo"
  <2>1. i \in 1..n \/ i = n + 1 \/ i = n + 2
    BY <1>2, <1>5, <1>6
  <2>2. CASE i \in 1..n
    <3>1. todo[i] = Startup[i]
      BY <1>2, <1>4, <1>5, <1>6, <2>2
    <3> QED
      BY <1>2, <1>7, <2>2, <3>1
  <2>3. CASE i = n + 1
    BY <1>2, <1>4, <1>5, <1>6, <2>3
  <2>4. CASE i = n + 2
    BY <1>5, <1>6, <1>7, <2>4
  <2> QED
    BY <2>1, <2>2, <2>3, <2>4
<1>8. n + 1 \in DOMAIN todo /\ todo[n + 1] = <<"startSequence", "axisInfo">>
  BY <1>2, <1>4, <1>5, <1>6
<1> QED
  BY <1>7, <1>8 DEF OneStart, ToStart, Range

(* Calls are taken from the front, and each by its own action.              *)
LEMMA TodoMoves ==
  ASSUME [Next]_vars
  PROVE  /\ todo' = todo \/ (todo # <<>> /\ todo' = Tail(todo))
         /\ ~StartCall => todo' = todo \/ (todo # <<>> /\ Head(todo)[1] # "startSequence")
         /\ ~RunCall => todo' = todo \/ (todo # <<>> /\ Head(todo)[1] # "run")
<1>1. CASE \/ ConfigureCall \/ InitCall \/ RegisterPendingCall \/ RegisterBusCall
           \/ StartCall \/ RunCall
  BY <1>1 DEF ConfigureCall, InitCall, RegisterPendingCall, RegisterBusCall, StartCall, RunCall,
     Calling
<1>2. CASE \/ Wait \/ Interrupted \/ Quit \/ SequencerEvent \/ BusEvent \/ Answer \/ BusFault
           \/ UNCHANGED vars
  BY <1>2 DEF Wait, Interrupted, Quit, SequencerEvent, BusEvent, Answer, BusFault, vars
<1> QED
  BY <1>1, <1>2 DEF Next, MainStep, LoopStep, Halted

(* Calls are taken from the front.                                          *)
LEMMA NextOneStart ==
  ASSUME CallsInv, OneStart, [Next]_vars
  PROVE  /\ OneStart'
         /\ ToStart' => ToStart
         /\ StartCall => ToStart /\ ~ToStart' /\ Head(todo)[2] = "axisInfo"
         /\ ToStart /\ ~ToStart' => StartCall
<1>1. todo \in Seq(TodoCalls)
  BY DEF CallsInv
<1>2. CASE todo' = todo
  BY <1>2 DEF OneStart, ToStart, StartCall, Calling
<1>3. CASE todo # <<>> /\ todo' = Tail(todo)
  <2>1. /\ Len(todo) \in Nat /\ DOMAIN todo = 1..Len(todo)
        /\ 1 \in DOMAIN todo /\ Head(todo) = todo[1] /\ DOMAIN todo' = 1..(Len(todo) - 1)
        /\ \A i \in DOMAIN todo' : i + 1 \in DOMAIN todo /\ todo'[i] = todo[i + 1] /\ i \in Nat
    BY <1>1, <1>3
  <2>2. OneStart'
    BY <2>1 DEF OneStart
  <2>3. ToStart' => ToStart
    BY <2>1 DEF ToStart, Range
  <2>4. Head(todo)[1] = "startSequence" => ~ToStart' /\ Head(todo)[2] = "axisInfo" /\ ToStart
    <3> SUFFICES ASSUME todo[1][1] = "startSequence"
                 PROVE  ~ToStart' /\ todo[1][2] = "axisInfo" /\ ToStart
      BY <2>1
    <3>1. ASSUME NEW i \in DOMAIN todo', todo'[i][1] = "startSequence" PROVE FALSE
      <4>1. i + 1 \in DOMAIN todo /\ todo[i + 1][1] = "startSequence" /\ i + 1 # 1
        BY <2>1, <3>1
      <4> QED
        BY <2>1, <4>1 DEF OneStart
    <3> QED
      BY <2>1, <3>1 DEF ToStart, Range, OneStart
  <2>5. StartCall => Head(todo)[1] = "startSequence"
    BY DEF StartCall, Calling
  <2>6. ToStart /\ ~ToStart' => Head(todo)[1] = "startSequence"
    BY <1>3, NextCall DEF ToStart
  <2>7. ~StartCall => todo' = todo \/ Head(todo)[1] # "startSequence"
    BY TodoMoves
  <2>8. ToStart /\ ~ToStart' => StartCall
    <3> SUFFICES ASSUME ToStart, ~ToStart' PROVE StartCall
      OBVIOUS
    <3>1. Head(todo)[1] = "startSequence"
      BY <2>6
    <3>2. todo' # todo
      BY DEF ToStart
    <3> QED
      BY <2>7, <3>1, <3>2
  <2> QED
    BY <2>2, <2>3, <2>4, <2>5, <2>8
<1> QED
  BY <1>2, <1>3, TodoMoves

(* The sequence is still to be started at first.                            *)
LEMMA InitOnce ==
  ASSUME Cmd = "axisInfo", Init
  PROVE  OnceInv
<1>1. OneStart
  BY InitOneStart DEF Init, InitWith
<1>2. ~SP!Running /\ completed = <<>> /\ started = <<>> /\ quit = 0
  BY AppAssumption DEF Init, InitWith, Sequencer!Init, SP!Running
<1> QED
  BY <1>1, <1>2 DEF OnceInv

(* It is started once, and finishes no more than once.                      *)
LEMMA NextOnce ==
  ASSUME TypeInv, OnceInv, QuietInv, [Next]_vars
  PROVE  OnceInv'
<1>a. CallsInv /\ quit \in Nat /\ curSeq \in SeqIDs \cup {NoSeq, Wild}
  BY DEF TypeInv, RestTypes, SP!TypeOK
<1>b. /\ OneStart' /\ (ToStart' => ToStart)
      /\ StartCall => ToStart /\ ~ToStart' /\ Head(todo)[2] = "axisInfo"
  BY <1>a, NextOneStart DEF OnceInv
<1>1. CASE \/ ConfigureCall \/ InitCall \/ RegisterPendingCall \/ RegisterBusCall \/ RunCall
           \/ Wait \/ Interrupted \/ Answer \/ BusFault \/ UNCHANGED vars
  <2>1. UNCHANGED <<curSeq, completed, started, quit>>
    BY <1>1 DEF ConfigureCall, InitCall, RegisterPendingCall, RegisterBusCall, RunCall, Wait,
       Interrupted, Answer, BusFault, vars, seqVars, histVars
  <2> QED
    BY <1>b, <2>1 DEF OnceInv, SP!Running
<1>2. CASE Quit
  <2>1. UNCHANGED <<curSeq, completed, started>> /\ quit' = quit - 1 /\ quit > 0
    BY <1>2 DEF Quit, seqVars, histVars, Loop!HandleQuit, Counts, Descriptors
  <2>2. ~ToStart
    BY <2>1 DEF OnceInv
  <2> QED
    BY <1>a, <1>b, <2>1, <2>2 DEF OnceInv, SP!Running
<1>3. CASE StartCall
  <2>1. ToStart /\ ~ToStart' /\ completed = <<>> /\ quit = 0 /\ Head(todo)[2] = "axisInfo"
    BY <1>3, <1>b DEF OnceInv
  <2>2. UNCHANGED <<completed, quit>> /\ curSeq' \in {curSeq, "axisInfo"}
    BY <1>3, <2>1 DEF StartCall, Sequencer!StartSequence, seqVars
  <2> QED
    BY <1>b, <2>1, <2>2 DEF OnceInv, SP!Running
<1>4. CASE SequencerEvent
  <2>a. ~ToStart
    <3>1. loop = "handling"
      BY <1>4 DEF SequencerEvent, Loop!Handle
    <3> QED
      BY <3>1 DEF QuietInv, Quiet, ToStart
  <2>1. CASE Sequencer!FinishEvent /\ quit' = quit + 1 /\ completed' = Append(completed, curSeq)
    <3>1. curSeq = "axisInfo" /\ completed = <<>> /\ curSeq' = NoSeq
      BY <2>1 DEF Sequencer!FinishEvent, Sequencer!Running, OnceInv, SP!Running
    <3>2. completed' = Info
      BY <2>1, <3>1 DEF Info
    <3> QED
      BY <1>a, <1>b, <2>a, <2>1, <3>1, <3>2, AppAssumption DEF OnceInv, SP!Running
  <2>2. CASE UNCHANGED <<curSeq, completed, quit>>
    BY <1>b, <2>a, <2>2 DEF OnceInv, SP!Running
  <2> QED
    BY <1>4, <2>1, <2>2 DEF SequencerEvent, Sequencer!IdleEvent, Sequencer!InitEvent,
       Sequencer!RunStepEvent, Sequencer!StepDoneEvent
<1>5. CASE BusEvent
  <2>1. UNCHANGED <<curSeq, completed, started, quit>>
    BY <1>5 DEF BusEvent, seqVars, Sequencer!ProcessFrame, Sequencer!WildFrame
  <2> QED
    BY <1>b, <2>1 DEF OnceInv, SP!Running
<1> QED
  BY <1>1, <1>2, <1>3, <1>4, <1>5 DEF Next, MainStep, LoopStep, Halted

-----------------------------------------------------------------------------
(* The command is done.                                                     *)

\* The event loop that follows the command's start is the last call.
RunIsLast == todo # <<>> => <<"run", "loop">> \in Range(todo)

Outcome ==
  /\ ~ToStart /\ loop = "none" => crashed \/ curSeq = Wild
  /\ todo = <<>> /\ loop = "stopped" => completed = Info \/ faults["interrupt"] > 0

(* The calls of axisInfo end with the event loop.                           *)
LEMMA InitRunIsLast ==
  ASSUME Cmd = "axisInfo", todo = Calls
  PROVE  RunIsLast
<1> DEFINE sc == Startup \o [i \in DOMAIN Command |-> <<"startSequence", Command[i]>>]
           d == <<<<"run", "loop">>>>
<1>1. todo = sc \o d
  BY DEF Calls
<1>2. sc \in Seq(TodoCalls) /\ d \in Seq(TodoCalls)
  <2>1. Startup \in Seq(TodoCalls)
    BY StartupStages
  <2>2. Command \in Seq(SeqIDs)
    BY CommandType
  <2>3. [i \in DOMAIN Command |-> <<"startSequence", Command[i]>>] \in Seq(TodoCalls)
    BY <2>2 DEF TodoCalls
  <2>4. d \in Seq(TodoCalls)
    BY AppAssumption DEF TodoCalls
  <2> QED
    BY <2>1, <2>3, <2>4
<1> HIDE DEF sc
<1>3. Len(sc) + 1 \in DOMAIN todo /\ todo[Len(sc) + 1] = <<"run", "loop">>
  BY <1>1, <1>2
<1> QED
  BY <1>3 DEF RunIsLast, Range

(* They still do when calls are taken from the front.                       *)
LEMMA NextRunIsLast ==
  ASSUME CallsInv, RunIsLast, [Next]_vars
  PROVE  RunIsLast'
<1>1. CASE todo' = todo
  BY <1>1 DEF RunIsLast
<1>2. CASE todo # <<>> /\ todo' = Tail(todo)
  <2> SUFFICES ASSUME todo' # <<>> PROVE <<"run", "loop">> \in Range(todo)'
    BY DEF RunIsLast
  <2>1. <<"run", "loop">> = Head(todo) \/ <<"run", "loop">> \in Range(todo)'
    BY <1>2, NextCall DEF RunIsLast
  <2>2. CASE <<"run", "loop">> = Head(todo)
    <3>1. PICK c : c \in Range(todo)'
      <4>1. todo' \in Seq(TodoCalls)
        BY <1>2, NextCall DEF CallsInv
      <4>2. 1 \in DOMAIN todo'
        BY <4>1
      <4> QED
        BY <4>2 DEF Range
    <3>2. c \in TodoCalls /\ Stage["run"] <= Stage[c[1]]
      BY <1>2, <2>2, <3>1, NextCall
    <3>3. c = <<"run", "loop">>
      BY <3>2, CallStages DEF Stage
    <3> QED
      BY <3>1, <3>3
  <2> QED
    BY <2>1, <2>2
<1> QED
  BY <1>1, <1>2, TodoMoves

DoneInv == TypeInv /\ StartupInv /\ QuietInv /\ OnceInv /\ RunIsLast /\ Outcome

(* The invariant holds at first.                                            *)
LEMMA InitDone ==
  ASSUME Cmd = "axisInfo", Init
  PROVE  DoneInv
<1>1. OnceInv /\ TypeInv /\ StartupInv
  BY InitOnce, InitTypes, InitStartup
<1>2. RunIsLast
  BY InitRunIsLast DEF Init, InitWith
<1>3. QuietInv
  BY InitLag DEF LagInv
<1>4. ToStart /\ loop = "none"
  BY InitOneStart DEF Init, InitWith, Loop!Init
<1> QED
  BY <1>1, <1>2, <1>3, <1>4 DEF DoneInv, Outcome

(* The loop only stops by a quit, which follows a finished sequence, or a   *)
(* signal.                                                                  *)
LEMMA NextOutcome ==
  ASSUME DoneInv, [Next]_vars
  PROVE  Outcome'
<1>a. CallsInv /\ curSeq \in SeqIDs \cup {NoSeq, Wild}
  BY DEF DoneInv, TypeInv, SP!TypeOK
<1>b. /\ OneStart' /\ (ToStart' => ToStart)
      /\ ToStart /\ ~ToStart' => StartCall
      /\ ~RunCall => todo' = todo \/ (todo # <<>> /\ Head(todo)[1] # "run")
      /\ todo' = todo \/ (todo # <<>> /\ todo' = Tail(todo))
  BY <1>a, NextOneStart, TodoMoves DEF DoneInv, OnceInv
<1>c. /\ loop' = "none" => loop = "none" /\ registered' = registered
      /\ loop # "none" => registered \subseteq registered' /\ loop' # "none"
  BY LoopMoves
<1>d. /\ faults'["interrupt"] \in Nat /\ faults["interrupt"] \in Nat
      /\ faults'["interrupt"] >= faults["interrupt"]
  BY TypesHaveCore, FaultsGrow, FaultsAre DEF DoneInv
<1>1. ASSUME ~ToStart', loop' = "none" PROVE crashed' \/ curSeq' = Wild
  <2>1. loop = "none" /\ registered = {}
    BY <1>c, <1>1 DEF DoneInv, StartupInv
  <2>2. CASE ToStart
    <3>1. StartCall /\ curSeq \in {NoSeq, Wild}
      BY <1>a, <1>b, <1>1, <2>2 DEF DoneInv, OnceInv, SP!Running
    <3> QED
      BY <2>1, <3>1 DEF StartCall, seqVars
  <2>3. CASE ~ToStart
    <3>1. crashed \/ curSeq = Wild
      BY <2>1, <2>3 DEF DoneInv, Outcome
    <3>2. CASE crashed
      BY <3>2, CrashEnds DEF vars, seqVars
    <3>3. CASE ~crashed
      <4>1. ~StartCall
        BY <1>a, <2>3, NextOneStart DEF DoneInv, OnceInv
      <4>2. ~SequencerEvent /\ ~BusEvent
        BY <2>1 DEF SequencerEvent, BusEvent, Loop!Handle
      <4>3. curSeq' = curSeq
        BY <4>1, <4>2 DEF Next, MainStep, LoopStep, Halted, vars, seqVars, ConfigureCall,
           InitCall, RegisterPendingCall, RegisterBusCall, RunCall, Wait, Interrupted, Quit,
           Answer, BusFault
      <4> QED
        BY <3>1, <3>3, <4>3
    <3> QED
      BY <3>2, <3>3
  <2> QED
    BY <2>2, <2>3
<1>2. ASSUME todo' = <<>>, loop' = "stopped"
      PROVE  completed' = Info \/ faults'["interrupt"] > 0
  <2>1. CASE todo = <<>>
    <3>1. CASE loop = "stopped"
      <4>1. completed = Info => completed' = Info
        <5>1. CASE SequencerEvent
          <6>1. completed = Info => ~SP!Running
            BY DEF DoneInv, OnceInv, Info
          <6>2. completed' = completed \/ SP!Running
            BY <5>1 DEF SequencerEvent, Sequencer!FinishEvent, Sequencer!Running, SP!Running
          <6> QED
            BY <6>1, <6>2
        <5>2. CASE ~SequencerEvent
          BY <5>2 DEF Next, MainStep, LoopStep, Halted, vars, histVars, ConfigureCall, InitCall,
             RegisterPendingCall, RegisterBusCall, StartCall, RunCall, Wait, Interrupted, Quit,
             BusEvent, Answer, BusFault
        <5> QED
          BY <5>1, <5>2
      <4> QED
        BY <1>d, <2>1, <3>1, <4>1 DEF DoneInv, Outcome
    <3>2. CASE loop # "stopped"
      <4>1. Interrupted \/ Quit
        BY <1>2, <2>1, <3>2 DEF Next, MainStep, LoopStep, Halted, vars, loopVars, Calling,
           ConfigureCall, InitCall, RegisterPendingCall, RegisterBusCall, StartCall, RunCall,
           Wait, SequencerEvent, BusEvent, Answer, BusFault, Loop!EpollWait, Loop!Handle,
           Loop!AfterHandling
      <4>2. CASE Interrupted
        BY <1>d, <4>2, FaultTypes, FaultsAre DEF Interrupted, DoneInv, TypeInv, RestTypes
      <4>3. CASE Quit
        <5>1. quit > 0 /\ completed' = completed
          BY <4>3 DEF Quit, Loop!HandleQuit, Counts, Descriptors, histVars
        <5> QED
          BY <5>1 DEF DoneInv, OnceInv
      <4> QED
        BY <4>1, <4>2, <4>3
    <3> QED
      BY <3>1, <3>2
  <2>2. CASE todo # <<>>
    <3>1. Head(todo) = <<"run", "loop">>
      BY <1>2, <1>a, <1>b, <2>2, NextCall DEF DoneInv, RunIsLast, Range
    <3>2. RunCall
      BY <1>2, <1>b, <2>2, <3>1
    <3> QED
      BY <1>2, <3>2 DEF RunCall, Loop!Run, Loop!RunFails
  <2> QED
    BY <2>1, <2>2
<1> QED
  BY <1>1, <1>2 DEF Outcome

(* Every action keeps the invariant.                                        *)
LEMMA NextDone ==
  ASSUME DoneInv, [Next]_vars
  PROVE  DoneInv'
<1>1. TypeInv' /\ StartupInv' /\ QuietInv' /\ OnceInv'
  BY NextTypes, NextStartup, NextQuiet, NextOnce DEF DoneInv
<1>2. RunIsLast'
  BY NextRunIsLast DEF DoneInv, TypeInv
<1> QED
  BY <1>1, <1>2, NextOutcome DEF DoneInv

(* When axisInfo returns, its sequence has run to its end, unless a signal  *)
(* broke the event loop or a garbage m_curSeq hid that there is none.       *)
THEOREM InfoDone ==
  ASSUME Cmd = "axisInfo"
  PROVE  Spec => []CommandDone
<1>1. Init => DoneInv
  BY InitDone
<1>2. DoneInv /\ [Next]_vars => DoneInv'
  BY NextDone
<1>3. DoneInv => CommandDone
  <2> SUFFICES ASSUME DoneInv, Returned PROVE CommandDone!2
    BY DEF CommandDone
  <2>1. ~ToStart /\ ~crashed /\ todo = <<>> /\ loop \in {"none", "stopped"}
    BY DEF Returned, OutsideLoop, ToStart, Range
  <2>2. Command = Info
    BY DEF Command, Info
  <2> QED
    BY <2>1, <2>2 DEF DoneInv, Outcome
<1> QED
  BY <1>1, <1>2, <1>3, PTL DEF Spec

-----------------------------------------------------------------------------
(* Without faults, axisInfo is an exchange of requests and responses.       *)

Calm ==
  /\ \A k \in AllFaults : faults[k] = 0
  /\ unsolicited = 0
  /\ rejected = 0
  /\ rx \in Seq(Nat)

\* Every step that was started and does not wait has its answer.
Paired ==
  SP!Running =>
    Len(started) = Len(answers) + (IF exec.stepState \in {"WAITRSP", "ERROR"} THEN 1 ELSE 0)

ExchangeInv == LagInv /\ OnceInv /\ SP!OrderInv /\ Calm /\ Paired

(* Without faults the account of the wake-ups leaves no room: there is one  *)
(* when the next step is due, and none while a step waits, which is the     *)
(* only time a frame is in the socket.                                      *)
LEMMA CalmAccount ==
  ASSUME ExchangeInv
  PROVE  /\ pending > 0 => exec.stepState \notin {"WAITRSP", "ERROR"} \/ ~SP!Running
         /\ rx # <<>> => SP!Running /\ exec.stepState = "WAITRSP" /\ pending = 0
         /\ Surplus = 0
<1>1. /\ Surplus \in Nat /\ Len(tx) \in Nat /\ Len(rx) \in Nat
      /\ pending \in Nat /\ SP!Need \in {0, 1} /\ Waiting \in {0, 1}
      /\ SP!Need + Waiting \in {0, 1} /\ unearned \in Nat
  BY TypesHaveCore, FlightTypes DEF ExchangeInv, LagInv, FlightInv, TypeInv, SP!TypeOK
<1>2. Surplus = 0
  BY FaultsAre DEF ExchangeInv, Calm, Surplus
<1>3. SP!Need <= pending /\ pending <= SP!Need
  <2>1. SP!Need <= pending
    BY DEF ExchangeInv, LagInv, FlightInv, SP!WakeupInv, SP!NoLostWakeup
  <2>2. unearned + pending <= 0 + 0 + SP!Need
    BY DEF ExchangeInv, Calm, LagInv, FlightInv, SP!WakeupInv, SP!WakeupAccount
  <2> QED
    BY <1>1, <2>1, <2>2
<1>4. Len(tx) + Len(rx) + pending <= 0 + SP!Need + Waiting
  BY <1>2 DEF ExchangeInv, LagInv, FlightInv, FlightAccount, InFlight
<1>5. Len(rx) <= Waiting
  BY <1>1, <1>3, <1>4
<1>6. rx # <<>> => Len(rx) > 0
  BY DEF ExchangeInv, Calm
<1>7. rx # <<>> => Waiting = 1 /\ pending = 0
  BY <1>1, <1>3, <1>5, <1>6
<1>8. Waiting = 1 => SP!Running /\ exec.stepState = "WAITRSP"
  BY DEF Waiting
<1>9. pending > 0 => SP!Need = 1
  BY <1>1, <1>3
<1> QED
  BY <1>2, <1>7, <1>8, <1>9 DEF SP!Need, SP!Blocked

(* The running step is the last one started.                                *)
LEMMA LastStarted ==
  ASSUME ExchangeInv, SP!Running, started # <<>>
  PROVE  exec.stepIndex = Len(started) - 1 /\ ~(exec.stepActive /\ exec.stepState = "READY")
<1>1. unsolicited = 0 /\ started \in Seq(Nat) /\ SP!StartedInOrder /\ SP!StepOrder
  BY DEF ExchangeInv, Calm, SP!OrderInv, SP!TypeOK
<1>2. started[1] = 0
  BY <1>1 DEF SP!StartedInOrder
<1>3. exec.stepIndex = started[1] + Len(started) - 1
      /\ (exec.stepActive => exec.stepState # "READY")
  BY <1>1 DEF SP!StepOrder
<1> QED
  BY <1>1, <1>2, <1>3

(* A step is sent when all before it are answered.                          *)
LEMMA IsRequest ==
  ASSUME ExchangeInv, NEW sent \in BOOLEAN, Sequencer!RunStepEvent(sent)
  PROVE  /\ Len(started) = Len(answers)
         /\ Len(started) < StepCount["axisInfo"]
         /\ Len(started') = Len(started) + 1
         /\ exec'.stepState \in {"WAITRSP", "ERROR"}
         /\ curSeq' = curSeq
<1>1. /\ SP!TypeOK /\ SP!Running /\ curSeq = "axisInfo" /\ pending > 0
      /\ SP!RunStepEvent(sent)
  BY SameActions DEF ExchangeInv, OnceInv, SP!OrderInv, Sequencer!RunStepEvent,
     Sequencer!Running, SP!Running
<1>2. SP!NextIndex < StepCount["axisInfo"] /\ SP!NextIndex \in Nat
  BY <1>1, SeqAssumption, SP!RunStepInList, SP!NextIndexNat
<1>3. /\ started' = Append(started, SP!NextIndex) /\ started \in Seq(Nat) /\ curSeq' = curSeq
      /\ exec \in SP!Executions /\ (exec.stepActive => exec.stepState = "READY")
      /\ exec' = [SP!Readied(exec) EXCEPT !.stepIndex = SP!NextIndex,
                    !.stepState = IF sent THEN "WAITRSP" ELSE "ERROR"]
  BY <1>1 DEF SP!RunStepEvent, SP!TypeOK
<1>4. exec'.stepState \in {"WAITRSP", "ERROR"}
  BY <1>3 DEF SP!Readied, SP!Executions
<1>5. Len(started) = Len(answers)
  <2>1. exec.stepState \notin {"WAITRSP", "ERROR"}
    BY <1>1, CalmAccount
  <2>2. answers \in Seq(Nat \X (Nat \cup {NoRequest}))
    BY DEF ExchangeInv, LagInv, FlightInv, TypeInv, RestTypes
  <2> QED
    BY <1>1, <2>1, <2>2 DEF ExchangeInv, Paired
<1>6. Len(started) < StepCount["axisInfo"]
  <2>1. CASE started = <<>>
    BY <1>2, <2>1, AppAssumption
  <2>2. CASE started # <<>>
    <3>1. exec.stepIndex = Len(started) - 1 /\ ~exec.stepActive
      BY <1>1, <1>3, <2>2, LastStarted
    <3>2. SP!NextIndex = Len(started)
      BY <1>3, <3>1 DEF SP!NextIndex
    <3> QED
      BY <1>2, <3>2
  <2> QED
    BY <2>1, <2>2
<1>7. Len(started') = Len(started) + 1
  BY <1>2, <1>3
<1> QED
  BY <1>3, <1>4, <1>5, <1>6, <1>7

(* A frame is the answer to the step that waits.                            *)
LEMMA IsResponse ==
  ASSUME ExchangeInv, rx # <<>>, Sequencer!ProcessFrame(TRUE),
         answers' = Append(answers, <<exec.stepIndex, Head(rx)>>)
  PROVE  /\ Len(started) = Len(answers) + 1
         /\ answers' = Append(answers, <<Len(started) - 1, Len(started) - 1>>)
         /\ Len(answers') = Len(answers) + 1
         /\ exec'.stepState \notin {"WAITRSP", "ERROR"}
         /\ UNCHANGED <<curSeq, started, unsolicited, rejected>>
<1>1. /\ SP!Running /\ exec.stepState = "WAITRSP" /\ pending = 0 /\ Surplus = 0
      /\ answers \in Seq(Nat \X (Nat \cup {NoRequest})) /\ exec \in SP!Executions
      /\ started \in Seq(Nat) /\ rx \in Seq(Nat) /\ tx \in Seq(Nat)
  BY CalmAccount DEF ExchangeInv, LagInv, FlightInv, TypeInv, RestTypes, SP!TypeOK, Calm
<1>2. Len(started) = Len(answers) + 1
  BY <1>1 DEF ExchangeInv, Paired
<1>3. exec.stepIndex = Len(started) - 1 /\ Len(started) - 1 \in Nat
  <2>1. started # <<>> /\ Len(started) - 1 \in Nat
    BY <1>1, <1>2
  <2> QED
    BY <1>1, <2>1, LastStarted
<1>4. Head(rx) = exec.stepIndex
  <2>1. 1 \in DOMAIN rx /\ Head(rx) = rx[1] /\ rx[1] \in Nat
    BY <1>1
  <2>2. Lag(exec.stepIndex, rx[1], 1 - 1 + pending, Surplus)
    BY <1>1, <2>1 DEF ExchangeInv, LagInv, BusLag, LagOK
  <2>3. rx[1] <= exec.stepIndex /\ 1 - 1 + 0 + exec.stepIndex <= 0 + rx[1]
    BY <1>1, <2>2 DEF Lag
  <2> QED
    BY <1>3, <2>1, <2>3
<1>5. exec' = [exec EXCEPT !.stepState = "DONE"]
      /\ UNCHANGED <<curSeq, started, unsolicited, rejected>>
  BY <1>1 DEF Sequencer!ProcessFrame
<1>6. exec'.stepState = "DONE"
  BY <1>1, <1>5 DEF SP!Executions
<1>7. <<exec.stepIndex, Head(rx)>> \in Nat \X (Nat \cup {NoRequest})
  BY <1>3, <1>4
<1>8. Len(answers') = Len(answers) + 1
  BY <1>1, <1>7
<1> QED
  BY <1>2, <1>3, <1>4, <1>5, <1>6, <1>8

(* A sequence finishes when all its steps are answered.                     *)
LEMMA IsComplete ==
  ASSUME ExchangeInv, Sequencer!FinishEvent, SP!Next
  PROVE  Len(answers) = StepCount["axisInfo"] /\ completed = <<>>
<1>1. SP!Running /\ curSeq = "axisInfo" /\ completed = <<>> /\ curSeq' = NoSeq /\ pending > 0
  BY DEF ExchangeInv, OnceInv, Sequencer!FinishEvent, Sequencer!Running, SP!Running
<1>2. SP!Completion
  <2>1. curSeq' # curSeq
    BY <1>1, AppAssumption
  <2> QED
    BY <2>1, SeqAssumption, SP!NextCompletion DEF ExchangeInv, SP!vars
<1>3. Len(started) = StepCount["axisInfo"]
  BY <1>1, <1>2 DEF SP!Completion, ExchangeInv, Calm
<1>4. exec.stepState \notin {"WAITRSP", "ERROR"}
  BY <1>1, CalmAccount
<1>5. Len(answers) \in Nat
  BY DEF ExchangeInv, LagInv, FlightInv, TypeInv, RestTypes
<1> QED
  BY <1>1, <1>3, <1>4, <1>5 DEF ExchangeInv, Paired

(* Without faults every frame answers a request and finds its step waiting. *)
LEMMA NextCalm ==
  ASSUME FaultKinds = {}, ExchangeInv, [Next]_vars
  PROVE  Calm'
<1>a. tx \in Seq(Nat) /\ rx \in Seq(Nat) /\ Calm
  BY DEF ExchangeInv, Calm, LagInv, FlightInv, TypeInv, RestTypes
<1>b. \A k : ~Fault(k)
  BY DEF Fault
<1>1. faults' = faults
  BY <1>b DEF Next, MainStep, LoopStep, Halted, vars, ConfigureCall, InitCall,
     RegisterPendingCall, RegisterBusCall, Watch, StartCall, RunCall, Wait, Interrupted, Quit,
     SequencerEvent, BusEvent, Answer, BusFault
<1>2. UNCHANGED <<unsolicited, rejected>>
  <2>1. CASE BusEvent
    <3>1. CASE Sequencer!ProcessFrame(TRUE)
      <4>1. rx # <<>> /\ answers' = Append(answers, <<exec.stepIndex, Head(rx)>>)
        BY <2>1, <3>1, AppAssumption DEF BusEvent, Sequencer!ProcessFrame,
           Sequencer!WildFrame, Sequencer!Running
      <4> QED
        BY <3>1, <4>1, IsResponse
    <3>2. CASE ~Sequencer!ProcessFrame(TRUE)
      BY <2>1, <3>2 DEF BusEvent, seqVars, Sequencer!WildFrame, Sequencer!histVars
    <3> QED
      BY <3>1, <3>2
  <2>2. CASE SequencerEvent
    BY <2>2 DEF SequencerEvent, Sequencer!IdleEvent, Sequencer!InitEvent, Sequencer!FinishEvent,
       Sequencer!RunStepEvent, Sequencer!StepDoneEvent, Sequencer!histVars
  <2>3. CASE ~BusEvent /\ ~SequencerEvent
    BY <2>3 DEF Next, MainStep, LoopStep, Halted, vars, seqVars, ConfigureCall, InitCall,
       RegisterPendingCall, RegisterBusCall, StartCall, RunCall, Wait, Interrupted, Quit, Answer,
       BusFault, Sequencer!StartSequence
  <2> QED
    BY <2>1, <2>2, <2>3
<1>3. rx' \in Seq(Nat)
  <2>1. CASE BusEvent
    BY <1>a, <2>1 DEF BusEvent
  <2>2. CASE Answer
    BY <1>a, <2>2 DEF Answer
  <2>3. CASE ~BusEvent /\ ~Answer
    <3>1. rx' = rx
      BY <1>b, <2>3 DEF Next, MainStep, LoopStep, Halted, vars, busVars, ConfigureCall, InitCall,
         RegisterPendingCall, RegisterBusCall, StartCall, RunCall, Wait, Interrupted, Quit,
         SequencerEvent, BusFault
    <3> QED
      BY <1>a, <3>1
  <2> QED
    BY <2>1, <2>2, <2>3
<1> QED
  BY <1>a, <1>1, <1>2, <1>3 DEF Calm

(* Every step of the program is a step of the exchange or changes nothing   *)
(* of it.                                                                   *)
LEMMA StepSimulates ==
  ASSUME Cmd = "axisInfo", ExchangeInv, [Next]_vars
  PROVE  Paired' /\ [Exchange!RRNext]_(Exchange!rrVars)
<1> DEFINE Stutter == UNCHANGED <<started, answers, completed>>
<1>a. /\ TypeInv /\ CallsInv /\ exec \in SP!Executions /\ Paired
      /\ StepCount[Command[1]] = StepCount["axisInfo"]
      /\ started \in Seq(Nat) /\ answers \in Seq(Nat \X (Nat \cup {NoRequest}))
  BY DEF ExchangeInv, LagInv, FlightInv, TypeInv, RestTypes, SP!TypeOK, Command
<1>b. Stutter => UNCHANGED Exchange!rrVars
  BY DEF Exchange!rrVars
<1>1. CASE StartCall
  <2>1. ToStart /\ ~SP!Running /\ completed = <<>> /\ started = <<>> /\ answers = <<>>
    <3>1. ToStart
      BY <1>1, <1>a, NextOneStart DEF ExchangeInv, OnceInv
    <3> QED
      BY <3>1 DEF ExchangeInv, OnceInv, LagInv, QuietInv, Quiet, ToStart
  <2>2. CASE Sequencer!StartSequence(Head(todo)[2])
    <3>1. started' = <<>> /\ exec'.stepState = "NOTSET"
      BY <2>2 DEF Sequencer!StartSequence, Sequencer!FreshExec
    <3>2. answers' = <<>> /\ completed' = completed
      BY <1>1, <2>1, <2>2 DEF StartCall, seqVars, Sequencer!StartSequence
    <3> QED
      BY <1>b, <2>1, <3>1, <3>2 DEF Paired
  <2>3. CASE ~Sequencer!StartSequence(Head(todo)[2])
    <3>1. UNCHANGED <<curSeq, started, answers, completed>>
      BY <1>1, <2>3 DEF StartCall, seqVars
    <3> QED
      BY <1>b, <2>1, <3>1 DEF Paired, SP!Running
  <2> QED
    BY <2>2, <2>3
<1>2. CASE SequencerEvent
  <2>0. UNCHANGED answers
    BY <1>2 DEF SequencerEvent
  <2>1. CASE Sequencer!IdleEvent /\ UNCHANGED completed
    <3>1. UNCHANGED <<curSeq, exec, started>>
      BY <2>1 DEF Sequencer!IdleEvent
    <3> QED
      BY <1>a, <1>b, <2>0, <2>1, <3>1 DEF Paired, SP!Running
  <2>2. CASE (Sequencer!InitEvent \/ Sequencer!StepDoneEvent) /\ UNCHANGED completed
    <3>1. /\ SP!Running /\ pending > 0 /\ UNCHANGED <<curSeq, started>>
          /\ exec' \in {SP!Readied([exec EXCEPT !.seqState = "EXECUTING", !.stepIndex = 0]),
                        SP!ClearedStep(exec)}
      BY <2>2 DEF Sequencer!InitEvent, Sequencer!StepDoneEvent, Sequencer!Running, SP!Running,
         Sequencer!Readied, SP!Readied, Sequencer!ClearedStep, SP!ClearedStep
    <3>2. exec'.stepState \in {"READY", "NOTSET"}
      BY <1>a, <3>1 DEF SP!Readied, SP!ClearedStep, SP!Executions
    <3>3. exec.stepState \notin {"WAITRSP", "ERROR"}
      BY <3>1, CalmAccount
    <3>4. Len(started') = Len(answers') + 0
      BY <1>a, <2>0, <3>1, <3>3 DEF Paired
    <3> QED
      BY <1>b, <2>0, <2>2, <3>1, <3>2, <3>4 DEF Paired
  <2>3. CASE Sequencer!FinishEvent /\ completed' = Append(completed, curSeq)
    <3>1. Len(answers) = StepCount["axisInfo"] /\ completed = <<>>
      BY <2>3, IsComplete, SameActions DEF SP!Next, SP!PendingEvent
    <3>2. UNCHANGED started /\ ~SP!Running'
      BY <2>3, AppAssumption DEF Sequencer!FinishEvent, SP!Running
    <3>3. completed' # <<>>
      BY <2>3, <3>1
    <3>4. Exchange!Complete
      BY <1>a, <2>0, <3>1, <3>2, <3>3 DEF Exchange!Complete
    <3> QED
      BY <3>2, <3>4 DEF Paired, Exchange!RRNext
  <2>4. ASSUME NEW sent \in BOOLEAN, Sequencer!RunStepEvent(sent), UNCHANGED completed
        PROVE  Paired' /\ [Exchange!RRNext]_(Exchange!rrVars)
    <3>1. /\ Len(started) = Len(answers)
          /\ Len(started) < StepCount["axisInfo"]
          /\ Len(started') = Len(started) + 1
          /\ exec'.stepState \in {"WAITRSP", "ERROR"}
      BY <2>4, IsRequest
    <3>2. Exchange!Request
      BY <1>a, <2>0, <2>4, <3>1 DEF Exchange!Request
    <3> QED
      BY <2>0, <3>1, <3>2 DEF Paired, Exchange!RRNext
  <2> QED
    BY <1>2, <2>1, <2>2, <2>3, <2>4 DEF SequencerEvent
<1>3. CASE BusEvent
  <2>1. CASE Sequencer!ProcessFrame(TRUE)
    <3>1. rx # <<>> /\ answers' = Append(answers, <<exec.stepIndex, Head(rx)>>)
          /\ UNCHANGED completed
      BY <1>3, <2>1, AppAssumption DEF BusEvent, Sequencer!ProcessFrame, Sequencer!WildFrame,
         Sequencer!Running
    <3>2. /\ Len(started) = Len(answers) + 1
          /\ answers' = Append(answers, <<Len(started) - 1, Len(started) - 1>>)
          /\ Len(answers') = Len(answers) + 1
          /\ exec'.stepState \notin {"WAITRSP", "ERROR"}
          /\ UNCHANGED <<curSeq, started>>
      BY <2>1, <3>1, IsResponse
    <3>3. Exchange!Response
      BY <3>1, <3>2 DEF Exchange!Response
    <3>4. Len(started') = Len(answers') + 0
      BY <1>a, <3>2
    <3> QED
      BY <3>2, <3>3, <3>4 DEF Paired, Exchange!RRNext
  <2>2. CASE ~Sequencer!ProcessFrame(TRUE)
    <3>1. UNCHANGED <<curSeq, exec, started, answers, completed>>
      BY <1>3, <2>2 DEF BusEvent, seqVars, Sequencer!WildFrame
    <3> QED
      BY <1>a, <1>b, <3>1 DEF Paired, SP!Running
  <2> QED
    BY <2>1, <2>2
<1>4. CASE ~StartCall /\ ~SequencerEvent /\ ~BusEvent
  <2>1. UNCHANGED <<curSeq, exec, started, answers, completed>>
    BY <1>4 DEF Next, MainStep, LoopStep, Halted, vars, seqVars, histVars, ConfigureCall,
       InitCall, RegisterPendingCall, RegisterBusCall, RunCall, Wait, Interrupted, Quit, Answer,
       BusFault
  <2> QED
    BY <1>a, <1>b, <2>1 DEF Paired, SP!Running
<1> QED
  BY <1>1, <1>2, <1>3, <1>4

(* Initial states are initial states of the exchange.                       *)
LEMMA InitExchange ==
  ASSUME Cmd = "axisInfo", Init
  PROVE  ExchangeInv /\ Exchange!RRInit
<1>1. /\ LagInv /\ OnceInv
      /\ SP!OrderInv
  BY InitLag, InitOnce, SameActions, SeqAssumption, SP!InitOrder DEF Init, InitWith
<1>2. /\ ~SP!Running /\ started = <<>> /\ answers = <<>> /\ completed = <<>> /\ rx = <<>>
      /\ unsolicited = 0 /\ rejected = 0 /\ \A k \in AllFaults : faults[k] = 0
  BY AppAssumption DEF Init, InitWith, Sequencer!Init, SP!Running
<1>3. Calm /\ Paired
  BY <1>2 DEF Calm, Paired
<1> QED
  BY <1>1, <1>2, <1>3 DEF ExchangeInv, Exchange!RRInit

(* Every action keeps the invariant.                                        *)
LEMMA NextExchange ==
  ASSUME FaultKinds = {}, Cmd = "axisInfo", ExchangeInv, [Next]_vars
  PROVE  ExchangeInv'
<1>1. TypeInv /\ CallsInv
  BY DEF ExchangeInv, LagInv, FlightInv, TypeInv
<1>2. LagInv'
  BY NextTypes, TypesHaveCore, NextWakeups, NextFlight, NextQuiet, NextIndexInv, NextBusLag, NextAnswersLag
     DEF ExchangeInv, LagInv, FlightInv
<1>3. OnceInv'
  BY <1>1, NextOnce DEF ExchangeInv, LagInv
<1>4. SP!OrderInv'
  <2>1. CASE NullWakeup
    BY <2>1, <1>2 DEF NullWakeup, ExchangeInv, LagInv, FlightInv, TypeInv, SP!OrderInv,
       SP!StartedInOrder, SP!StepOrder, SP!Running
  <2>2. CASE [SP!Next]_(SP!vars)
    BY <2>2, SeqAssumption, SP!NextOrder DEF ExchangeInv
  <2> QED
    BY <1>1, <2>1, <2>2, CallsTyped, SequencerSteps
<1> QED
  BY <1>2, <1>3, <1>4, NextCalm, StepSimulates DEF ExchangeInv

(* Without faults, axisInfo refines the exchange of requests and responses: *)
(* one request at a time, each answer credited to the step that asked, and  *)
(* the sequence complete when all have been answered.                       *)
THEOREM InfoIsExchange ==
  ASSUME FaultKinds = {}, Cmd = "axisInfo"
  PROVE  Spec => Exchange!RRInit /\ [][Exchange!RRNext]_(Exchange!rrVars)
<1>1. Init => ExchangeInv /\ Exchange!RRInit
  BY InitExchange
<1>2. ExchangeInv /\ [Next]_vars => ExchangeInv' /\ [Exchange!RRNext]_(Exchange!rrVars)
  BY NextExchange, StepSimulates
<1> QED
  BY <1>1, <1>2, PTL DEF Spec

-----------------------------------------------------------------------------
(* The calls, in order.                                                     *)

(* A sequence with one element more.                                        *)
LEMMA OneMore ==
  ASSUME NEW S, NEW a \in Seq(S), NEW e \in S
  PROVE  /\ a \o <<e>> = Append(a, e)
         /\ Append(a, e) \in Seq(S) /\ Len(Append(a, e)) = Len(a) + 1
         /\ \A i \in 1..Len(a) : Append(a, e)[i] = a[i]
         /\ Append(a, e)[Len(a) + 1] = e
<1>1. a \o <<e>> = Append(a, e)
  OBVIOUS
<1>2. /\ Append(a, e) \in Seq(S) /\ Len(Append(a, e)) = Len(a) + 1
      /\ \A i \in 1..Len(a) : Append(a, e)[i] = a[i]
      /\ Append(a, e)[Len(a) + 1] = e
  OBVIOUS
<1> QED
  BY <1>1, <1>2

(* The calls of axisInfo are these seven.                                   *)
LEMMA CallsOfInfo ==
  ASSUME Cmd = "axisInfo"
  PROVE  /\ Calls \in Seq(TodoCalls) /\ Len(Calls) = 7
         /\ Calls[1] = <<"configure", "down">> /\ Calls[2] = <<"configure", "up">>
         /\ Calls[3] = <<"init", "loop">> /\ Calls[4] = <<"register", "pending">>
         /\ Calls[5] = <<"register", "bus">>
         /\ Calls[6] = <<"startSequence", "axisInfo">> /\ Calls[7] = <<"run", "loop">>
<1> DEFINE a == <<<<"configure", "down">>, <<"configure", "up">>,
                  <<"init", "loop">>, <<"register", "pending">>>>
           b == [i \in DOMAIN Registered |-> <<"register", Registered[i]>>]
           c == [i \in DOMAIN Command |-> <<"startSequence", Command[i]>>]
<1>1. /\ b = <<<<"register", "bus">>>> /\ c = <<<<"startSequence", "axisInfo">>>>
  BY WiredAssumption DEF Command
<1>2. /\ a \in Seq(TodoCalls) /\ Len(a) = 4
      /\ <<"register", "bus">> \in TodoCalls /\ <<"run", "loop">> \in TodoCalls
      /\ <<"startSequence", "axisInfo">> \in TodoCalls
  BY <1>1, AppAssumption DEF TodoCalls
<1>3. /\ a[1] = <<"configure", "down">> /\ a[2] = <<"configure", "up">>
      /\ a[3] = <<"init", "loop">> /\ a[4] = <<"register", "pending">>
  BY <1>1
<1>4. Startup = a \o b /\ Calls = (Startup \o c) \o <<<<"run", "loop">>>>
  BY DEF Startup, Calls
<1> HIDE DEF a, b, c
<1> DEFINE s == Append(a, <<"register", "bus">>)
           t == Append(s, <<"startSequence", "axisInfo">>)
           u == Append(t, <<"run", "loop">>)
<1>5. /\ s \in Seq(TodoCalls) /\ Len(s) = 5
      /\ \A i \in 1..4 : s[i] = a[i]
      /\ s[5] = <<"register", "bus">>
  <2>0. a \in Seq(TodoCalls) /\ <<"register", "bus">> \in TodoCalls
    BY <1>2
  <2>1. /\ s \in Seq(TodoCalls) /\ Len(s) = Len(a) + 1
        /\ \A i \in 1..Len(a) : s[i] = a[i]
        /\ s[Len(a) + 1] = <<"register", "bus">>
    BY ONLY <2>0, OneMore
  <2> HIDE DEF s
  <2> QED
    BY <2>1, <1>2
<1>6. a \o b = s
  BY <1>1, <1>2, OneMore
<1> HIDE DEF s
<1>7. /\ t \in Seq(TodoCalls) /\ Len(t) = 6
      /\ \A i \in 1..5 : t[i] = s[i]
      /\ t[6] = <<"startSequence", "axisInfo">>
  <2>0. s \in Seq(TodoCalls) /\ <<"startSequence", "axisInfo">> \in TodoCalls
    BY <1>2, <1>5
  <2>1. /\ t \in Seq(TodoCalls) /\ Len(t) = Len(s) + 1
        /\ \A i \in 1..Len(s) : t[i] = s[i]
        /\ t[Len(s) + 1] = <<"startSequence", "axisInfo">>
    BY ONLY <2>0, OneMore
  <2> HIDE DEF t
  <2> QED
    BY <2>1, <1>2, <1>5
<1>8. s \o c = t
  BY <1>1, <1>2, <1>5, OneMore
<1> HIDE DEF t
<1>9. /\ u \in Seq(TodoCalls) /\ Len(u) = 7
      /\ \A i \in 1..6 : u[i] = t[i]
      /\ u[7] = <<"run", "loop">>
  <2>0. t \in Seq(TodoCalls) /\ <<"run", "loop">> \in TodoCalls
    BY <1>2, <1>7
  <2>1. /\ u \in Seq(TodoCalls) /\ Len(u) = Len(t) + 1
        /\ \A i \in 1..Len(t) : u[i] = t[i]
        /\ u[Len(t) + 1] = <<"run", "loop">>
    BY ONLY <2>0, OneMore
  <2> HIDE DEF u
  <2> QED
    BY <2>1, <1>2, <1>7
<1>10. Calls = u
  BY <1>2, <1>4, <1>6, <1>7, <1>8, OneMore
<1> HIDE DEF u
<1> QED
  BY <1>3, <1>5, <1>7, <1>9, <1>10

-----------------------------------------------------------------------------
(* What a hang takes, as an invariant.                                      *)

\* The interface is taken up after it was taken down, and the loop runs last.
CallOrder ==
  /\ \A i \in DOMAIN todo :
       todo[i] = <<"configure", "down">> =>
         \E j \in DOMAIN todo : j > i /\ todo[j] = <<"configure", "up">>
  /\ \A i \in DOMAIN todo : todo[i][1] = "run" => i = Len(todo)

\* The interface and the socket are in use, the bus and the quit event are
\* watched, unless that is still to come or failed.
EnvInv ==
  /\ link = "up" \/ faults["netlinkFail"] > 0 \/ <<"configure", "up">> \in Range(todo)
  /\ socket = "can0" \/ faults["openFail"] > 0 \/ <<"register", "bus">> \in Range(todo)
  /\ \/ <<"register", "bus">> \in Range(todo)
     \/ "bus" \in registered
     \/ faults["watchFail"] > 0
     \/ socket # "can0"
     \/ loop = "none" /\ <<"init", "loop">> \notin Range(todo)
  /\ loop = "none" \/ "quit" \in registered \/ faults["initFail"] > 0

\* When the sequence was started only the loop is left to run, and nothing
\* when it runs.
LateInv ==
  /\ ~ToStart => \A c \in Range(todo) : c[1] = "run"
  /\ loop \in {"waiting", "handling"} => todo = <<>>

\* A step that waits has a frame to wait for, or it was lost; a failed step
\* could not send.
StepInv ==
  SP!Running /\ ~crashed =>
    /\ "pending" \in registered
    /\ exec.stepState = "WAITRSP" => InFlight > 0 \/ faults["lose"] > 0
    /\ exec.stepState = "ERROR" =>
         faults["sendFail"] > 0 \/ link = "down" \/ socket # "can0"

\* Without a sequence the command is done, and the loop knows.
EndInv ==
  /\ ~ToStart /\ loop # "none" /\ ~crashed /\ curSeq = NoSeq => completed = Info
  /\ completed = Info => quit > 0 \/ (loop = "stopped" /\ todo = <<>>)

HangInv ==
  /\ DoneInv /\ SP!WakeupInv
  /\ CallOrder /\ EnvInv /\ LateInv /\ StepInv /\ EndInv

(* The invariant holds at first.                                            *)
LEMMA InitHang ==
  ASSUME Cmd = "axisInfo", Init
  PROVE  HangInv
<1>1. DoneInv /\ SP!WakeupInv
  BY InitDone, InitFlight DEF FlightInv
<1>2. /\ todo = Calls /\ socket = "closed" /\ loop = "none" /\ registered = {}
      /\ completed = <<>> /\ curSeq \in {NoSeq, Wild}
  BY DEF Init, InitWith, Loop!Init, Sequencer!Init
<1>3. /\ DOMAIN todo = 1..7 /\ Len(todo) = 7
      /\ todo[1] = <<"configure", "down">> /\ todo[2] = <<"configure", "up">>
      /\ todo[3] = <<"init", "loop">> /\ todo[4] = <<"register", "pending">>
      /\ todo[5] = <<"register", "bus">>
      /\ todo[6] = <<"startSequence", "axisInfo">> /\ todo[7] = <<"run", "loop">>
  BY <1>2, CallsOfInfo
<1>4. ASSUME NEW i \in DOMAIN todo PROVE i = 1 \/ i = 2 \/ i = 3 \/ i = 4 \/ i = 5 \/ i = 6 \/ i = 7
  BY <1>3
<1>5. CallOrder
  BY <1>3, <1>4 DEF CallOrder
<1>6. /\ <<"configure", "up">> \in Range(todo) /\ <<"register", "bus">> \in Range(todo)
      /\ ToStart
  <2>1. 2 \in DOMAIN todo /\ 5 \in DOMAIN todo /\ 6 \in DOMAIN todo
    BY <1>3
  <2> QED
    BY <1>3, <2>1 DEF Range, ToStart
<1>7. EnvInv /\ LateInv
  BY <1>2, <1>6 DEF EnvInv, LateInv
<1>8. StepInv /\ EndInv
  BY <1>2, <1>6, AppAssumption DEF StepInv, EndInv, SP!Running, Info
<1> QED
  BY <1>1, <1>5, <1>7, <1>8 DEF HangInv

(* Taking a call from the front keeps the order.                            *)
LEMMA NextOrder ==
  ASSUME CallsInv, CallOrder, [Next]_vars
  PROVE  CallOrder'
<1>1. CASE todo' = todo
  BY <1>1 DEF CallOrder
<1>2. CASE todo # <<>> /\ todo' = Tail(todo)
  <2>1. /\ Len(todo) \in Nat /\ DOMAIN todo = 1..Len(todo)
        /\ DOMAIN todo' = 1..(Len(todo) - 1) /\ Len(todo') = Len(todo) - 1
        /\ \A i \in DOMAIN todo' : i + 1 \in DOMAIN todo /\ todo'[i] = todo[i + 1] /\ i \in Nat
    BY <1>2 DEF CallsInv
  <2>2. ASSUME NEW i \in DOMAIN todo', todo'[i] = <<"configure", "down">>
        PROVE  \E j \in DOMAIN todo' : j > i /\ todo'[j] = <<"configure", "up">>
    <3>1. PICK j \in DOMAIN todo : j > i + 1 /\ todo[j] = <<"configure", "up">>
      BY <2>1, <2>2 DEF CallOrder
    <3>2. j - 1 \in DOMAIN todo' /\ j - 1 > i /\ (j - 1) + 1 = j
      BY <2>1, <3>1
    <3>3. todo'[j - 1] = todo[(j - 1) + 1]
      BY <2>1, <3>2
    <3> QED
      BY <3>1, <3>2, <3>3
  <2>3. ASSUME NEW i \in DOMAIN todo', todo'[i][1] = "run" PROVE i = Len(todo')
    <3>1. i + 1 \in DOMAIN todo /\ todo[i + 1][1] = "run"
      BY <2>1, <2>3
    <3>2. i + 1 = Len(todo)
      BY <3>1 DEF CallOrder
    <3> QED
      BY <2>1, <3>2
  <2> QED
    BY <2>2, <2>3 DEF CallOrder
<1> QED
  BY <1>1, <1>2, TodoMoves

(* After the start only the loop is left, and it has nothing behind it.     *)
LEMMA NextLate ==
  ASSUME CallsInv, OneStart, CallOrder, LateInv, [Next]_vars
  PROVE  LateInv'
<1>a. todo' = todo \/ (todo # <<>> /\ todo' = Tail(todo))
  BY TodoMoves
<1>b. Range(todo') \subseteq Range(todo)
  BY <1>a, NextCall
<1>1. ASSUME ~ToStart' PROVE \A c \in Range(todo') : c[1] = "run"
  <2>1. CASE ~ToStart
    BY <1>b, <2>1 DEF LateInv
  <2>2. CASE ToStart
    <3>1. StartCall
      BY <1>1, <2>2, NextOneStart
    <3>2. todo # <<>> /\ todo' = Tail(todo) /\ Head(todo)[1] = "startSequence"
      BY <3>1 DEF StartCall, Calling
    <3> SUFFICES ASSUME NEW c \in Range(todo)' PROVE c[1] = "run"
      OBVIOUS
    <3>3. c \in TodoCalls /\ Stage["startSequence"] <= Stage[c[1]] /\ c[1] # "startSequence"
      BY <1>1, <3>2, NextCall DEF ToStart
    <3> QED
      BY <3>3, CallStages DEF Stage
  <2> QED
    BY <2>1, <2>2
<1>2. ASSUME loop' \in {"waiting", "handling"} PROVE todo' = <<>>
  <2>1. CASE RunCall
    <3>1. todo # <<>> /\ todo' = Tail(todo) /\ Head(todo)[1] = "run" /\ todo \in Seq(TodoCalls)
      BY <2>1 DEF RunCall, Calling, CallsInv
    <3>2. 1 \in DOMAIN todo /\ todo[1][1] = "run"
      BY <3>1
    <3>3. Len(todo) = 1
      BY <3>2 DEF CallOrder
    <3> QED
      BY <3>1, <3>3
  <2>2. CASE \/ ConfigureCall \/ InitCall \/ RegisterPendingCall \/ RegisterBusCall \/ StartCall
    BY <1>2, <2>2 DEF ConfigureCall, InitCall, RegisterPendingCall, RegisterBusCall, StartCall,
       Calling, OutsideLoop, loopVars, Watch, Loop!InitLoop, Loop!InitFails, Loop!Register
  <2>3. CASE \/ Wait \/ Interrupted \/ Quit \/ SequencerEvent \/ BusEvent \/ Answer \/ BusFault
             \/ UNCHANGED vars
    <3>1. todo' = todo
      BY <2>3 DEF Wait, Interrupted, Quit, SequencerEvent, BusEvent, Answer, BusFault, vars
    <3>2. loop \in {"waiting", "handling"}
      BY <1>2, <2>3 DEF Wait, Interrupted, Quit, SequencerEvent, BusEvent, Answer, BusFault, vars,
         loopVars, Loop!EpollWait, Loop!EpollFail, Loop!HandleQuit, Loop!Handle
    <3> QED
      BY <3>1, <3>2 DEF LateInv
  <2> QED
    BY <2>1, <2>2, <2>3 DEF Next, MainStep, LoopStep, Halted
<1> QED
  BY <1>1, <1>2 DEF LateInv

(* What the startup leaves behind stays so.                                 *)
LEMMA NextEnv ==
  ASSUME TypeInv, StartupInv, CallOrder, EnvInv, [Next]_vars
  PROVE  EnvInv'
<1>a. CallsInv
  BY DEF TypeInv
<1>b. \A k \in AllFaults : faults'[k] \in Nat /\ faults[k] \in Nat /\ faults'[k] >= faults[k]
  BY TypesHaveCore, FaultsGrow
<1>c. /\ loop' = "none" => loop = "none" /\ registered' = registered
      /\ loop # "none" => registered \subseteq registered' /\ loop' # "none"
  BY LoopMoves
<1>d. ASSUME NEW k \in AllFaults, Fault(k) PROVE faults'[k] > 0
  BY <1>b, <1>d, FaultTypes DEF TypeInv, RestTypes
<1>e. StartFaults \subseteq AllFaults /\ "netlinkFail" \in StartFaults /\ "initFail" \in StartFaults
      /\ "watchFail" \in StartFaults /\ "openFail" \in StartFaults
  BY DEF AllFaults, StartFaults
<1>f. registered \subseteq registered' /\ (loop # "none" => loop' # "none")
  BY <1>c DEF StartupInv
<1> DEFINE up  == <<"configure", "up">>
           bus == <<"register", "bus">>
           ini == <<"init", "loop">>
           Faulty(k) == faults[k] > 0
           Up   == link = "up" \/ Faulty("netlinkFail") \/ up \in Range(todo)
           Open == socket = "can0" \/ Faulty("openFail") \/ bus \in Range(todo)
           Seen == \/ bus \in Range(todo) \/ "bus" \in registered \/ Faulty("watchFail")
                   \/ socket # "can0" \/ (loop = "none" /\ ini \notin Range(todo))
           Ends == loop = "none" \/ "quit" \in registered \/ Faulty("initFail")
<1>0. Up /\ Open /\ Seen /\ Ends
  BY DEF EnvInv
<1>g. \A k \in StartFaults : Faulty(k) => Faulty(k)'
  BY <1>b, <1>e
<1>h. Range(todo') \subseteq Range(todo)
  BY <1>a, NextCall, TodoMoves
<1> SUFFICES Up' /\ Open' /\ Seen' /\ Ends'
  BY DEF EnvInv
<1>1. CASE ConfigureCall
  <2>1. /\ todo # <<>> /\ todo' = Tail(todo) /\ Head(todo)[1] = "configure"
        /\ UNCHANGED <<loop, registered, socket>>
    BY <1>1 DEF ConfigureCall, Calling, loopVars
  <2>2. bus \in Range(todo) => bus \in Range(todo)'
    BY <1>a, <2>1, NextCall
  <2>3. Up'
    <3>1. CASE Fault("netlinkFail")
      BY <1>d, <1>e, <3>1
    <3>2. CASE link' = Head(todo)[2] /\ Head(todo)[2] = "up"
      BY <3>2
    <3>3. CASE Head(todo)[2] = "down"
      <4>1. /\ todo \in Seq(TodoCalls) /\ todo[1] = Head(todo) /\ 1 \in DOMAIN todo
            /\ Head(todo) \in TodoCalls
        BY <1>a, <2>1, NextCall DEF CallsInv
      <4>2. todo[1] = <<"configure", "down">>
        BY <2>1, <3>3, <4>1, CallStages
      <4>3. PICK j \in DOMAIN todo : j > 1 /\ todo[j] = up
        BY <4>1, <4>2 DEF CallOrder
      <4>4. up \in Range(todo) /\ up # Head(todo)
        BY <4>1, <4>2, <4>3 DEF Range
      <4> QED
        BY <1>a, <2>1, <4>4, NextCall
    <3>4. Head(todo)[2] \in {"up", "down"}
      BY <1>a, <2>1, NextCall, CallStages
    <3> QED
      BY <1>1, <3>1, <3>2, <3>3, <3>4 DEF ConfigureCall
  <2> QED
    BY <1>0, <1>e, <1>g, <1>h, <2>1, <2>2, <2>3
<1>2. CASE InitCall
  <2>1. /\ todo # <<>> /\ todo' = Tail(todo) /\ Head(todo)[1] = "init"
        /\ UNCHANGED <<link, socket>>
    BY <1>2 DEF InitCall, Calling, openVars
  <2>2. Head(todo) = ini /\ Head(todo) # bus /\ Head(todo) # up /\ ini \in Range(todo)
    <3>1. Head(todo) \in TodoCalls /\ Head(todo) = todo[1] /\ 1 \in DOMAIN todo
      BY <1>a, <2>1, NextCall DEF CallsInv
    <3> QED
      BY <2>1, <3>1, CallStages DEF Range
  <2>3. /\ bus \in Range(todo) => bus \in Range(todo)'
        /\ up \in Range(todo) => up \in Range(todo)'
    BY <1>a, <2>1, <2>2, NextCall
  <2>4. Ends'
    BY <1>2, <1>d, <1>e DEF InitCall, Loop!InitLoop, Loop!WatchQuit
  <2> QED
    BY <1>0, <1>e, <1>f, <1>g, <2>1, <2>2, <2>3, <2>4
<1>3. CASE RegisterBusCall
  <2>1. /\ todo # <<>> /\ todo' = Tail(todo) /\ Head(todo)[1] = "register"
        /\ Head(todo)[2] = "bus" /\ link' = link /\ loop' = loop
    BY <1>3 DEF RegisterBusCall, Calling, Watch, loopVars, Loop!Register
  <2>2. up \in Range(todo) => up \in Range(todo)'
    BY <1>a, <2>1, NextCall
  <2>3. ini \notin Range(todo)'
    <3>1. Stage["register"] = 3 /\ Stage["init"] = 2
      BY DEF Stage
    <3>2. ini \in Range(todo)' => Stage["register"] <= Stage["init"]
      BY <1>a, <2>1, NextCall
    <3> QED
      BY <3>1, <3>2
  <2>4. Open'
    BY <1>3, <1>d, <1>e DEF RegisterBusCall
  <2>5. Seen'
    <3>1. CASE socket' = "can0" /\ Watch("bus")
      BY <1>d, <1>e, <2>1, <2>3, <3>1 DEF Watch, Loop!Register
    <3>2. CASE socket' \in {"closed", "else"}
      BY <3>2
    <3> QED
      BY <1>3, <3>1, <3>2 DEF RegisterBusCall
  <2> QED
    BY <1>0, <1>e, <1>f, <1>g, <2>1, <2>2, <2>4, <2>5
<1>4. CASE RegisterPendingCall \/ StartCall \/ RunCall
  <2>1. /\ todo # <<>> /\ todo' = Tail(todo) /\ UNCHANGED <<link, socket>>
        /\ loop = "none" => loop' = "none"
        /\ Head(todo)[1] # "configure" /\ (Head(todo)[1] # "register" \/ Head(todo)[2] # "bus")
    BY <1>4 DEF RegisterPendingCall, StartCall, RunCall, Calling, openVars, loopVars, Watch,
       Loop!Register, Loop!Run, Loop!RunFails
  <2>2. Head(todo) # bus /\ Head(todo) # up
    BY <2>1
  <2>3. /\ bus \in Range(todo) => bus \in Range(todo)'
        /\ up \in Range(todo) => up \in Range(todo)'
    BY <1>a, <2>1, <2>2, NextCall
  <2> QED
    BY <1>0, <1>e, <1>f, <1>g, <1>h, <2>1, <2>3
<1>5. CASE \/ Wait \/ Interrupted \/ Quit \/ SequencerEvent \/ BusEvent \/ Answer \/ BusFault
           \/ UNCHANGED vars
  <2>1. /\ UNCHANGED <<todo, link, socket>>
        /\ loop = "none" => loop' = "none"
    BY <1>5 DEF Wait, Interrupted, Quit, SequencerEvent, BusEvent, Answer, BusFault, vars,
         openVars, loopVars, Loop!EpollWait, Loop!EpollFail, Loop!HandleQuit, Loop!Handle
  <2> QED
    BY <1>0, <1>e, <1>f, <1>g, <2>1
<1> QED
  BY <1>1, <1>2, <1>3, <1>4, <1>5 DEF Next, MainStep, LoopStep, Halted

(* A step that waits or failed has a reason to.                             *)
LEMMA NextStepInv ==
  ASSUME TypeInv, OnceInv, LateInv, StepInv, [Next]_vars
  PROVE  StepInv'
<1> SUFFICES ASSUME ~crashed' PROVE StepInv'
  BY DEF StepInv
<1>0. ~crashed
  BY CrashEnds DEF vars, seqVars
<1> USE <1>0
<1>a. /\ CallsInv /\ tx \in Seq(Nat) /\ rx \in Seq(Nat \cup {NoRequest})
      /\ exec \in SP!Executions /\ Len(tx) \in Nat /\ Len(rx) \in Nat
  BY DEF TypeInv, RestTypes, SP!TypeOK
<1>b. \A k \in {"lose", "sendFail"} :
        faults'[k] \in Nat /\ faults[k] \in Nat /\ faults'[k] >= faults[k]
  BY TypesHaveCore, FaultsGrow, FaultsAre
<1>c. registered \subseteq registered' \/ "pending" \notin registered \/ loop = "none"
  BY LoopMoves
<1>d. ASSUME NEW k \in {"lose", "sendFail"}, Fault(k) PROVE faults'[k] > 0
  BY <1>b, <1>d, FaultTypes, FaultsAre, SMTT(30) DEF TypeInv, RestTypes
<1>e. SP!Running => ~ToStart
  BY DEF OnceInv
<1>1. CASE ConfigureCall \/ RegisterBusCall \/ InitCall \/ RegisterPendingCall
  <2>1. /\ todo # <<>> /\ Head(todo)[1] \in {"configure", "register", "init"}
        /\ UNCHANGED <<curSeq, exec>>
    BY <1>1 DEF ConfigureCall, RegisterBusCall, InitCall, RegisterPendingCall, Calling, seqVars
  <2>2. Head(todo) \in Range(todo)
    <3>1. Head(todo) = todo[1] /\ 1 \in DOMAIN todo
      BY <1>a, <2>1 DEF CallsInv
    <3> QED
      BY <3>1 DEF Range
  <2>3. ~SP!Running
    BY <1>e, <2>1, <2>2 DEF LateInv
  <2> QED
    BY <2>1, <2>3 DEF StepInv, SP!Running
<1>2. CASE RunCall \/ Wait \/ Interrupted \/ Quit \/ UNCHANGED vars
  <2>1. UNCHANGED <<curSeq, exec, tx, rx, registered, link, socket>>
    BY <1>2 DEF RunCall, Wait, Interrupted, Quit, vars, seqVars, busVars, openVars, loopVars,
       Loop!Run, Loop!RunFails, Loop!EpollWait, Loop!EpollFail, Loop!HandleQuit
  <2> QED
    BY <1>b, <2>1 DEF StepInv, SP!Running, InFlight
<1>3. CASE StartCall
  <2>1. UNCHANGED <<tx, rx, registered, link, socket, faults>>
    BY <1>3 DEF StartCall, loopVars, openVars, busVars
  <2>2. \/ UNCHANGED <<curSeq, exec>>
        \/ "pending" \in registered /\ exec'.stepState = "NOTSET"
    BY <1>3 DEF StartCall, Sequencer!StartSequence, Sequencer!FreshExec, seqVars
  <2> QED
    BY <2>1, <2>2 DEF StepInv, SP!Running, InFlight
<1>4. CASE SequencerEvent
  <2>a. UNCHANGED <<rx, link, socket, registered>>
    BY <1>4 DEF SequencerEvent, openVars, Loop!Handle
  <2>1. CASE Sequencer!IdleEvent
    BY <2>1, AppAssumption DEF Sequencer!IdleEvent, StepInv, SP!Running
  <2>2. CASE Sequencer!InitEvent
    <3>1. exec'.stepState = "READY" /\ curSeq' = curSeq
      BY <1>a, <2>2 DEF Sequencer!InitEvent, Sequencer!Readied, SP!Executions
    <3> QED
      BY <2>a, <3>1 DEF StepInv, SP!Running
  <2>3. CASE Sequencer!FinishEvent
    BY <2>3, AppAssumption DEF Sequencer!FinishEvent, StepInv, SP!Running
  <2>4. CASE Sequencer!RunStepEvent(TRUE) /\ tx' = Append(tx, Sequencer!NextIndex)
    <3>1. exec'.stepState = "WAITRSP" /\ curSeq' = curSeq
      BY <1>a, <2>4 DEF Sequencer!RunStepEvent, Sequencer!Readied, SP!Executions
    <3>2. InFlight' > 0
      <4>1. Len(tx') = Len(tx) + 1
        BY <1>a, <2>4
      <4> QED
        BY <1>a, <2>a, <4>1 DEF InFlight
    <3> QED
      BY <2>a, <3>1, <3>2 DEF StepInv, SP!Running
  <2>5. CASE /\ IF CanSend THEN Fault("sendFail") ELSE UNCHANGED faults
             /\ Sequencer!RunStepEvent(FALSE)
    <3>1. exec'.stepState = "ERROR" /\ curSeq' = curSeq
      BY <1>a, <2>5 DEF Sequencer!RunStepEvent, Sequencer!Readied, SP!Executions
    <3>2. CanSend => faults'["sendFail"] > 0
      BY <1>d, <2>5
    <3>3. ~CanSend => link = "down" \/ socket # "can0"
      BY WiredAssumption DEF CanSend, TypeInv, RestTypes
    <3> QED
      BY <2>a, <3>1, <3>2, <3>3 DEF StepInv, SP!Running
  <2>6. CASE Sequencer!StepDoneEvent
    <3>1. exec'.stepState = "NOTSET" /\ curSeq' = curSeq
      BY <1>a, <2>6 DEF Sequencer!StepDoneEvent, Sequencer!ClearedStep, SP!Executions
    <3> QED
      BY <2>a, <3>1 DEF StepInv, SP!Running
  <2> QED
    BY <1>4, <2>1, <2>2, <2>3, <2>4, <2>5, <2>6 DEF SequencerEvent
<1>5. CASE BusEvent
  <2>a. UNCHANGED <<link, socket, registered, faults>>
    BY <1>5 DEF BusEvent, openVars, Loop!Handle
  <2>1. CASE curSeq = NoSeq /\ UNCHANGED seqVars
    BY <2>1, AppAssumption DEF seqVars, StepInv, SP!Running
  <2>2. CASE Sequencer!ProcessFrame(TRUE)
    <3>1. exec'.stepState = "DONE" /\ curSeq' = curSeq
      BY <1>a, <2>2 DEF Sequencer!ProcessFrame, SP!Executions
    <3> QED
      BY <2>a, <3>1 DEF StepInv, SP!Running
  <2>3. CASE Sequencer!WildFrame
    BY <2>3 DEF Sequencer!WildFrame
  <2> QED
    BY <1>5, <2>1, <2>2, <2>3 DEF BusEvent
<1>6. CASE Answer \/ BusFault
  <2>1. UNCHANGED <<curSeq, exec, link, socket, registered>>
    BY <1>6 DEF Answer, BusFault, seqVars, openVars, loopVars
  <2>2. InFlight' >= InFlight \/ faults'["lose"] > 0
    <3>1. CASE Answer
      <4>1. Len(tx') = Len(tx) - 1 /\ Len(rx') = Len(rx) + 1
        BY <1>a, <3>1 DEF Answer
      <4> QED
        BY <1>a, <4>1 DEF InFlight
    <3>2. CASE Fault("lose")
      BY <1>d, <3>2
    <3>3. CASE tx # <<>> /\ tx' = Tail(tx) /\ rx' = rx \o <<Head(tx), Head(tx)>>
      <4>1. Len(tx') = Len(tx) - 1 /\ Len(rx') = Len(rx) + 2
        BY <1>a, <3>3
      <4> QED
        BY <1>a, <4>1 DEF InFlight
    <3>4. CASE rx' = Append(rx, NoRequest) /\ UNCHANGED tx
      <4>1. Len(rx') = Len(rx) + 1
        BY <1>a, <3>4
      <4> QED
        BY <1>a, <3>4, <4>1 DEF InFlight
    <3> QED
      BY <1>6, <3>1, <3>2, <3>3, <3>4 DEF BusFault
  <2>3. InFlight \in Nat /\ InFlight' \in Nat
    BY <1>a, NextTypes DEF InFlight, TypeInv, RestTypes
  <2> QED
    BY <1>b, <2>1, <2>2, <2>3 DEF StepInv, SP!Running
<1> QED
  BY <1>1, <1>2, <1>3, <1>4, <1>5, <1>6 DEF Next, MainStep, LoopStep, Halted

(* Without a sequence the command is done, and the quit event was signalled.*)
LEMMA NextEnd ==
  ASSUME TypeInv, OneStart, OnceInv, LateInv, EndInv, StartupInv, [Next]_vars
  PROVE  EndInv'
<1>a. /\ CallsInv /\ quit \in Nat /\ quit' \in Nat
      /\ curSeq \in SeqIDs \cup {NoSeq, Wild} /\ NoSeq \notin SeqIDs /\ NoSeq # Wild
  BY NextTypes, AppAssumption DEF TypeInv, RestTypes, SP!TypeOK
<1>b. /\ ToStart' => ToStart
      /\ ToStart /\ ~ToStart' => StartCall
      /\ todo' = todo \/ (todo # <<>> /\ todo' = Tail(todo))
      /\ SP!Running => ~ToStart /\ curSeq = "axisInfo" /\ completed = <<>>
      /\ completed = Info => ~ToStart
  <2>1. Info # <<>>
    BY DEF Info
  <2>2. ToStart => ~SP!Running /\ completed = <<>>
    BY DEF OnceInv
  <2>3. SP!Running => curSeq = "axisInfo" /\ completed = <<>>
    BY DEF OnceInv
  <2> QED
    BY <1>a, <2>1, <2>2, <2>3, NextOneStart, TodoMoves
<1>c. loop # "none" => loop' # "none"
  BY LoopMoves
<1>d. ~crashed' => ~crashed
  BY CrashEnds DEF vars, seqVars
<1>e. ASSUME todo # <<>>, ~ToStart PROVE Head(todo)[1] = "run"
  <2>1. Head(todo) = todo[1] /\ 1 \in DOMAIN todo
    BY <1>a, <1>e DEF CallsInv
  <2> QED
    BY <1>e, <2>1 DEF LateInv, Range
<1> DEFINE Open == ~ToStart /\ loop # "none" /\ ~crashed /\ curSeq = NoSeq
           Told == quit > 0 \/ (loop = "stopped" /\ todo = <<>>)
<1>0. (Open => completed = Info) /\ (completed = Info => Told)
  BY DEF EndInv
<1> SUFFICES (Open' => completed' = Info) /\ (completed' = Info => Told')
  BY DEF EndInv
<1>1. CASE ConfigureCall \/ InitCall \/ RegisterPendingCall \/ RegisterBusCall
  <2>1. /\ todo # <<>> /\ Head(todo)[1] # "run" /\ ~StartCall
        /\ UNCHANGED completed
    BY <1>1 DEF ConfigureCall, InitCall, RegisterPendingCall, RegisterBusCall, StartCall, Calling,
       histVars
  <2>2. ToStart /\ ToStart'
    BY <1>b, <1>e, <2>1
  <2> QED
    BY <1>b, <2>1, <2>2
<1>2. CASE StartCall
  <2>1. /\ UNCHANGED <<loop, completed, quit>> /\ todo # <<>> /\ Head(todo)[1] = "startSequence"
        /\ ToStart
    BY <1>2, <1>a, NextOneStart DEF StartCall, loopVars, Calling
  <2>2. completed # Info
    BY <1>b, <2>1
  <2>3. curSeq' # NoSeq \/ crashed'
    <3>1. CASE Sequencer!StartSequence(Head(todo)[2])
      <4>1. Head(todo)[2] \in SeqIDs
        BY <1>a, <2>1, NextCall, CallStages, <1>2 DEF StartCall
      <4> QED
        BY <1>a, <3>1, <4>1 DEF Sequencer!StartSequence
    <3>2. CASE ~Sequencer!StartSequence(Head(todo)[2])
      BY <1>2, <3>2 DEF StartCall, seqVars
    <3> QED
      BY <3>1, <3>2
  <2> QED
    BY <2>1, <2>2, <2>3
<1>3. CASE RunCall
  <2>1. UNCHANGED <<curSeq, crashed, completed, quit>> /\ todo # <<>> /\ ~StartCall
    BY <1>3 DEF RunCall, Calling, StartCall, seqVars, histVars, Loop!Run, Loop!RunFails
  <2>2. loop = "none" => loop' = "none"
    BY <1>3 DEF RunCall, Loop!Run, Loop!RunFails
  <2>3. completed = Info => quit > 0
    BY <1>0, <2>1
  <2>4. Open' => Open
    BY <1>b, <2>1, <2>2
  <2> QED
    BY <1>0, <2>1, <2>3, <2>4
<1>4. CASE Quit
  <2>1. /\ UNCHANGED <<curSeq, crashed, completed, todo>> /\ loop' = "stopped"
        /\ loop = "handling"
    BY <1>4 DEF Quit, seqVars, histVars, Loop!HandleQuit
  <2>2. todo' = <<>> /\ (ToStart <=> ToStart')
    BY <2>1 DEF LateInv, ToStart
  <2> QED
    BY <1>0, <2>1, <2>2
<1>5. CASE SequencerEvent
  <2>1. UNCHANGED todo /\ loop = "handling" /\ loop' # "none"
    BY <1>5, <1>c DEF SequencerEvent, Loop!Handle
  <2>2. ToStart <=> ToStart'
    BY <2>1 DEF ToStart
  <2>3. CASE Sequencer!FinishEvent /\ quit' = quit + 1 /\ completed' = Append(completed, curSeq)
    <3>1. curSeq = "axisInfo" /\ completed = <<>>
      BY <1>b, <2>3 DEF Sequencer!FinishEvent, Sequencer!Running, SP!Running
    <3>2. completed' = Info /\ quit' > 0
      BY <1>a, <2>3, <3>1 DEF Info
    <3> QED
      BY <3>2
  <2>4. CASE UNCHANGED <<curSeq, completed, quit>>
    <3>1. completed = Info => quit > 0
      BY <1>0, <2>1
    <3> QED
      BY <1>0, <1>d, <2>1, <2>2, <2>4, <3>1
  <2> QED
    BY <1>5, <2>3, <2>4 DEF SequencerEvent, Sequencer!IdleEvent, Sequencer!InitEvent,
       Sequencer!RunStepEvent, Sequencer!StepDoneEvent
<1>6. CASE BusEvent \/ Wait \/ Interrupted \/ Answer \/ BusFault \/ UNCHANGED vars
  <2>1. UNCHANGED <<curSeq, completed, quit, todo>>
    BY <1>6 DEF BusEvent, Wait, Interrupted, Answer, BusFault, vars, seqVars, histVars,
       Sequencer!ProcessFrame, Sequencer!WildFrame
  <2>2. loop' = "none" <=> loop = "none"
    <3>1. loop = "none" => loop' = "none"
      BY <1>6 DEF BusEvent, Wait, Interrupted, Answer, BusFault, vars, loopVars,
         Loop!EpollWait, Loop!EpollFail, Loop!Handle
    <3> QED
      BY <1>c, <3>1
  <2>3. loop = "stopped" => loop' = "stopped"
    BY <1>6 DEF BusEvent, Wait, Interrupted, Answer, BusFault, vars, loopVars,
       Loop!EpollWait, Loop!EpollFail, Loop!Handle
  <2>4. ToStart <=> ToStart'
    BY <2>1 DEF ToStart
  <2> QED
    BY <1>0, <1>d, <2>1, <2>2, <2>3, <2>4
<1> QED
  BY <1>1, <1>2, <1>3, <1>4, <1>5, <1>6 DEF Next, MainStep, LoopStep, Halted

(* Every action keeps the invariant.                                        *)
LEMMA NextHang ==
  ASSUME HangInv, [Next]_vars
  PROVE  HangInv'
<1>1. TypeInv /\ StartupInv /\ OnceInv /\ CallsInv /\ OneStart
  BY DEF HangInv, DoneInv, OnceInv, TypeInv
<1>2. DoneInv' /\ SP!WakeupInv'
  BY <1>1, NextDone, TypesHaveCore, NextWakeups DEF HangInv
<1>3. CallOrder' /\ EnvInv' /\ LateInv'
  BY <1>1, NextOrder, NextEnv, NextLate DEF HangInv
<1>4. StepInv' /\ EndInv'
  BY <1>1, NextStepInv, NextEnd DEF HangInv
<1> QED
  BY <1>2, <1>3, <1>4 DEF HangInv

(* A program asleep for good has a fault to explain it.                     *)
LEMMA HangHas ==
  ASSUME Cmd = "axisInfo", HangInv
  PROVE  HangNeedsFault
<1> SUFFICES ASSUME Hung PROVE HangNeedsFault!2
  BY DEF HangNeedsFault
<1>1. /\ loop = "waiting" /\ tx = <<>> /\ ~crashed /\ todo = <<>> /\ Range(todo) = {}
      /\ ~ToStart
      /\ \A f \in registered : ~(Counts[f] > 0)
  <2>1. loop = "waiting" /\ tx = <<>> /\ ~crashed /\ Loop!Ready = {}
    BY DEF Hung
  <2>2. todo = <<>> /\ Range(todo) = {}
    BY <2>1 DEF HangInv, LateInv, Range
  <2> QED
    BY <2>1, <2>2 DEF Loop!Ready, ToStart
<1>2. /\ Counts["quit"] = quit /\ Counts["pending"] = pending /\ Counts["bus"] = Len(rx)
  BY DEF Counts, Descriptors
<1>3. /\ \A k \in AllFaults : faults[k] \in Nat
      /\ {"lose", "sendFail", "netlinkFail", "openFail", "watchFail", "initFail"} \subseteq AllFaults
      /\ curSeq \in SeqIDs \cup {NoSeq, Wild} /\ pending \in Nat /\ quit \in Nat
      /\ tx \in Seq(Nat) /\ rx \in Seq(Nat \cup {NoRequest}) /\ exec \in SP!Executions
  BY FaultsAre DEF HangInv, DoneInv, TypeInv, RestTypes, SP!TypeOK
<1>4. /\ link = "up" \/ faults["netlinkFail"] > 0
      /\ socket = "can0" \/ faults["openFail"] > 0
      /\ "bus" \in registered \/ faults["watchFail"] > 0 \/ socket # "can0"
      /\ "quit" \in registered \/ faults["initFail"] > 0
  BY <1>1 DEF HangInv, EnvInv
<1>5. CASE SP!Running
  <2>1. "pending" \in registered /\ pending = 0
    <3>1. "pending" \in registered
      BY <1>1, <1>5 DEF HangInv, StepInv
    <3> QED
      BY <1>1, <1>2, <1>3, <3>1
  <2>2. exec.stepState \in {"WAITRSP", "ERROR"}
    BY <1>5, <2>1 DEF HangInv, SP!WakeupInv, SP!NoLostWakeup, SP!Need, SP!Blocked
  <2>3. CASE exec.stepState = "WAITRSP"
    <3>1. InFlight > 0 \/ faults["lose"] > 0
      BY <1>1, <1>5, <2>3 DEF HangInv, StepInv
    <3>2. InFlight > 0 => Len(rx) > 0
      BY <1>1, <1>3 DEF InFlight
    <3>3. CASE "bus" \in registered
      BY <1>1, <1>2, <1>3, <3>1, <3>2, <3>3
    <3>4. CASE "bus" \notin registered
      BY <1>4, <3>4
    <3> QED
      BY <3>3, <3>4
  <2>4. CASE exec.stepState = "ERROR"
    <3>1. faults["sendFail"] > 0 \/ link = "down" \/ socket # "can0"
      BY <1>1, <1>5, <2>4 DEF HangInv, StepInv
    <3> QED
      BY <1>3, <1>4, <3>1
  <2> QED
    BY <2>2, <2>3, <2>4
<1>6. CASE curSeq = NoSeq
  <2>1. completed = Info /\ quit > 0
    BY <1>1, <1>6 DEF HangInv, EndInv
  <2>2. "quit" \notin registered
    BY <1>1, <1>2, <2>1
  <2> QED
    BY <1>4, <2>1, <2>2 DEF Command, Info
<1> QED
  BY <1>3, <1>5, <1>6 DEF SP!Running

(* axisInfo, the only command whose loop is run, does not hang without one. *)
LEMMA InfoHangs ==
  ASSUME Cmd = "axisInfo"
  PROVE  Spec => []HangNeedsFault
<1>1. Init => HangInv
  BY InitHang
<1>2. HangInv /\ [Next]_vars => HangInv'
  BY NextHang
<1>3. HangInv => HangNeedsFault
  BY HangHas
<1> QED
  BY <1>1, <1>2, <1>3, PTL DEF Spec

(* The loop is never run for the other command, so it never sleeps.         *)
NoRun == OutsideLoop /\ \A c \in Range(todo) : c[1] # "run"

(* There is no such call among those of axisMove.                           *)
LEMMA InitNoRun ==
  ASSUME Cmd = "axisMove", Init
  PROVE  NoRun
<1> DEFINE c  == [i \in DOMAIN Command |-> <<"startSequence", Command[i]>>]
           sc == Startup \o c
<1>1. c \in Seq(TodoCalls) /\ \A i \in DOMAIN c : Stage[c[i][1]] <= 4
  <2>1. Command \in Seq(SeqIDs)
    BY CommandType
  <2>2. c \in Seq(TodoCalls) /\ \A i \in DOMAIN c : c[i][1] = "startSequence"
    BY <2>1 DEF TodoCalls
  <2> QED
    BY <2>2 DEF Stage
<1>2. Startup \in Seq(TodoCalls) /\ \A i \in DOMAIN Startup : Stage[Startup[i][1]] <= 4
  <2>1. ASSUME NEW i \in DOMAIN Startup PROVE Stage[Startup[i][1]] <= 4
    <3>1. Startup[i] \in TodoCalls /\ Stage[Startup[i][1]] <= 3
      BY StartupStages
    <3>2. Stage[Startup[i][1]] \in 1..5
      BY <3>1, CallStages
    <3> QED
      BY <3>1, <3>2
  <2> QED
    BY <2>1, StartupStages
<1>3. todo = sc \o <<>> /\ OutsideLoop
  BY DEF Calls, Init, InitWith, Loop!Init, OutsideLoop
<1> HIDE DEF c
<1>4. sc \in Seq(TodoCalls) /\ \A i \in DOMAIN sc : Stage[sc[i][1]] <= 4
  BY <1>1, <1>2, LastStage
<1> HIDE DEF sc
<1>5. sc \o <<>> = sc
  BY <1>4
<1>6. ASSUME NEW i \in DOMAIN sc PROVE sc[i][1] # "run"
  <2>1. Stage["run"] = 5
    BY DEF Stage
  <2>2. sc[i][1] = "run" => 5 <= 4
    BY <1>4, <2>1
  <2> QED
    BY <2>2
<1> QED
  BY <1>3, <1>5, <1>6 DEF NoRun, Range

(* It stays outside the loop.                                               *)
LEMMA NextNoRun ==
  ASSUME CallsInv, NoRun, [Next]_vars
  PROVE  NoRun'
<1>1. Range(todo') \subseteq Range(todo)
  BY NextCall, TodoMoves
<1>2. ~RunCall
  <2> SUFFICES ASSUME RunCall PROVE FALSE
    OBVIOUS
  <2>1. todo # <<>> /\ Head(todo)[1] = "run" /\ todo \in Seq(TodoCalls)
    BY DEF RunCall, Calling, CallsInv
  <2>2. Head(todo) = todo[1] /\ 1 \in DOMAIN todo
    BY <2>1
  <2> QED
    BY <2>1, <2>2 DEF NoRun, Range
<1>3. loop \in {"none", "stopped"}
  BY DEF NoRun, OutsideLoop
<1>4. loop' \in {"none", "stopped"}
  BY <1>2, <1>3 DEF Next, MainStep, LoopStep, Halted, ConfigureCall, InitCall,
     RegisterPendingCall, RegisterBusCall, StartCall, Wait, Interrupted, Quit, SequencerEvent,
     BusEvent, Answer, BusFault, vars, loopVars, Watch, Loop!InitLoop, Loop!InitFails,
     Loop!Register, Loop!EpollWait, Loop!EpollFail, Loop!HandleQuit, Loop!Handle
<1> QED
  BY <1>1, <1>4 DEF NoRun, OutsideLoop

(* The program can sleep for good only when a frame was lost, a request     *)
(* could not be sent or its answer is not watched for, a garbage m_curSeq   *)
(* kept the sequence from being started, or nobody watches the quit event;  *)
(* and for axisMove never, as its loop is not run.                          *)
THEOREM HangsExplained == Spec => []HangNeedsFault
<1>1. CASE Cmd = "axisInfo"
  BY <1>1, InfoHangs
<1>2. CASE Cmd = "axisMove"
  <2>1. Init => CallsInv /\ NoRun
    BY <1>2, InitTypes, InitNoRun DEF TypeInv
  <2>2. CallsInv /\ NoRun /\ [Next]_vars => (CallsInv /\ NoRun)'
    BY NextCalls, NextNoRun
  <2>3. NoRun => HangNeedsFault
    BY DEF NoRun, OutsideLoop, HangNeedsFault, Hung
  <2> QED
    BY <2>1, <2>2, <2>3, PTL DEF Spec
<1> QED
  BY <1>1, <1>2, AppAssumption
====
