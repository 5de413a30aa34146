------------------------------ MODULE UIM342App ------------------------------
(***************************************************************************)
(* The program uim342_utils: App::init and App::execute                    *)
(* (uim342_utils.cpp) calling the machine, the machine's event loop and    *)
(* sequencer, its CAN bus (CANRR.cpp) and the motor controller at the      *)
(* other end of it.  How the machine is put together is in MachineWiring.  *)
(*                                                                         *)
(* The program is one thread.  Outside the event loop it takes the calls   *)
(* of the command one by one; inside, the loop hands it one descriptor     *)
(* after the other.  The bus and the controller act at any time.           *)
(***************************************************************************)
EXTENDS Naturals, Sequences, FiniteSets, Functions, MachineWiring

CONSTANTS
  SeqIDs, StepCount, NoSeq, Wild, ZeroedHeap, MaxStarts, MaxUnsolicited,
              \* as in CNCSequencer
  MaxEvents, MaxCount,
              \* as in EventLoop
  Cmd,        \* m_cmd: "axisInfo" or "axisMove", from the command line
  NoRequest,  \* what a frame answers that answers no request
  FaultKinds, \* the faults the environment is allowed, see Fault
  MaxFaults   \* bound: number of faults

\* While the program starts: a netlink call for the interface, the creation
\* of the event loop, an addition to its epoll set, or the opening of the CAN
\* socket fails.
StartFaults == {"netlinkFail", "initFail", "watchFail", "openFail"}

AllFaults ==
  StartFaults \cup {"lose", "duplicate", "stray", "sendFail", "interrupt"}

ASSUME AppAssumption ==
  /\ Cmd \in {"axisInfo", "axisMove"}
  /\ SeqIDs = {"axisInfo", "mdEnable", "setupMotion", "execMotion"}
  /\ StepCount \in [SeqIDs -> Nat \ {0}]
  /\ {NoSeq, Wild} \cap SeqIDs = {}
  /\ NoSeq # Wild
  /\ ZeroedHeap \in BOOLEAN
  /\ MaxStarts \in Nat
  /\ MaxUnsolicited \in Nat
  /\ MaxEvents \in Nat \ {0}
  /\ MaxCount \in Nat
  /\ NoRequest \notin Nat
  /\ FaultKinds \subseteq AllFaults
  /\ MaxFaults \in Nat

VARIABLES
  curSeq, curExec, exec, activeSequences, live, allocs, pending, crashed,
  started, unsolicited, rejected, unearned,
              \* as in CNCSequencer
  registered, loop, batch, result,
              \* as in EventLoop
  todo,       \* the calls the main thread still has to make
  link,       \* the network interface can0: "up" or "down"
  socket,     \* m_busFD: "closed", bound to "can0", or to something "else"
  quit,       \* value of the quit eventfd
  tx,         \* requests on their way to the controller or being answered
  rx,         \* receive queue of the CAN socket
  answers,    \* history: <<step, frame>> pairs handed to parseResponse
  completed,  \* history: sequences declared complete
  refusals,   \* history: m_curSeq when startSequence refused a call
  faults      \* history: number of faults of each kind

seqVars  == <<curSeq, curExec, exec, activeSequences, live, allocs, pending,
              crashed, started, unsolicited, rejected, unearned>>
loopVars == <<registered, loop, batch, result>>
openVars == <<link, socket>>
busVars  == <<tx, rx>>
histVars == <<answers, completed, refusals>>
vars     == <<seqVars, loopVars, todo, openVars, quit, busVars, histVars, faults>>

Sequencer == INSTANCE CNCSequencer

Descriptors == {"quit", "pending", "bus"}

\* The reads each descriptor can serve, as EventLoop sees them.
Counts ==
  [f \in Descriptors |->
     CASE f = "quit"    -> quit
       [] f = "pending" -> pending
       [] f = "bus"     -> Len(rx)]

Loop == INSTANCE EventLoop WITH
          FDs <- Descriptors, QuitFD <- "quit", count <- Counts

-----------------------------------------------------------------------------
\* The sequences execute() asks for.
Command ==
  IF Cmd = "axisInfo"
    THEN <<"axisInfo">>
    ELSE <<"mdEnable", "setupMotion", "execMotion", "mdEnable">>

(* What precedes the command: setup() ends with configureBus, and           *)
(* prepareBeforeRun creates the event loop and has the sequencer and the    *)
(* components register with it.                                             *)
Startup ==
  <<<<"configure", "down">>, <<"configure", "up">>,
    <<"init", "loop">>, <<"register", "pending">>>>
    \o [i \in DOMAIN Registered |-> <<"register", Registered[i]>>]

(* As in the other modules, an operator named Wrong... is a slip one could  *)
(* make in the definition that follows it.                                  *)
WrongCallsLeaveOutRun ==
  Startup \o [i \in DOMAIN Command |-> <<"startSequence", Command[i]>>]

(* init() and execute() as the calls they make, in order.  Only axisInfo    *)
(* goes on to start(), which runs the event loop.  addEventObserver leaves  *)
(* nothing behind that changes later.                                       *)
Calls ==
  Startup
    \o [i \in DOMAIN Command |-> <<"startSequence", Command[i]>>]
    \o (IF Cmd = "axisInfo" THEN <<<<"run", "loop">>>> ELSE <<>>)

InitWith(calls) ==
  /\ Sequencer!Init
  /\ todo = calls
  /\ link \in {"up", "down"}
  /\ socket = "closed"
  /\ quit = 0
  /\ tx = <<>>
  /\ rx = <<>>
  /\ answers = <<>>
  /\ completed = <<>>
  /\ refusals = {}
  /\ faults = [k \in AllFaults |-> 0]
  /\ Loop!Init

Init == InitWith(Calls)

\* The main thread is between two calls and its next one is c.
OutsideLoop == loop \in {"none", "stopped"}
Calling(c) == ~crashed /\ OutsideLoop /\ todo # <<>> /\ Head(todo)[1] = c

\* main() has returned, or the process was killed by a wild access.
Returned == ~crashed /\ todo = <<>> /\ OutsideLoop
Exited == crashed \/ Returned

NumFaults ==
  faults["lose"] + faults["duplicate"] + faults["stray"] + faults["sendFail"]
    + faults["interrupt"] + faults["netlinkFail"] + faults["initFail"]
    + faults["watchFail"] + faults["openFail"]

\* A fault of kind k happens, if the run allows it.
Fault(k) ==
  /\ k \in FaultKinds
  /\ NumFaults < MaxFaults
  /\ faults' = [faults EXCEPT ![k] = @ + 1]

-----------------------------------------------------------------------------
(* The main thread.                                                         *)

(* setBusDown and setBusUp: one netlink request each.  A failure on the way *)
(* returns at once, and nobody looks at the result; when only the kernel's  *)
(* answer could not be read, the interface has changed all the same.  (The  *)
(* kernel refuses the bitrate while the interface is up: it stays up.)      *)
ConfigureCall ==
  /\ Calling("configure")
  /\ todo' = Tail(todo)
  /\ \/ link' = Head(todo)[2] /\ UNCHANGED faults
     \/ link' \in {link, Head(todo)[2]} /\ Fault("netlinkFail")
  /\ UNCHANGED <<seqVars, loopVars, socket, quit, busVars, histVars>>

\* EventLoop::init, whose result prepareBeforeRun ignores.
InitCall ==
  /\ Calling("init")
  /\ todo' = Tail(todo)
  /\ UNCHANGED <<seqVars, openVars, quit, busVars, histVars>>
  /\ \/ Loop!InitLoop /\ UNCHANGED faults
     \/ Loop!InitFails /\ Fault("initFail")

\* epoll_ctl, which fails for lack of an epoll set or for other reasons.
Watch(f) ==
  \/ Loop!Register(f) /\ UNCHANGED faults
  \/ loop = "none" /\ UNCHANGED <<loopVars, faults>>
  \/ loop = "stopped" /\ Fault("watchFail") /\ UNCHANGED loopVars

(* createEventFD for the sequencer: when epoll_ctl fails it returns NULL,   *)
(* and that is m_pendingFD from then on.                                    *)
RegisterPendingCall ==
  /\ Calling("register")
  /\ Head(todo)[2] = "pending"
  /\ todo' = Tail(todo)
  /\ UNCHANGED <<seqVars, openVars, quit, busVars, histVars>>
  /\ Watch("pending")

(* CANBus::registerWithEventLoop, whose result CNCAxis and CNCMachine       *)
(* ignore.  open() fails without a socket or with an unbound one.  It does  *)
(* not look at the result of the ioctl: the index it binds to may then be   *)
(* what the stack held, and 0 binds to every interface and sends on none.   *)
(* registerWithEventLoop does not look at the result of registerFD either:  *)
(* the socket may be open and not watched.                                  *)
RegisterBusCall ==
  /\ Calling("register")
  /\ Head(todo)[2] = "bus"
  /\ todo' = Tail(todo)
  /\ UNCHANGED <<seqVars, link, quit, busVars, histVars>>
  /\ \/ socket' = "can0" /\ Watch("bus")
     \/ /\ socket' \in {"closed", "else"}
        /\ Fault("openFail")
        /\ UNCHANGED loopVars
     \/ /\ loop = "stopped"
        /\ socket' = "else"
        /\ Fault("openFail")
        /\ Loop!Register("bus")

(* startSequence; execute() ignores the result.  The call for which there   *)
(* is no m_pendingFD to signal ends the process.                            *)
StartCall ==
  /\ Calling("startSequence")
  /\ todo' = Tail(todo)
  /\ \/ /\ "pending" \in registered
        /\ Sequencer!StartSequence(Head(todo)[2])
        /\ answers' = <<>>
        /\ UNCHANGED refusals
     \/ /\ "pending" \notin registered
        /\ curSeq = NoSeq
        /\ crashed' = TRUE
        /\ UNCHANGED <<curSeq, curExec, exec, activeSequences, live, allocs, pending,
                       started, unsolicited, rejected, unearned, answers, refusals>>
     \/ /\ curSeq # NoSeq
        /\ refusals' = refusals \cup {curSeq}
        /\ UNCHANGED <<seqVars, answers>>
  /\ UNCHANGED <<loopVars, openVars, quit, busVars, completed, faults>>

(* start(): the event loop runs until it returns.                           *)
RunCall ==
  /\ Calling("run")
  /\ todo' = Tail(todo)
  /\ UNCHANGED <<seqVars, openVars, quit, busVars, histVars, faults>>
  /\ Loop!Run \/ Loop!RunFails

-----------------------------------------------------------------------------
(* The event loop and the callbacks it makes.                               *)

Wait ==
  /\ ~crashed
  /\ UNCHANGED <<seqVars, todo, openVars, quit, busVars, histVars, faults>>
  /\ Loop!EpollWait

(* A signal, stop and continue for example, interrupts epoll_wait.          *)
Interrupted ==
  /\ ~crashed
  /\ Fault("interrupt")
  /\ UNCHANGED <<seqVars, todo, openVars, quit, busVars, histVars>>
  /\ Loop!EpollFail

Quit ==
  /\ ~crashed
  /\ quit' = quit - 1
  /\ UNCHANGED <<seqVars, todo, openVars, busVars, histVars, faults>>
  /\ Loop!HandleQuit

\* sendFrame's write can succeed: the socket is bound to an interface in use.
CanSend == RequestBus = "bus" /\ socket = "can0" /\ link = "up"

(* One call of CNCSequencer::eventFD.  Finishing a sequence calls the       *)
(* machine's observers, and App::sequenceComplete stops the loop.           *)
SequencerEvent ==
  /\ \/ Sequencer!IdleEvent /\ UNCHANGED <<quit, tx, completed, faults>>
     \/ Sequencer!InitEvent /\ UNCHANGED <<quit, tx, completed, faults>>
     \/ /\ Sequencer!FinishEvent
        /\ quit' = quit + 1
        /\ completed' = Append(completed, curSeq)
        /\ UNCHANGED <<tx, faults>>
     \/ /\ CanSend
        /\ Sequencer!RunStepEvent(TRUE)
        /\ tx' = Append(tx, Sequencer!NextIndex)
        /\ UNCHANGED <<quit, completed, faults>>
     \/ /\ IF CanSend THEN Fault("sendFail") ELSE UNCHANGED faults
        /\ Sequencer!RunStepEvent(FALSE)
        /\ UNCHANGED <<quit, tx, completed>>
     \/ Sequencer!StepDoneEvent /\ UNCHANGED <<quit, tx, completed, faults>>
  /\ UNCHANGED <<todo, openVars, rx, answers, refusals>>
  /\ \E S \in SUBSET {"quit", "pending"} : Loop!Handle("pending", S)

(* CANBus::receiveFrame: one read, whose frame (or whatever a failed read   *)
(* leaves) goes through the device to the sequencer unfiltered, in one call *)
(* as the machine is wired.                                                 *)
BusEvent ==
  /\ ~crashed
  /\ rx # <<>>
  /\ rx' = Tail(rx)
  /\ CallsPerFrame = 1
  /\ \/ curSeq = NoSeq /\ UNCHANGED <<seqVars, answers>>
     \/ /\ Sequencer!ProcessFrame(TRUE)
        /\ answers' = Append(answers, <<exec.stepIndex, Head(rx)>>)
     \/ Sequencer!WildFrame /\ UNCHANGED answers
  /\ UNCHANGED <<todo, openVars, quit, tx, completed, refusals, faults>>
  /\ \E S \in SUBSET {"pending"} : Loop!Handle("bus", S)

-----------------------------------------------------------------------------
(* The bus and the controller, outside the program.                         *)

(* The controller answers its oldest request.                               *)
Answer ==
  /\ ~Exited
  /\ tx # <<>>
  /\ tx' = Tail(tx)
  /\ rx' = Append(rx, Head(tx))
  /\ UNCHANGED <<seqVars, loopVars, todo, openVars, quit, histVars, faults>>

(* The request, or the answer to it, is lost; or two frames answer it; or a *)
(* frame nobody asked for, or a read error, turns up in the socket: a       *)
(* failed read is passed on like a frame.                                   *)
BusFault ==
  /\ ~Exited
  /\ \/ tx # <<>> /\ Fault("lose") /\ tx' = Tail(tx) /\ UNCHANGED rx
     \/ /\ tx # <<>>
        /\ Fault("duplicate")
        /\ tx' = Tail(tx)
        /\ rx' = rx \o <<Head(tx), Head(tx)>>
     \/ /\ "bus" \in registered
        /\ Fault("stray")
        /\ rx' = Append(rx, NoRequest)
        /\ UNCHANGED tx
  /\ UNCHANGED <<seqVars, loopVars, todo, openVars, quit, histVars>>

(* A process that has ended stays that way.                                 *)
Halted == Exited /\ UNCHANGED vars

-----------------------------------------------------------------------------
MainStep ==
  \/ ConfigureCall
  \/ InitCall
  \/ RegisterPendingCall
  \/ RegisterBusCall
  \/ StartCall
  \/ RunCall

LoopStep == Wait \/ Quit \/ SequencerEvent \/ BusEvent

Next == MainStep \/ LoopStep \/ Interrupted \/ Answer \/ BusFault \/ Halted

Spec == Init /\ [][Next]_vars

(* The thread is scheduled, and the controller answers what reaches it.     *)
FairSpec == Spec /\ WF_vars(MainStep) /\ WF_vars(LoopStep) /\ WF_vars(Answer)

-----------------------------------------------------------------------------
(* Properties.                                                              *)

\* Frames that answer nothing.
Surplus == faults["stray"] + faults["duplicate"]

TypeOK ==
  /\ Sequencer!TypeOK
  /\ Loop!TypeOK
  /\ todo \in Seq({"configure", "init", "register", "startSequence", "run"}
                    \X (SeqIDs \cup {"up", "down", "pending", "bus", "loop"}))
  /\ link \in {"up", "down"}
  /\ socket \in {"closed", "can0", "else"}
  /\ quit \in Nat
  /\ tx \in Seq(Nat)
  /\ rx \in Seq(Nat \cup {NoRequest})
  /\ answers \in Seq(Nat \X (Nat \cup {NoRequest}))
  /\ completed \in Seq(SeqIDs)
  /\ refusals \subseteq SeqIDs \cup {Wild}
  /\ faults \in [AllFaults -> Nat]

(* The callbacks read exactly what the loop found ready: the thread never   *)
(* blocks in a read.                                                        *)
ReadsNeverBlock == Loop!NoBlockingRead

(* The command line's sequence, run to its end, does what an abstract       *)
(* request/response exchange of its steps does.                             *)
Exchange == INSTANCE RequestResponse WITH
              Steps   <- StepCount[Command[1]],
              sent    <- Len(started),
              results <- answers,
              done    <- completed # <<>>

ImplementsExchange == Exchange!RRSpec

(* When main() returns, the sequences the command started have all run, and *)
(* in order, unless a signal broke the event loop.  A loop that was never   *)
(* created is noticed no earlier than by the call that starts a sequence,   *)
(* which a garbage m_curSeq refuses.                                        *)
CommandDone ==
  Returned =>
    \/ completed = Command
    \/ faults["interrupt"] > 0
    \/ curSeq = Wild /\ loop = "none"

(* The command ends, when nothing goes wrong.                               *)
Terminates == <>(Exited /\ ~crashed)

(* Frames nobody asked for, duplicates, failed reads and signals do not     *)
(* keep it from ending; only these faults may.                              *)
TerminatesUnlessFault ==
  <>( \/ Exited
      \/ faults["lose"] + faults["sendFail"] > 0
      \/ \E k \in StartFaults : faults[k] > 0
      \/ curSeq = Wild )

(* Frames that answer nothing shift the answers: a step can be credited     *)
(* with the answer to an earlier request, but by no more requests than      *)
(* there were such frames, and never with an answer to a later one.         *)
LagBounded ==
  \A i \in DOMAIN answers :
    LET step == answers[i][1]
        req  == answers[i][2]
    IN  req # NoRequest => req <= step /\ step <= req + Surplus

(* One request at a time, but for one more in flight with every such frame: *)
(* each leaves one wake-up too many, which sends the next request, or ends  *)
(* the sequence, before the last answer was read.                           *)
InFlightBounded ==
  Cardinality((Range(tx) \cup Range(rx)) \ {NoRequest}) <=
    (IF Sequencer!Running /\ exec.stepState = "WAITRSP" THEN 1 ELSE 0)
      + Surplus

(* The loop sleeps with nothing left to wake it.                            *)
Hung == loop = "waiting" /\ Loop!Ready = {} /\ tx = <<>> /\ ~crashed

(* What a hang takes: a frame lost, a request that could not be sent or     *)
(* whose answer nobody watches for, a garbage m_curSeq that kept the        *)
(* sequence from being started; or everything was done, and the event loop  *)
(* does not watch its quit descriptor.                                      *)
HangNeedsFault ==
  Hung =>
    \/ faults["lose"] + faults["sendFail"] > 0
    \/ link = "down" /\ faults["netlinkFail"] > 0
    \/ socket # "can0" /\ faults["openFail"] > 0
    \/ "bus" \notin registered /\ faults["watchFail"] > 0
    \/ curSeq = Wild
    \/ completed = Command /\ quit > 0 /\ faults["initFail"] > 0

(* A frame finds a sequence that was started, or none, and a sequence is    *)
(* started with an event to wake it: the only wild accesses are through a   *)
(* garbage m_curSeq, and through the m_pendingFD that could not be created  *)
(* and was not missed.                                                      *)
CrashExplained ==
  crashed =>
    \/ curSeq = Wild
    \/ /\ curSeq = NoSeq
       /\ "pending" \notin registered
       /\ faults["initFail"] + faults["watchFail"] > 0

(* What the program says when it refuses a call: "Sequence already running, *)
(* can't start new sequence" (CNCMachine.cpp:53).                           *)
RefusedOnlyWhileRunning == refusals \subseteq SeqIDs

(* eventFD's comment "Process the error and end the sequence"               *)
(* (CNCMachine.cpp:135): a step that fails ends its sequence.               *)
StepErrorEndsSequence ==
  (Sequencer!Running /\ exec.stepState = "ERROR") ~> (~Sequencer!Running \/ crashed)
=============================================================================
