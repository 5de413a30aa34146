--------------------------- MODULE UIM342AppProofs ---------------------------
(***************************************************************************)
(* Theorems about UIM342App, for both commands, any number of steps, any   *)
(* bounds and any number of faults.                                        *)
(***************************************************************************)
EXTENDS UIM342App, FiniteSetTheorems, TLAPS

SP == INSTANCE CNCSequencerProofs

LP == INSTANCE EventLoopProofs WITH
        FDs <- Descriptors, QuitFD <- "quit", count <- Counts

(* The sequencer's assumption on its constants.                             *)
LEMMA SeqAssumption == SP!SequencerAssumption
  BY AppAssumption DEF SP!SequencerAssumption

(* Sequencer and SP are instances of the same module: their definitions     *)
(* agree.                                                                   *)
LEMMA SameActions ==
  /\ Sequencer!TypeOK <=> SP!TypeOK
  /\ Sequencer!Init <=> SP!Init
  /\ \A s : Sequencer!StartSequence(s) <=> SP!StartSequence(s)
  /\ Sequencer!IdleEvent <=> SP!IdleEvent
  /\ Sequencer!InitEvent <=> SP!InitEvent
  /\ Sequencer!FinishEvent <=> SP!FinishEvent
  /\ \A sent : Sequencer!RunStepEvent(sent) <=> SP!RunStepEvent(sent)
  /\ Sequencer!StepDoneEvent <=> SP!StepDoneEvent
  /\ \A p : Sequencer!ProcessFrame(p) <=> SP!ProcessFrame(p)
  /\ Sequencer!WildFrame <=> SP!WildFrame
<1> USE DEF Sequencer!heapVars, SP!heapVars, Sequencer!histVars, SP!histVars,
  Sequencer!FreshExec, SP!FreshExec, Sequencer!Running, SP!Running, Sequencer!NextIndex,
  SP!NextIndex, Sequencer!PastEnd, SP!PastEnd, Sequencer!NoReschedule, SP!NoReschedule,
  Sequencer!Reschedule, SP!Reschedule,
  Sequencer!FreeExecution, SP!FreeExecution, Sequencer!Blocked, SP!Blocked,
  Sequencer!Readied, SP!Readied, Sequencer!ClearedStep, SP!ClearedStep,
  Sequencer!ReadyToSchedule, SP!ReadyToSchedule
<1>1. Sequencer!TypeOK <=> SP!TypeOK
  BY DEF Sequencer!TypeOK, SP!TypeOK, Sequencer!Executions, SP!Executions, SP!SeqStates,
    Sequencer!SeqStates, SP!StepStates, Sequencer!StepStates
<1>2. Sequencer!Init <=> SP!Init
  BY DEF Sequencer!Init, SP!Init
<1>3. \A s : Sequencer!StartSequence(s) <=> SP!StartSequence(s)
  BY DEF Sequencer!StartSequence, SP!StartSequence
<1>4. Sequencer!IdleEvent <=> SP!IdleEvent
  BY DEF Sequencer!IdleEvent, SP!IdleEvent
<1>5. Sequencer!InitEvent <=> SP!InitEvent
  BY DEF Sequencer!InitEvent, SP!InitEvent
<1>6. Sequencer!FinishEvent <=> SP!FinishEvent
  BY DEF Sequencer!FinishEvent, SP!FinishEvent
<1>7. \A sent : Sequencer!RunStepEvent(sent) <=> SP!RunStepEvent(sent)
  BY DEF Sequencer!RunStepEvent, SP!RunStepEvent
<1>8. Sequencer!StepDoneEvent <=> SP!StepDoneEvent
  BY DEF Sequencer!StepDoneEvent, SP!StepDoneEvent
<1>9. \A p : Sequencer!ProcessFrame(p) <=> SP!ProcessFrame(p)
  BY DEF Sequencer!ProcessFrame, SP!ProcessFrame
<1>10. Sequencer!WildFrame <=> SP!WildFrame
  BY DEF Sequencer!WildFrame, SP!WildFrame
<1> QED BY <1>1, <1>2, <1>3, <1>4, <1>5, <1>6, <1>7, <1>8, <1>9, <1>10

(* The same for the instances of EventLoop.                                 *)
LEMMA SameLoop ==
  /\ Loop!TypeOK <=> LP!TypeOK
  /\ Loop!NoBlockingRead <=> LP!NoBlockingRead
  /\ Loop!Init <=> LP!Init
  /\ Loop!InitLoop <=> LP!InitLoop
  /\ Loop!InitFails <=> LP!InitFails
  /\ \A f : Loop!Register(f) <=> LP!Register(f)
  /\ Loop!Run <=> LP!Run
  /\ Loop!RunFails <=> LP!RunFails
  /\ Loop!EpollWait <=> LP!EpollWait
  /\ Loop!EpollFail <=> LP!EpollFail
  /\ Loop!HandleQuit <=> LP!HandleQuit
  /\ \A f, S : Loop!Handle(f, S) <=> LP!Handle(f, S)
<1> USE DEF Loop!Ready, LP!Ready
<1>1. Loop!TypeOK <=> LP!TypeOK
  BY DEF Loop!TypeOK, LP!TypeOK
<1>2. Loop!NoBlockingRead <=> LP!NoBlockingRead
  BY DEF Loop!NoBlockingRead, LP!NoBlockingRead
<1>3. Loop!Init <=> LP!Init
  BY DEF Loop!Init, LP!Init
<1>4. (Loop!InitLoop <=> LP!InitLoop) /\ (Loop!InitFails <=> LP!InitFails)
  BY DEF Loop!InitLoop, LP!InitLoop, Loop!InitFails, LP!InitFails, Loop!WatchQuit, LP!WatchQuit
<1>5. \A f : Loop!Register(f) <=> LP!Register(f)
  BY DEF Loop!Register, LP!Register
<1>6. (Loop!Run <=> LP!Run) /\ (Loop!RunFails <=> LP!RunFails)
  BY DEF Loop!Run, LP!Run, Loop!RunFails, LP!RunFails
<1>7. Loop!EpollWait <=> LP!EpollWait
  BY DEF Loop!EpollWait, LP!EpollWait, Loop!BatchSize, LP!BatchSize,
         Loop!Cardinality, LP!Cardinality, Loop!Injection, LP!Injection, Loop!IsInjective,
           LP!IsInjective, Loop!IsFiniteSet, LP!IsFiniteSet
<1>8. Loop!EpollFail <=> LP!EpollFail
  BY DEF Loop!EpollFail, LP!EpollFail
<1>9. Loop!HandleQuit <=> LP!HandleQuit
  BY DEF Loop!HandleQuit, LP!HandleQuit, Loop!QuitTaken, LP!QuitTaken
<1>10. \A f, S : Loop!Handle(f, S) <=> LP!Handle(f, S)
  BY DEF Loop!Handle, LP!Handle, Loop!Served, LP!Served, Loop!AfterHandling, LP!AfterHandling
<1> QED
  BY <1>1, <1>2, <1>3, <1>4, <1>5, <1>6, <1>7, <1>8, <1>9, <1>10

(* The event loop's assumption on its constants.                            *)
LEMMA LoopAssumption == LP!EventLoopAssumption
<1>1. IsFiniteSet({"quit"}) /\ IsFiniteSet({"quit"} \cup {"pending"})
  BY FS_EmptySet, FS_AddElement, FS_Singleton
<1>2. IsFiniteSet(({"quit"} \cup {"pending"}) \cup {"bus"})
  BY <1>1, FS_AddElement
<1>3. Descriptors = ({"quit"} \cup {"pending"}) \cup {"bus"}
  BY DEF Descriptors
<1>4. IsFiniteSet(Descriptors) <=> LP!IsFiniteSet(Descriptors)
  BY DEF LP!IsFiniteSet, IsFiniteSet
<1> QED
  BY <1>1, <1>2, <1>3, <1>4, AppAssumption DEF LP!EventLoopAssumption

-----------------------------------------------------------------------------
(* The calls of the command.                                                *)

TodoCalls ==
  ({"configure"} \X {"up", "down"})
    \cup ({"init"} \X {"loop"})
    \cup ({"register"} \X {"pending", "bus"})
    \cup ({"startSequence"} \X SeqIDs)
    \cup ({"run"} \X {"loop"})

\* The stages of a command.
Stage ==
  [c \in {"configure", "init", "register", "startSequence", "run"} |->
     CASE c = "configure" -> 1
       [] c = "init" -> 2
       [] c = "register" -> 3
       [] c = "startSequence" -> 4
       [] c = "run" -> 5]

InStages(calls) ==
  \A i, j \in DOMAIN calls : i < j => Stage[calls[i][1]] <= Stage[calls[j][1]]

CallsInv == todo \in Seq(TodoCalls) /\ InStages(todo)

(* What the stage of a call says of it.                                     *)
LEMMA CallStages ==
  ASSUME NEW c \in TodoCalls
  PROVE  /\ c = <<c[1], c[2]>>
         /\ c[1] \in {"configure", "init", "register", "startSequence", "run"}
         /\ Stage[c[1]] \in 1..5
         /\ c[1] = "startSequence" <=> Stage[c[1]] = 4
         /\ c[1] = "startSequence" => c[2] \in SeqIDs
         /\ c[1] = "configure" => c[2] \in {"up", "down"}
         /\ c[1] = "register" => c[2] \in {"pending", "bus"} /\ Stage[c[1]] = 3
         /\ c[1] = "init" => c = <<"init", "loop">> /\ Stage[c[1]] = 2
         /\ c[1] = "run" => c = <<"run", "loop">> /\ Stage[c[1]] = 5
  BY DEF TodoCalls, Stage

(* Sequences of calls whose stages do not overlap.                          *)
LEMMA StagesConcatenated ==
  ASSUME NEW a \in Seq(TodoCalls), NEW b \in Seq(TodoCalls), NEW k \in Nat,
         InStages(a), InStages(b),
         \A i \in DOMAIN a : Stage[a[i][1]] <= k,
         \A i \in DOMAIN b : k <= Stage[b[i][1]]
  PROVE  a \o b \in Seq(TodoCalls) /\ InStages(a \o b)
<1>1. /\ a \o b \in Seq(TodoCalls)
      /\ Len(a \o b) = Len(a) + Len(b)
      /\ Len(a) \in Nat /\ Len(b) \in Nat
      /\ DOMAIN (a \o b) = 1..(Len(a) + Len(b)) /\ DOMAIN a = 1..Len(a) /\ DOMAIN b = 1..Len(b)
      /\ \A i \in 1..(Len(a) + Len(b)) : (a \o b)[i] = IF i <= Len(a) THEN a[i] ELSE b[i - Len(a)]
  OBVIOUS
<1>2. \A c \in TodoCalls : Stage[c[1]] \in Nat
  BY CallStages
<1> SUFFICES ASSUME NEW i \in 1..(Len(a) + Len(b)), NEW j \in 1..(Len(a) + Len(b)), i < j
             PROVE  Stage[(a \o b)[i][1]] <= Stage[(a \o b)[j][1]]
  BY <1>1 DEF InStages
<1>3. CASE j <= Len(a)
  BY <1>1, <1>3 DEF InStages
<1>4. CASE i > Len(a)
  <2>1. i - Len(a) \in DOMAIN b /\ j - Len(a) \in DOMAIN b /\ i - Len(a) < j - Len(a)
    BY <1>1, <1>4
  <2>2. (a \o b)[i] = b[i - Len(a)] /\ (a \o b)[j] = b[j - Len(a)]
    BY <1>1, <1>4
  <2> QED
    BY <2>1, <2>2 DEF InStages
<1>5. CASE i <= Len(a) /\ j > Len(a)
  <2>1. i \in DOMAIN a /\ j - Len(a) \in DOMAIN b
    BY <1>1, <1>5
  <2>2. (a \o b)[i] = a[i] /\ (a \o b)[j] = b[j - Len(a)]
    BY <1>1, <1>5
  <2>3. Stage[a[i][1]] <= k /\ k <= Stage[b[j - Len(a)][1]]
    BY <2>1
  <2>4. a[i] \in TodoCalls /\ b[j - Len(a)] \in TodoCalls
    BY <2>1
  <2> QED
    BY <1>2, <2>2, <2>3, <2>4, SMTT(30)
<1> QED
  BY <1>1, <1>3, <1>4, <1>5

(* No call of a concatenation is of a later stage than its parts.           *)
LEMMA LastStage ==
  ASSUME NEW a \in Seq(TodoCalls), NEW b \in Seq(TodoCalls), NEW k \in Nat,
         \A i \in DOMAIN a : Stage[a[i][1]] <= k,
         \A i \in DOMAIN b : Stage[b[i][1]] <= k
  PROVE  \A i \in DOMAIN (a \o b) : Stage[(a \o b)[i][1]] <= k
<1> SUFFICES ASSUME NEW i \in DOMAIN (a \o b) PROVE Stage[(a \o b)[i][1]] <= k
  OBVIOUS
<1>1. \/ i \in DOMAIN a /\ (a \o b)[i] = a[i]
      \/ i - Len(a) \in DOMAIN b /\ (a \o b)[i] = b[i - Len(a)]
  OBVIOUS
<1> QED
  BY <1>1

(* The calls that precede the command.                                      *)
LEMMA StartupStages ==
  /\ Startup \in Seq(TodoCalls) /\ InStages(Startup)
  /\ \A i \in DOMAIN Startup : Stage[Startup[i][1]] <= 3
<1> DEFINE a == <<<<"configure", "down">>, <<"configure", "up">>,
                  <<"init", "loop">>, <<"register", "pending">>>>
           b == [i \in DOMAIN Registered |-> <<"register", Registered[i]>>]
<1>1. a \in Seq(TodoCalls) /\ DOMAIN a = 1..4
  BY DEF TodoCalls
<1>2. b \in Seq(TodoCalls) /\ b = <<<<"register", "bus">>>>
  BY WiredAssumption DEF TodoCalls
<1>3. InStages(a) /\ \A i \in DOMAIN a : Stage[a[i][1]] <= 3
  BY <1>1 DEF InStages, Stage
<1>4. InStages(b) /\ \A i \in DOMAIN b : Stage[b[i][1]] = 3
  BY <1>2 DEF InStages, Stage
<1>5. Startup = a \o b
  BY DEF Startup
<1>6. \A i \in DOMAIN (a \o b) : Stage[(a \o b)[i][1]] <= 3
  <2>1. \A i \in DOMAIN b : Stage[b[i][1]] <= 3
    BY <1>4
  <2> QED
    BY <1>1, <1>2, <1>3, <2>1, LastStage
<1>7. Startup \in Seq(TodoCalls) /\ InStages(Startup)
  <2>1. \A i \in DOMAIN b : 3 <= Stage[b[i][1]]
    BY <1>4
  <2> QED
    BY <1>1, <1>2, <1>3, <1>4, <1>5, <2>1, StagesConcatenated
<1> QED
  BY <1>5, <1>6, <1>7

(* A command starts sequences the program has.                              *)
LEMMA CommandType == Command \in Seq(SeqIDs)
<1>1. {"axisInfo", "mdEnable", "setupMotion", "execMotion"} \subseteq SeqIDs
  BY AppAssumption
<1>2. <<"axisInfo">> \in Seq(SeqIDs)
  BY <1>1
<1>3. <<"mdEnable", "setupMotion", "execMotion", "mdEnable">> \in Seq(SeqIDs)
  BY <1>1
<1> QED
  BY <1>2, <1>3 DEF Command

(* The calls of the program come stage after stage.                         *)
LEMMA CallsInStages == Calls \in Seq(TodoCalls) /\ InStages(Calls)
<1> DEFINE a == [i \in DOMAIN Command |-> <<"startSequence", Command[i]>>]
           b == IF Cmd = "axisInfo" THEN <<<<"run", "loop">>>> ELSE <<>>
<1>1. a \in Seq(TodoCalls) /\ \A i \in DOMAIN a : Stage[a[i][1]] = 4
  <2>1. Command \in Seq(SeqIDs)
    BY CommandType
  <2>2. a \in Seq(TodoCalls)
    BY <2>1 DEF TodoCalls
  <2> QED
    BY <2>2 DEF Stage
<1>2. b \in Seq(TodoCalls) /\ \A i \in DOMAIN b : Stage[b[i][1]] = 5
  BY DEF TodoCalls, Stage
<1>3. InStages(a) /\ InStages(b)
  BY <1>1, <1>2 DEF InStages
<1>4. Startup \o a \in Seq(TodoCalls) /\ InStages(Startup \o a)
  <2>1. \A i \in DOMAIN a : 3 <= Stage[a[i][1]]
    BY <1>1
  <2> QED
    BY <1>1, <1>3, <2>1, StartupStages, StagesConcatenated
<1>5. \A i \in DOMAIN (Startup \o a) : Stage[(Startup \o a)[i][1]] <= 4
  <2>1. /\ Startup \in Seq(TodoCalls)
        /\ \A i \in DOMAIN Startup : Stage[Startup[i][1]] \in Nat /\ Stage[Startup[i][1]] <= 3
    BY StartupStages, CallStages
  <2>2. \A i \in DOMAIN Startup : Stage[Startup[i][1]] <= 4
    BY <2>1
  <2>3. \A i \in DOMAIN a : Stage[a[i][1]] <= 4
    BY <1>1
  <2> QED
    BY <1>1, <2>1, <2>2, <2>3, LastStage
<1>6. (Startup \o a) \o b \in Seq(TodoCalls) /\ InStages((Startup \o a) \o b)
  <2>1. \A i \in DOMAIN b : 4 <= Stage[b[i][1]]
    BY <1>2
  <2> QED
    BY <1>2, <1>3, <1>4, <1>5, <2>1, StagesConcatenated
<1> QED
  BY <1>6 DEF Calls

(* Taking the next call.                                                    *)
LEMMA NextCall ==
  ASSUME CallsInv, todo # <<>>, todo' = Tail(todo)
  PROVE  /\ CallsInv'
         /\ Head(todo) \in TodoCalls
         /\ \A c \in Range(todo) : c = Head(todo) \/ c \in Range(todo)'
         /\ \A c \in Range(todo)' : c \in TodoCalls /\ c \in Range(todo)
                                    /\ Stage[Head(todo)[1]] <= Stage[c[1]]
<1>1. /\ todo \in Seq(TodoCalls) /\ Len(todo) \in Nat \ {0} /\ DOMAIN todo = 1..Len(todo)
      /\ Head(todo) = todo[1] /\ 1 \in DOMAIN todo
  BY DEF CallsInv
<1>2. /\ todo' \in Seq(TodoCalls) /\ Len(todo') = Len(todo) - 1 /\ DOMAIN todo' = 1..(Len(todo) - 1)
      /\ \A i \in 1..(Len(todo) - 1) : todo'[i] = todo[i + 1]
  BY <1>1
<1>3. InStages(todo')
  <2> SUFFICES ASSUME NEW i \in DOMAIN todo', NEW j \in DOMAIN todo', i < j
               PROVE  Stage[todo'[i][1]] <= Stage[todo'[j][1]]
    BY DEF InStages
  <2>1. i + 1 \in DOMAIN todo /\ j + 1 \in DOMAIN todo /\ i + 1 < j + 1
    BY <1>1, <1>2
  <2> QED
    BY <1>2, <2>1 DEF CallsInv, InStages
<1>4. \A c \in Range(todo) : c = Head(todo) \/ c \in Range(todo')
  <2> SUFFICES ASSUME NEW i \in DOMAIN todo PROVE todo[i] = todo[1] \/ todo[i] \in Range(todo')
    BY <1>1 DEF Range
  <2>1. CASE i # 1
    <3>1. i - 1 \in DOMAIN todo' /\ todo'[i - 1] = todo[i]
      BY <1>1, <1>2, <2>1
    <3> QED
      BY <3>1 DEF Range
  <2> QED
    BY <2>1
<1>5. \A c \in Range(todo') : c \in TodoCalls /\ c \in Range(todo)
                               /\ Stage[Head(todo)[1]] <= Stage[c[1]]
  <2> SUFFICES ASSUME NEW i \in DOMAIN todo'
               PROVE  /\ todo'[i] \in TodoCalls /\ todo'[i] \in Range(todo)
                      /\ Stage[todo[1][1]] <= Stage[todo'[i][1]]
    BY <1>1 DEF Range
  <2>1. i + 1 \in DOMAIN todo /\ todo'[i] = todo[i + 1] /\ 1 < i + 1
    BY <1>1, <1>2
  <2> QED
    BY <1>1, <2>1 DEF Range, CallsInv, InStages
<1> QED
  BY <1>1, <1>2, <1>3, <1>4, <1>5 DEF CallsInv, Range

\* What the actions take from the next call is of its kind.
HeadTyped ==
  todo # <<>> =>
    /\ Head(todo)[1] = "startSequence" => Head(todo)[2] \in SeqIDs
    /\ Head(todo)[1] = "configure" => Head(todo)[2] \in {"up", "down"}

(* It is for every list of calls of the program.                            *)
LEMMA CallsTyped == CallsInv => HeadTyped
<1> SUFFICES ASSUME CallsInv, todo # <<>>
             PROVE  /\ Head(todo)[1] = "startSequence" => Head(todo)[2] \in SeqIDs
                    /\ Head(todo)[1] = "configure" => Head(todo)[2] \in {"up", "down"}
  BY DEF HeadTyped
<1>1. Head(todo) \in TodoCalls
  BY DEF CallsInv
<1> QED
  BY <1>1, CallStages

-----------------------------------------------------------------------------
(* The sequencer inside the program.                                        *)

(* startSequence signals an event that does not exist.                      *)
NullWakeup ==
  /\ curSeq = NoSeq
  /\ "pending" \notin registered
  /\ Calling("startSequence")
  /\ todo' = Tail(todo)
  /\ crashed' = TRUE
  /\ UNCHANGED <<curSeq, curExec, exec, activeSequences, live, allocs, pending,
                 started, unsolicited, rejected, unearned>>
  /\ UNCHANGED <<loopVars, openVars, quit, busVars, completed, faults, answers, refusals>>

(* The program's steps are steps of the sequencer, but for the wild signal. *)
LEMMA SequencerSteps ==
  HeadTyped /\ [Next]_vars => [SP!Next]_(SP!vars) \/ NullWakeup
<1> SUFFICES ASSUME HeadTyped, [Next]_vars
             PROVE  SP!Next \/ UNCHANGED seqVars \/ NullWakeup
  BY DEF SP!vars, seqVars
<1>1. CASE StartCall
  <2>1. ASSUME Sequencer!StartSequence(Head(todo)[2]) PROVE SP!Next
    <3>1. Head(todo)[2] \in SeqIDs
      BY <1>1 DEF StartCall, Calling, HeadTyped
    <3> QED
      BY <2>1, <3>1, SameActions DEF SP!Next
  <2> QED
    BY <1>1, <2>1 DEF StartCall, NullWakeup
<1>2. CASE SequencerEvent
  BY <1>2, SameActions DEF SequencerEvent, SP!Next, SP!PendingEvent
<1>3. CASE BusEvent
  BY <1>3, SameActions DEF BusEvent, SP!Next
<1>4. CASE ConfigureCall \/ InitCall \/ RegisterPendingCall \/ RegisterBusCall \/ RunCall
           \/ Wait \/ Quit \/ Interrupted \/ Answer \/ BusFault \/ UNCHANGED vars
  BY <1>4 DEF ConfigureCall, InitCall, RegisterPendingCall, RegisterBusCall, RunCall, Wait,
              Quit, Interrupted, Answer, BusFault, vars
<1> QED
  BY <1>1, <1>2, <1>3, <1>4 DEF Next, MainStep, LoopStep, Halted

(* Nothing happens any more once the process has crashed.                   *)
LEMMA CrashEnds == crashed /\ [Next]_vars => UNCHANGED vars
<1> SUFFICES ASSUME crashed, Next PROVE UNCHANGED vars
  OBVIOUS
<1>1. ~StartCall /\ ~ConfigureCall /\ ~InitCall /\ ~RegisterPendingCall /\ ~RegisterBusCall
      /\ ~RunCall
  BY DEF StartCall, ConfigureCall, InitCall, RegisterPendingCall, RegisterBusCall, RunCall, Calling
<1>2. ~Wait /\ ~Quit /\ ~Interrupted /\ ~BusEvent /\ ~Answer /\ ~BusFault
  BY DEF Wait, Quit, Interrupted, BusEvent, Answer, BusFault, Exited
<1>3. ~SequencerEvent
  BY DEF SequencerEvent, Sequencer!IdleEvent, Sequencer!InitEvent, Sequencer!FinishEvent,
         Sequencer!RunStepEvent, Sequencer!StepDoneEvent
<1> QED
  BY <1>1, <1>2, <1>3 DEF Next, MainStep, LoopStep, Halted

(* The sequencer's types hold inside the program.                           *)
LEMMA SequencerTypes == HeadTyped /\ SP!TypeOK /\ [Next]_vars => SP!TypeOK'
<1> SUFFICES ASSUME HeadTyped, SP!TypeOK, [Next]_vars PROVE SP!TypeOK'
  OBVIOUS
<1>1. CASE NullWakeup
  BY <1>1 DEF NullWakeup, SP!TypeOK
<1>2. CASE [SP!Next]_(SP!vars)
  BY <1>2, SeqAssumption, SP!NextTypeOK
<1> QED
  BY <1>1, <1>2, SequencerSteps

-----------------------------------------------------------------------------
(* The event loop inside the program.                                       *)

(* Steps that leave the loop's state alone, and add to what can be read.    *)
LEMMA LoopUntouched ==
  ASSUME LP!BatchInv, UNCHANGED loopVars,
         quit' \in Nat, pending' \in Nat, rx' \in Seq(Nat \cup {NoRequest}),
         rx \in Seq(Nat \cup {NoRequest}),
         quit' >= quit, pending' >= pending, Len(rx') >= Len(rx)
  PROVE  LP!BatchInv'
<1>1. Counts' \in [Descriptors -> Nat] /\ Counts \in [Descriptors -> Nat]
  BY DEF Counts, Descriptors, LP!BatchInv, LP!TypeOK
<1>2. \A f \in Descriptors : Counts'[f] >= Counts[f]
  BY DEF Counts, Descriptors
<1>3. \A f \in Descriptors : f \in LP!Ready => f \in LP!Ready'
  <2> SUFFICES ASSUME NEW f \in Descriptors, f \in registered, Counts[f] > 0
               PROVE  Counts'[f] > 0 /\ f \in registered'
    BY DEF LP!Ready
  <2>1. Counts[f] \in Nat /\ Counts'[f] \in Nat /\ Counts'[f] >= Counts[f]
    BY <1>1, <1>2
  <2> QED
    BY <2>1 DEF loopVars
<1>4. \A n \in DOMAIN batch : batch[n] \in Descriptors
  BY DEF LP!BatchInv, LP!TypeOK
<1> QED
  BY <1>1, <1>3, <1>4 DEF LP!BatchInv, LP!TypeOK, LP!NoBlockingRead, loopVars

(* Steps that are actions of the loop.                                      *)
LEMMA LoopActs ==
  ASSUME LP!BatchInv,
         \/ Loop!InitLoop \/ Loop!InitFails \/ Loop!Run \/ Loop!RunFails
         \/ Loop!EpollWait \/ Loop!EpollFail \/ Loop!HandleQuit
         \/ \E f \in Descriptors : Loop!Register(f)
         \/ \E f \in Descriptors, S \in SUBSET Descriptors : Loop!Handle(f, S)
  PROVE  LP!BatchInv'
<1>1. LP!Next
  BY SameLoop DEF LP!Next, LP!LoopStep
<1>2. [LP!Next]_(LP!vars)
  BY <1>1
<1> QED
  BY <1>2, LoopAssumption, LP!NextBatch

-----------------------------------------------------------------------------
(* Type correctness.                                                        *)

RestTypes ==
  /\ link \in {"up", "down"}
  /\ socket \in {"closed", "can0", "else"}
  /\ quit \in Nat
  /\ tx \in Seq(Nat)
  /\ rx \in Seq(Nat \cup {NoRequest})
  /\ answers \in Seq(Nat \X (Nat \cup {NoRequest}))
  /\ completed \in Seq(SeqIDs)
  /\ refusals \subseteq SeqIDs \cup {Wild}
  /\ faults \in [AllFaults -> Nat]

\* All but the order of the calls.
CoreInv == SP!TypeOK /\ LP!BatchInv /\ HeadTyped /\ RestTypes

TypeInv == SP!TypeOK /\ LP!BatchInv /\ CallsInv /\ RestTypes

(* The core of the types.                                                   *)
LEMMA TypesHaveCore == TypeInv => CoreInv
  BY CallsTyped DEF TypeInv, CoreInv

(* A fault counts one up.                                                   *)
LEMMA FaultTypes ==
  ASSUME faults \in [AllFaults -> Nat], NEW k \in AllFaults, Fault(k)
  PROVE  /\ faults' \in [AllFaults -> Nat]
         /\ faults'[k] = faults[k] + 1
         /\ \A j \in AllFaults : j # k => faults'[j] = faults[j]
  BY DEF Fault

(* A chain of record fields.                                                *)
LEMMA FaultsAre ==
  AllFaults = {"netlinkFail", "initFail", "watchFail", "openFail",
               "lose", "duplicate", "stray", "sendFail", "interrupt"}
  BY DEF AllFaults, StartFaults

(* What becomes of a sequence of some type.                                 *)
LEMMA SequenceTypes ==
  ASSUME NEW T, NEW s \in Seq(T)
  PROVE  /\ \A e \in T : Append(s, e) \in Seq(T) /\ s \o <<e, e>> \in Seq(T)
         /\ s # <<>> => Head(s) \in T /\ Tail(s) \in Seq(T)
<1>1. \A e \in T : <<e, e>> \in Seq(T)
  OBVIOUS
<1> QED
  BY <1>1

(* Every action keeps the types of the variables of this module.            *)
LEMMA NextRest == CoreInv /\ [Next]_vars => RestTypes'
<1> SUFFICES ASSUME CoreInv, [Next]_vars PROVE RestTypes'
  OBVIOUS
<1>a. RestTypes /\ HeadTyped
  BY DEF CoreInv
<1>b. curSeq \in SeqIDs \cup {NoSeq, Wild} /\ exec.stepIndex \in Nat
  BY DEF CoreInv, SP!TypeOK, SP!Executions
<1>c. /\ tx \in Seq(Nat) /\ rx \in Seq(Nat \cup {NoRequest}) /\ completed \in Seq(SeqIDs)
      /\ answers \in Seq(Nat \X (Nat \cup {NoRequest}))
  BY DEF CoreInv, RestTypes
<1>1. CASE ConfigureCall
  <2>1. Head(todo)[2] \in {"up", "down"}
    BY <1>1, <1>a DEF ConfigureCall, Calling, HeadTyped
  <2>2. faults' \in [AllFaults -> Nat]
    BY <1>1, <1>a, FaultTypes, FaultsAre DEF ConfigureCall, RestTypes
  <2> QED
    BY <1>1, <1>a, <2>1, <2>2 DEF ConfigureCall, RestTypes, busVars, histVars
<1>2. CASE InitCall
  <2>1. faults' \in [AllFaults -> Nat]
    BY <1>2, <1>a, FaultTypes, FaultsAre DEF InitCall, RestTypes
  <2> QED
    BY <1>2, <1>a, <2>1 DEF InitCall, RestTypes, busVars, histVars, openVars
<1>3. CASE RegisterPendingCall
  <2>1. faults' \in [AllFaults -> Nat]
    BY <1>3, <1>a, FaultTypes, FaultsAre DEF RegisterPendingCall, Watch, RestTypes
  <2> QED
    BY <1>3, <1>a, <2>1 DEF RegisterPendingCall, RestTypes, busVars, histVars, openVars
<1>4. CASE RegisterBusCall
  <2>1. faults' \in [AllFaults -> Nat]
    BY <1>4, <1>a, FaultTypes, FaultsAre DEF RegisterBusCall, Watch, RestTypes
  <2> QED
    BY <1>4, <1>a, <2>1 DEF RegisterBusCall, RestTypes, busVars, histVars
<1>5. CASE StartCall
  <2>1. answers' \in Seq(Nat \X (Nat \cup {NoRequest}))
    <3>1. answers' = <<>> \/ answers' = answers
      BY <1>5 DEF StartCall
    <3>2. <<>> \in Seq(Nat \X (Nat \cup {NoRequest}))
      OBVIOUS
    <3> QED
      BY <1>c, <3>1, <3>2, SequenceTypes
  <2>2. refusals' \subseteq SeqIDs \cup {Wild}
    BY <1>5, <1>a, <1>b DEF StartCall, RestTypes
  <2> QED
    BY <1>5, <1>a, <2>1, <2>2 DEF StartCall, RestTypes, busVars, openVars
<1>6. CASE RunCall \/ Wait \/ UNCHANGED vars
  BY <1>6, <1>a DEF RunCall, Wait, vars, RestTypes, busVars, histVars, openVars
<1>7. CASE Interrupted
  <2>1. faults' \in [AllFaults -> Nat]
    BY <1>7, <1>a, FaultTypes, FaultsAre DEF Interrupted, RestTypes
  <2> QED
    BY <1>7, <1>a, <2>1 DEF Interrupted, RestTypes, busVars, histVars, openVars
<1>8. CASE Quit
  <2>1. quit > 0
    BY <1>8 DEF Quit, Loop!HandleQuit, Counts, Descriptors
  <2> QED
    BY <1>8, <1>a, <2>1 DEF Quit, RestTypes, busVars, histVars, openVars
<1>9. CASE SequencerEvent
  <2>1. faults' \in [AllFaults -> Nat]
    BY <1>9, <1>a, FaultTypes, FaultsAre DEF SequencerEvent, RestTypes
  <2>2. quit' \in Nat
    <3>1. quit' = quit \/ quit' = quit + 1
      BY <1>9 DEF SequencerEvent
    <3> QED
      BY <1>a, <3>1 DEF RestTypes
  <2>3. completed' \in Seq(SeqIDs)
    <3>1. completed' = completed \/ (curSeq \in SeqIDs /\ completed' = Append(completed, curSeq))
      BY <1>9 DEF SequencerEvent, Sequencer!FinishEvent, Sequencer!Running
    <3> QED
      BY <1>c, <3>1, SequenceTypes
  <2>4. tx' \in Seq(Nat)
    <3>1. Sequencer!NextIndex \in Nat
      BY <1>b DEF Sequencer!NextIndex
    <3>2. tx' = tx \/ tx' = Append(tx, Sequencer!NextIndex)
      BY <1>9 DEF SequencerEvent
    <3> QED
      BY <1>c, <3>1, <3>2, SequenceTypes
  <2> QED
    BY <1>9, <1>a, <2>1, <2>2, <2>3, <2>4 DEF SequencerEvent, RestTypes, openVars
<1>10. CASE BusEvent
  <2>1. Head(rx) \in Nat \cup {NoRequest} /\ Tail(rx) \in Seq(Nat \cup {NoRequest})
    BY <1>10, <1>a DEF BusEvent, RestTypes
  <2>2. answers' \in Seq(Nat \X (Nat \cup {NoRequest}))
    <3>1. answers' = answers \/ answers' = Append(answers, <<exec.stepIndex, Head(rx)>>)
      BY <1>10 DEF BusEvent
    <3>2. <<exec.stepIndex, Head(rx)>> \in Nat \X (Nat \cup {NoRequest})
      BY <1>b, <2>1
    <3>3. Append(answers, <<exec.stepIndex, Head(rx)>>) \in Seq(Nat \X (Nat \cup {NoRequest}))
      BY <1>c, <3>2, SequenceTypes
    <3> QED
      BY <1>c, <3>1, <3>3
  <2> QED
    BY <1>10, <1>a, <2>1, <2>2 DEF BusEvent, RestTypes, openVars
<1>11. CASE Answer
  <2>1. Head(tx) \in Nat /\ Tail(tx) \in Seq(Nat)
    BY <1>11, <1>a DEF Answer, RestTypes
  <2> QED
    BY <1>11, <1>a, <2>1 DEF Answer, RestTypes, openVars, histVars
<1>12. CASE BusFault
  <2>1. faults' \in [AllFaults -> Nat]
    BY <1>12, <1>a, FaultTypes, FaultsAre DEF BusFault, RestTypes
  <2>2. tx' \in Seq(Nat)
    <3>1. tx' = tx \/ (tx # <<>> /\ tx' = Tail(tx))
      BY <1>12 DEF BusFault
    <3> QED
      BY <1>c, <3>1, SequenceTypes
  <2>3. rx' \in Seq(Nat \cup {NoRequest})
    <3>2. \/ rx' = rx \/ rx' = Append(rx, NoRequest)
          \/ tx # <<>> /\ rx' = rx \o <<Head(tx), Head(tx)>>
      BY <1>12 DEF BusFault
    <3>3. Append(rx, NoRequest) \in Seq(Nat \cup {NoRequest})
      BY <1>c, SequenceTypes
    <3>4. tx # <<>> => rx \o <<Head(tx), Head(tx)>> \in Seq(Nat \cup {NoRequest})
      <4>1. tx # <<>> => Head(tx) \in Nat \cup {NoRequest}
        BY <1>c
      <4> QED
        BY <1>c, <4>1, SequenceTypes
    <3> QED
      BY <1>c, <3>2, <3>3, <3>4
  <2> QED
    BY <1>12, <1>a, <2>1, <2>2, <2>3 DEF BusFault, RestTypes, openVars, histVars
<1> QED
  BY <1>1, <1>2, <1>3, <1>4, <1>5, <1>6, <1>7, <1>8, <1>9, <1>10, <1>11, <1>12
     DEF Next, MainStep, LoopStep, Halted

(* The batch stays ready, although the counts belong to other parts.        *)
LEMMA NextBatch == CoreInv /\ [Next]_vars => LP!BatchInv'
<1> SUFFICES ASSUME CoreInv, [Next]_vars PROVE LP!BatchInv'
  OBVIOUS
<1>a. LP!BatchInv /\ RestTypes /\ RestTypes' /\ SP!TypeOK
  BY NextRest DEF CoreInv
<1>b. pending \in Nat
  BY <1>a DEF SP!TypeOK
<1>c. ASSUME UNCHANGED loopVars, UNCHANGED quit, pending' \in {pending, pending + 1},
             Len(rx') >= Len(rx)
      PROVE  LP!BatchInv'
  BY <1>a, <1>b, <1>c, LoopUntouched DEF RestTypes
<1>1. CASE ConfigureCall \/ UNCHANGED vars
  BY <1>1, <1>c, <1>a DEF ConfigureCall, vars, seqVars, busVars, RestTypes
<1>2. CASE InitCall
  BY <1>2, <1>a, LoopActs DEF InitCall
<1>3. CASE RegisterPendingCall
  <2>1. CASE Loop!Register("pending")
    BY <2>1, <1>a, LoopActs DEF Descriptors
  <2> QED
    BY <1>3, <1>c, <1>a, <2>1 DEF RegisterPendingCall, Watch, seqVars, busVars, RestTypes
<1>4. CASE RegisterBusCall
  <2>1. CASE Loop!Register("bus")
    BY <2>1, <1>a, LoopActs DEF Descriptors
  <2> QED
    BY <1>4, <1>c, <1>a, <2>1 DEF RegisterBusCall, Watch, seqVars, busVars, RestTypes
<1>5. CASE StartCall
  BY <1>5, <1>c, <1>a DEF StartCall, Sequencer!StartSequence, seqVars, busVars, RestTypes
<1>6. CASE RunCall
  BY <1>6, <1>a, LoopActs DEF RunCall
<1>7. CASE Wait
  BY <1>7, <1>a, LoopActs DEF Wait
<1>8. CASE Interrupted
  BY <1>8, <1>a, LoopActs DEF Interrupted
<1>9. CASE Quit
  BY <1>9, <1>a, LoopActs DEF Quit
<1>10. CASE SequencerEvent
  <2>1. PICK S \in SUBSET {"quit", "pending"} : Loop!Handle("pending", S)
    BY <1>10 DEF SequencerEvent
  <2> QED
    BY <1>a, <2>1, LoopActs DEF Descriptors
<1>11. CASE BusEvent
  <2>1. PICK S \in SUBSET {"pending"} : Loop!Handle("bus", S)
    BY <1>11 DEF BusEvent
  <2> QED
    BY <1>a, <2>1, LoopActs DEF Descriptors
<1>12. CASE Answer
  BY <1>12, <1>c, <1>a DEF Answer, seqVars, RestTypes
<1>13. CASE BusFault
  BY <1>13, <1>c, <1>a DEF BusFault, seqVars, RestTypes
<1> QED
  BY <1>1, <1>2, <1>3, <1>4, <1>5, <1>6, <1>7, <1>8, <1>9, <1>10, <1>11, <1>12, <1>13
     DEF Next, MainStep, LoopStep, Halted

(* The calls still to be made stay in their order.                          *)
LEMMA NextCalls == CallsInv /\ [Next]_vars => CallsInv'
<1> SUFFICES ASSUME CallsInv, [Next]_vars PROVE CallsInv'
  OBVIOUS
<1>1. todo' = todo \/ (todo # <<>> /\ todo' = Tail(todo))
  BY DEF Next, MainStep, LoopStep, Halted, vars, ConfigureCall, InitCall, RegisterPendingCall,
         RegisterBusCall, StartCall, RunCall, Wait, Interrupted, Quit, SequencerEvent, BusEvent,
         Answer, BusFault, Calling
<1>2. CASE todo' = todo
  BY <1>2 DEF CallsInv
<1> QED
  BY <1>1, <1>2, NextCall

(* The types hold at first.                                                 *)
LEMMA InitTypes == Init => TypeInv
<1> SUFFICES ASSUME Init PROVE TypeInv
  OBVIOUS
<1>1. SP!TypeOK
  BY SameActions, SeqAssumption, SP!InitTypeOK DEF Init, InitWith
<1>2. LP!BatchInv
  BY SameLoop, LoopAssumption, LP!InitBatch DEF Init, InitWith
<1>3. CallsInv
  BY CallsInStages DEF Init, InitWith, CallsInv
<1>4. /\ <<>> \in Seq(Nat) /\ <<>> \in Seq(Nat \cup {NoRequest}) /\ <<>> \in Seq(SeqIDs)
      /\ <<>> \in Seq(Nat \X (Nat \cup {NoRequest}))
  OBVIOUS
<1> QED
  BY <1>1, <1>2, <1>3, <1>4 DEF Init, InitWith, TypeInv, RestTypes

(* Every action keeps them.                                                 *)
LEMMA NextTypes == TypeInv /\ [Next]_vars => TypeInv'
  BY CallsTyped, TypesHaveCore, SequencerTypes, NextBatch, NextCalls, NextRest DEF TypeInv

(* The invariant says what the properties ask for.                          *)
LEMMA TypesImply == TypeInv => TypeOK /\ ReadsNeverBlock
<1> SUFFICES ASSUME TypeInv PROVE TypeOK /\ ReadsNeverBlock
  OBVIOUS
<1>1. Sequencer!TypeOK /\ Loop!TypeOK /\ Loop!NoBlockingRead
  BY SameActions, SameLoop DEF TypeInv, LP!BatchInv
<1> DEFINE CallType == {"configure", "init", "register", "startSequence", "run"}
                         \X (SeqIDs \cup {"up", "down", "pending", "bus", "loop"})
<1>2. todo \in Seq(CallType)
  <2>1. TodoCalls \subseteq CallType
    BY DEF TodoCalls
  <2>2. todo \in Seq(TodoCalls)
    BY DEF TypeInv, CallsInv
  <2> QED
    BY <2>1, <2>2
<1> QED
  BY <1>1, <1>2 DEF TypeInv, RestTypes, TypeOK, ReadsNeverBlock

(* The types hold in every behaviour.                                       *)
LEMMA AlwaysTypes == Spec => []TypeInv
  BY InitTypes, NextTypes, PTL DEF Spec

(* The variables of the program keep their types, whatever fails.           *)
THEOREM TypeCorrect == Spec => []TypeOK
<1>1. TypeInv => TypeOK
  BY TypesImply
<1> QED
  BY <1>1, AlwaysTypes, PTL

(* No read of the program's only thread blocks: every callback finds in its *)
(* descriptor what the event loop saw there.                                *)
THEOREM NoReadBlocks == Spec => []ReadsNeverBlock
<1>1. TypeInv => ReadsNeverBlock
  BY TypesImply
<1> QED
  BY <1>1, AlwaysTypes, PTL

-----------------------------------------------------------------------------
(* Starting up.                                                             *)

(* A loop that was created stays, and watches no fewer descriptors.         *)
LEMMA LoopMoves ==
  [Next]_vars => /\ loop' = "none" => loop = "none" /\ registered' = registered
                 /\ loop # "none" => registered \subseteq registered' /\ loop' # "none"
<1> SUFFICES ASSUME [Next]_vars
             PROVE  \/ UNCHANGED <<registered, loop>>
                    \/ loop = "none" /\ loop' = "stopped"
                    \/ loop = "none" /\ UNCHANGED <<registered, loop>>
                    \/ loop # "none" /\ loop' # "none" /\ registered \subseteq registered'
  OBVIOUS
<1> USE DEF loopVars
<1>1. CASE \/ ConfigureCall \/ StartCall \/ Answer \/ BusFault \/ UNCHANGED vars
  BY <1>1 DEF ConfigureCall, StartCall, Answer, BusFault, vars
<1>2. CASE InitCall
  BY <1>2 DEF InitCall, Loop!InitLoop, Loop!InitFails
<1>3. CASE RegisterPendingCall \/ RegisterBusCall
  BY <1>3 DEF RegisterPendingCall, RegisterBusCall, Watch, Loop!Register
<1>4. CASE RunCall
  BY <1>4 DEF RunCall, Loop!Run, Loop!RunFails
<1>5. CASE Wait \/ Interrupted \/ Quit
  BY <1>5 DEF Wait, Interrupted, Quit, Loop!EpollWait, Loop!EpollFail, Loop!HandleQuit
<1>6. CASE SequencerEvent \/ BusEvent
  <2>1. PICK f \in {"pending", "bus"}, S \in SUBSET Descriptors : Loop!Handle(f, S)
    BY <1>6 DEF SequencerEvent, BusEvent, Descriptors
  <2> QED
    BY <2>1 DEF Loop!Handle, Loop!AfterHandling
<1> QED
  BY <1>1, <1>2, <1>3, <1>4, <1>5, <1>6 DEF Next, MainStep, LoopStep, Halted

(* Faults are only added.                                                   *)
LEMMA FaultsGrow ==
  CoreInv /\ [Next]_vars => \A k \in AllFaults : faults'[k] \in Nat /\ faults[k] \in Nat
                                                  /\ faults'[k] >= faults[k]
<1> SUFFICES ASSUME CoreInv, [Next]_vars
             PROVE  \A k \in AllFaults : faults'[k] \in Nat /\ faults[k] \in Nat
                                           /\ faults'[k] >= faults[k]
  OBVIOUS
<1>1. faults \in [AllFaults -> Nat]
  BY DEF CoreInv, RestTypes
<1>2. UNCHANGED faults \/ \E k \in AllFaults : Fault(k)
  BY FaultsAre DEF Next, MainStep, LoopStep, Halted, vars, ConfigureCall, InitCall,
         RegisterPendingCall, RegisterBusCall, Watch, StartCall, RunCall, Wait, Interrupted, Quit,
         SequencerEvent, BusEvent, Answer, BusFault
<1>3. ASSUME NEW j \in AllFaults, Fault(j)
      PROVE  \A k \in AllFaults : faults'[k] \in Nat /\ faults'[k] >= faults[k]
  BY <1>1, <1>3 DEF Fault
<1> QED
  BY <1>1, <1>2, <1>3

StartupInv ==
  /\ loop = "none" => registered = {}
  /\ \/ <<"init", "loop">> \in Range(todo)
     \/ loop # "none"
     \/ faults["initFail"] > 0
  /\ \/ <<"register", "pending">> \in Range(todo)
     \/ "pending" \in registered
     \/ faults["initFail"] + faults["watchFail"] > 0

(* A concatenation starts with its first part.                              *)
LEMMA PrefixKept ==
  ASSUME NEW S, NEW a \in Seq(S), NEW b \in Seq(S)
  PROVE  /\ a \o b \in Seq(S) /\ Len(a \o b) = Len(a) + Len(b)
         /\ Len(a) \in Nat /\ Len(b) \in Nat
         /\ \A i \in DOMAIN a : (a \o b)[i] = a[i]
  OBVIOUS

(* All calls of the start-up are still to be made at first.                 *)
LEMMA InitStartup == Init => StartupInv
<1> SUFFICES ASSUME Init PROVE StartupInv
  OBVIOUS
<1>1. loop = "none" /\ registered = {} /\ todo = Calls
  BY DEF Init, InitWith, Loop!Init
<1> DEFINE a == <<<<"configure", "down">>, <<"configure", "up">>,
                  <<"init", "loop">>, <<"register", "pending">>>>
           b == [i \in DOMAIN Registered |-> <<"register", Registered[i]>>]
           c == [i \in DOMAIN Command |-> <<"startSequence", Command[i]>>]
           d == IF Cmd = "axisInfo" THEN <<<<"run", "loop">>>> ELSE <<>>
<1>2. Startup = a \o b /\ b = <<<<"register", "bus">>>>
  BY WiredAssumption DEF Startup
<1>3. Startup \in Seq(TodoCalls) /\ Len(Startup) = 5 /\ 3 \in DOMAIN Startup /\ 4 \in DOMAIN Startup
      /\ Startup[3] = <<"init", "loop">> /\ Startup[4] = <<"register", "pending">>
  BY <1>2, StartupStages
<1>4. Calls = (Startup \o c) \o d
  BY DEF Calls
<1>5. c \in Seq(TodoCalls) /\ d \in Seq(TodoCalls)
  <2>1. Command \in Seq(SeqIDs)
    BY CommandType
  <2>2. c \in Seq(TodoCalls)
    BY <2>1 DEF TodoCalls
  <2>3. d \in Seq(TodoCalls)
    BY DEF TodoCalls
  <2> QED
    BY <2>2, <2>3
<1> HIDE DEF c, d
<1> DEFINE sc == Startup \o c
<1>6. /\ sc \in Seq(TodoCalls) /\ Len(sc) = 5 + Len(c) /\ Len(c) \in Nat
      /\ \A i \in 1..5 : sc[i] = Startup[i]
  <2>1. DOMAIN Startup = 1..5
    <3>1. Startup \in Seq(TodoCalls) /\ Len(Startup) = 5
      BY <1>3
    <3> QED
      BY <3>1
  <2>2. /\ sc \in Seq(TodoCalls) /\ Len(sc) = Len(Startup) + Len(c) /\ Len(c) \in Nat
        /\ \A i \in DOMAIN Startup : sc[i] = Startup[i]
    BY <1>3, <1>5, PrefixKept
  <2> QED
    BY <1>3, <2>1, <2>2
<1> HIDE DEF sc
<1>7. /\ Len(sc \o d) >= 5 /\ DOMAIN (sc \o d) = 1..Len(sc \o d) /\ Len(sc \o d) \in Nat
      /\ \A i \in 1..5 : (sc \o d)[i] = sc[i]
  BY <1>5, <1>6
<1>8. /\ 3 \in DOMAIN Calls /\ 4 \in DOMAIN Calls
      /\ Calls[3] = <<"init", "loop">> /\ Calls[4] = <<"register", "pending">>
  <2>1. Calls = sc \o d
    BY <1>4 DEF sc
  <2> QED
    BY <1>3, <1>6, <1>7, <2>1
<1> QED
  BY <1>1, <1>8 DEF StartupInv, Range

(* A call that is over has had its effect, or failed by a fault.            *)
LEMMA NextStartup == TypeInv /\ StartupInv /\ [Next]_vars => StartupInv'
<1> SUFFICES ASSUME TypeInv, StartupInv, [Next]_vars PROVE StartupInv'
  OBVIOUS
<1>a. CallsInv
  BY DEF TypeInv
<1>b. /\ faults'["initFail"] \in Nat /\ faults["initFail"] \in Nat
      /\ faults'["watchFail"] \in Nat /\ faults["watchFail"] \in Nat
      /\ faults'["initFail"] >= faults["initFail"] /\ faults'["watchFail"] >= faults["watchFail"]
  BY TypesHaveCore, FaultsGrow, FaultsAre
<1>c. /\ loop' = "none" => loop = "none" /\ registered' = registered
      /\ loop # "none" => registered \subseteq registered' /\ loop' # "none"
  BY LoopMoves
<1>1. CASE InitCall
  <2>1. /\ todo # <<>> /\ todo' = Tail(todo) /\ Head(todo)[1] = "init"
        /\ loop' # "none" \/ faults'["initFail"] > 0
    <3>1. Loop!InitLoop => loop' # "none"
      BY DEF Loop!InitLoop
    <3>2. Fault("initFail") => faults'["initFail"] > 0
      BY <1>b, FaultTypes, FaultsAre DEF TypeInv, RestTypes
    <3> QED
      BY <1>1, <3>1, <3>2 DEF InitCall, Calling
  <2>2. <<"register", "pending">> \in Range(todo) => <<"register", "pending">> \in Range(todo)'
    BY <1>a, <2>1, NextCall
  <2>3. loop = "none"
    BY <1>1 DEF InitCall, Loop!InitLoop, Loop!InitFails
  <2> QED
    BY <1>b, <1>c, <2>1, <2>2, <2>3 DEF StartupInv
<1>2. CASE RegisterPendingCall
  <2>1. /\ todo # <<>> /\ todo' = Tail(todo) /\ Head(todo)[1] = "register"
        /\ Stage["register"] = 3 /\ Stage["init"] = 2
    BY <1>2 DEF RegisterPendingCall, Calling, Stage
  <2>2. <<"init", "loop">> \notin Range(todo)
    <3>1. <<"init", "loop">> \in Range(todo) =>
             <<"init", "loop">> = Head(todo) \/ Stage[Head(todo)[1]] <= Stage["init"]
      BY <1>a, <2>1, NextCall
    <3> QED
      BY <2>1, <3>1
  <2>3. loop = "none" => faults["initFail"] > 0
    BY <2>2 DEF StartupInv
  <2>4. Loop!Register("pending") => "pending" \in registered'
    BY DEF Loop!Register
  <2>5. Fault("watchFail") => faults'["watchFail"] > 0
    BY <1>b, FaultTypes, FaultsAre DEF TypeInv, RestTypes
  <2>6. "pending" \in registered' \/ faults'["initFail"] + faults'["watchFail"] > 0
    BY <1>2, <1>b, <2>3, <2>4, <2>5 DEF RegisterPendingCall, Watch
  <2> QED
    BY <1>b, <1>c, <2>3, <2>6 DEF StartupInv
<1>3. CASE ~InitCall /\ ~RegisterPendingCall
  <2>1. \/ todo' = todo
        \/ /\ todo # <<>> /\ todo' = Tail(todo)
           /\ Head(todo) \notin {<<"init", "loop">>, <<"register", "pending">>}
    <3>1. ConfigureCall \/ RegisterBusCall \/ StartCall \/ RunCall =>
            /\ todo # <<>> /\ todo' = Tail(todo)
            /\ \/ Head(todo)[1] \in {"configure", "startSequence", "run"}
               \/ Head(todo)[2] = "bus"
      BY DEF ConfigureCall, RegisterBusCall, StartCall, RunCall, Calling
    <3>2. \/ Wait \/ Interrupted \/ Quit \/ SequencerEvent \/ BusEvent \/ Answer \/ BusFault
          \/ UNCHANGED vars
          => todo' = todo
      BY DEF vars, Wait, Interrupted, Quit, SequencerEvent, BusEvent, Answer, BusFault
    <3> QED
      BY <1>3, <3>1, <3>2 DEF Next, MainStep, LoopStep, Halted
  <2>2. \A c \in {<<"init", "loop">>, <<"register", "pending">>} :
           c \in Range(todo) => c \in Range(todo)'
    BY <1>a, <2>1, NextCall
  <2> QED
    BY <1>b, <1>c, <2>2 DEF StartupInv
<1> QED
  BY <1>1, <1>2, <1>3

-----------------------------------------------------------------------------
(* Wild accesses.                                                           *)

NullCrash ==
  /\ crashed
  /\ curSeq = NoSeq
  /\ "pending" \notin registered
  /\ faults["initFail"] + faults["watchFail"] > 0

CrashInv == SP!SafeDispatch \/ NullCrash

SafeInv == TypeInv /\ StartupInv /\ CrashInv

(* Nothing is wrong at first.                                               *)
LEMMA InitSafe == Init => SafeInv
  BY InitTypes, InitStartup, SameActions, SeqAssumption, SP!InitDispatch
     DEF Init, InitWith, SafeInv, CrashInv

(* At a call that starts a sequence, a missing m_pendingFD is a fault's.    *)
LEMMA NullWakeupFault ==
  TypeInv /\ StartupInv /\ NullWakeup => NullCrash'
<1> SUFFICES ASSUME TypeInv, StartupInv, NullWakeup PROVE NullCrash'
  OBVIOUS
<1>1. /\ todo # <<>> /\ todo' = Tail(todo) /\ Head(todo)[1] = "startSequence"
      /\ Stage["register"] = 3 /\ Stage["startSequence"] = 4 /\ CallsInv
  BY DEF NullWakeup, Calling, Stage, TypeInv
<1>2. <<"register", "pending">> \in Range(todo) =>
        <<"register", "pending">> = Head(todo) \/ Stage[Head(todo)[1]] <= Stage["register"]
  BY <1>1, NextCall
<1>3. <<"register", "pending">> \notin Range(todo)
  BY <1>1, <1>2
<1> QED
  BY <1>3 DEF StartupInv, NullWakeup, NullCrash, loopVars

(* Every action keeps wild accesses explained.                              *)
LEMMA NextSafe == SafeInv /\ [Next]_vars => SafeInv'
<1> SUFFICES ASSUME SafeInv, [Next]_vars PROVE CrashInv'
  BY NextTypes, NextStartup DEF SafeInv
<1>1. CASE crashed
  <2>1. UNCHANGED vars
    BY <1>1, CrashEnds
  <2> QED
    BY <2>1 DEF SafeInv, CrashInv, NullCrash, SP!SafeDispatch, SP!Running, vars, seqVars, loopVars
<1>2. CASE ~crashed /\ NullWakeup
  BY <1>2, NullWakeupFault DEF SafeInv, CrashInv
<1>3. CASE ~crashed /\ [SP!Next]_(SP!vars)
  <2>1. SP!TypeOK /\ SP!SafeDispatch
    BY <1>3 DEF SafeInv, TypeInv, CrashInv, NullCrash
  <2> QED
    BY <1>3, <2>1, SeqAssumption, SP!NextDispatch DEF CrashInv
<1> QED
  BY <1>1, <1>2, <1>3, CallsTyped, SequencerSteps DEF SafeInv, TypeInv

(* The invariant holds in every behaviour.                                  *)
LEMMA AlwaysSafe == Spec => []SafeInv
  BY InitSafe, NextSafe, PTL DEF Spec

(* A wild access has one of two causes: the garbage in m_curSeq, or an      *)
(* m_pendingFD that could not be created.                                   *)
THEOREM CrashesExplained == Spec => []CrashExplained
<1>1. SafeInv => CrashExplained
  <2> SUFFICES ASSUME SafeInv, crashed, curSeq # Wild PROVE NullCrash
    BY DEF CrashExplained, NullCrash
  <2>1. SP!Running => StepCount[curSeq] # 0
    BY AppAssumption DEF SP!Running
  <2> QED
    BY <2>1 DEF SafeInv, CrashInv, SP!SafeDispatch
<1> QED
  BY <1>1, AlwaysSafe, PTL
====
