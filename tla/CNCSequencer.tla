---------------------------- MODULE CNCSequencer ----------------------------
(***************************************************************************)
(* The command sequencer: class CNCSequencer (CNCMachine.cpp) with the     *)
(* CmdSequence, CmdStep and CmdSeqExecution objects it drives              *)
(* (CmdSequence.cpp).                                                      *)
(*                                                                         *)
(* The sequencer runs at most one sequence at a time.  Two callbacks of    *)
(* the event loop drive it: eventFD, one call for each unit in the         *)
(* "pending" eventfd, and processFrame, one call for each frame read from  *)
(* the CAN bus.  Nothing ties a wake-up to the reason it was written for,  *)
(* so the order of the two kinds of calls decides what a step does.        *)
(*                                                                         *)
(* The module is open: who starts sequences, when frames arrive, whether a *)
(* send succeeds and whether a step can parse a frame are the              *)
(* environment's choices.  UIM342App closes it with the event loop, the    *)
(* bus, the motor controller and the command line program.                 *)
(***************************************************************************)
EXTENDS Naturals, Sequences

CONSTANTS
  SeqIDs,        \* the sequences registered with addSequence
  StepCount,     \* StepCount[s]: m_stepList.size() of sequence s
  NoSeq,         \* the NULL of m_curSeq
  Wild,          \* a garbage m_curSeq: the constructor does not assign it
  ZeroedHeap,    \* TRUE if the memory the machine is created in was zero
  MaxStarts,     \* bound: successful startSequence calls
  MaxUnsolicited \* bound: frames dispatched while no answer is awaited

ASSUME SequencerAssumption ==
  /\ StepCount \in [SeqIDs -> Nat]
  /\ NoSeq \notin SeqIDs
  /\ Wild \notin SeqIDs \cup {NoSeq}
  /\ ZeroedHeap \in BOOLEAN
  /\ MaxStarts \in Nat
  /\ MaxUnsolicited \in Nat

VARIABLES
  curSeq,          \* m_curSeq
  curExec,         \* m_curSeqExec, a handle; 0 stands for NULL
  exec,            \* the fields of the execution object curExec points to
  activeSequences, \* m_activeSequences["s1"], a handle; 0 when absent
  live,            \* handles of execution objects allocated and not deleted
  allocs,          \* how many execution objects were ever allocated
  pending,         \* the value of the eventfd m_pendingFD
  crashed,         \* a wild pointer or index was dereferenced
  started,         \* history: steps whose startStep ran in this execution
  unsolicited,     \* history: frames dispatched when no step waited for one
  rejected,        \* history: frames parseResponse refused
  unearned         \* history: steps completed by a wake-up they did not earn

vars == <<curSeq, curExec, exec, activeSequences, live, allocs, pending,
          crashed, started, unsolicited, rejected, unearned>>

heapVars == <<curExec, activeSequences, live, allocs>>
histVars == <<unsolicited, rejected, unearned>>

-----------------------------------------------------------------------------
SeqStates  == {"NOTSET", "INIT", "EXECUTING", "FINISHED"}

\* PROCESSRSP and POST_PROCESS are only assigned by continueStep, which
\* nothing calls.
StepStates == {"NOTSET", "READY", "WAITRSP", "DONE", "ERROR"}

\* The fields of CmdSeqExecution that decide what happens next.
Executions == [seqState: SeqStates, stepActive: BOOLEAN,
               stepIndex: Nat, stepState: StepStates]

\* Constructor of CmdSeqExecution.
FreshExec == [seqState |-> "NOTSET", stepActive |-> FALSE,
              stepIndex |-> 0, stepState |-> "NOTSET"]

Running == curSeq \in SeqIDs

\* The states in which takeNextAction can do nothing until a frame arrives.
Blocked == exec.stepState \in {"WAITRSP", "ERROR"}

(* Operators named Wrong... are slips one could make in the definition that *)
(* follows them; no definition uses them.  With one of them in its place    *)
(* the properties must fail.                                                *)
WrongNextIndexAlwaysAdvances == exec.stepIndex + 1
WrongNextIndexGoesBack == IF exec.stepActive THEN exec.stepIndex ELSE exec.stepIndex - 1

\* Index of the step the next takeNextAction works on.
NextIndex == IF exec.stepActive THEN exec.stepIndex ELSE exec.stepIndex + 1

WrongPastEndOneLate == NextIndex > StepCount[curSeq]
WrongPastEndOneEarly == NextIndex + 1 >= StepCount[curSeq]

\* The end of m_stepList is reached.
PastEnd == NextIndex >= StepCount[curSeq]

\* readyStep and, in CmdSequence::takeNextAction, activateStep.
Readied(e) == [e EXCEPT !.stepState = "READY", !.stepActive = TRUE]

ClearedStep(e) == [e EXCEPT !.stepState = "NOTSET", !.stepActive = FALSE]

TypeOK ==
  /\ curSeq \in SeqIDs \cup {NoSeq, Wild}
  /\ curExec \in Nat
  /\ exec \in Executions
  /\ activeSequences \in Nat
  /\ live \subseteq Nat
  /\ allocs \in Nat
  /\ pending \in Nat
  /\ crashed \in BOOLEAN
  /\ started \in Seq(Nat)
  /\ unsolicited \in Nat
  /\ rejected \in Nat
  /\ unearned \in Nat

Init ==
  /\ curSeq \in IF ZeroedHeap THEN {NoSeq} ELSE {NoSeq, Wild}
  /\ curExec = 0
  /\ exec = FreshExec
  /\ activeSequences = 0
  /\ live = {}
  /\ allocs = 0
  /\ pending = 0
  /\ crashed = FALSE
  /\ started = <<>>
  /\ unsolicited = 0
  /\ rejected = 0
  /\ unearned = 0

-----------------------------------------------------------------------------
(* What the callbacks do to the eventfd.  The event loop has read one unit  *)
(* when it calls eventFD.                                                   *)

WrongRescheduleForgotten == pending' = pending - 1

\* CS_ACTION_RESCHEDULE and CS_ACTION_SEQ_RUN: the unit read is written back.
Reschedule == pending' = pending

WrongNoRescheduleKeepsUnit == pending' = pending

\* Every other way out of eventFD.
NoReschedule == pending' = pending - 1

WrongReadyToScheduleForgotten == pending' = pending

\* SEQEVReadyToSchedule.
ReadyToSchedule == pending' = pending + 1

WrongFreeExecutionKeepsEntry == live' = live \ {activeSequences} /\ UNCHANGED activeSequences

\* freeExecution("s1").
FreeExecution == live' = live \ {activeSequences} /\ activeSequences' = 0

-----------------------------------------------------------------------------
(* CNCSequencer::startSequence, called while no sequence is current.  Every *)
(* execution gets the id "s1", and map::insert keeps an entry that is       *)
(* already there.  A call with m_curSeq set, or for an unknown sequence,    *)
(* is refused and changes nothing.                                          *)
StartSequence(s) ==
  /\ ~crashed
  /\ curSeq = NoSeq
  /\ allocs < MaxStarts
  /\ curSeq' = s
  /\ allocs' = allocs + 1
  /\ curExec' = allocs'
  /\ live' = live \cup {allocs'}
  /\ activeSequences' = IF activeSequences = 0 THEN allocs' ELSE activeSequences
  /\ exec' = [FreshExec EXCEPT !.seqState = "INIT"]
  /\ pending' = pending + 1
  /\ started' = <<>>
  /\ UNCHANGED <<crashed, unsolicited, rejected, unearned>>

(* A wake-up that finds no sequence: eventFD does nothing with it.          *)
IdleEvent ==
  /\ ~crashed
  /\ pending > 0
  /\ curSeq = NoSeq
  /\ NoReschedule
  /\ UNCHANGED <<curSeq, exec, crashed, started>>
  /\ UNCHANGED heapVars
  /\ UNCHANGED histVars

(* takeNextAction, CS_STATE_INIT with a non-empty list: CS_ACTION_SEQ_RUN.  *)
(* The wake-up read by the event loop is replaced by a new one.             *)
InitEvent ==
  /\ ~crashed
  /\ pending > 0
  /\ Running
  /\ exec.seqState = "INIT"
  /\ StepCount[curSeq] > 0
  /\ exec' = Readied([exec EXCEPT !.seqState = "EXECUTING", !.stepIndex = 0])
  /\ Reschedule
  /\ UNCHANGED <<curSeq, crashed, started>>
  /\ UNCHANGED heapVars
  /\ UNCHANGED histVars

(* takeNextAction returns CS_ACTION_DONE, on an empty list or after the     *)
(* last step; finishCurrentSequence forgets the execution and its callback  *)
(* CNCSCSequenceComplete has freeExecution delete the one stored as "s1".   *)
FinishEvent ==
  /\ ~crashed
  /\ pending > 0
  /\ Running
  /\ \/ exec.seqState = "INIT" /\ StepCount[curSeq] = 0
     \/ /\ exec.seqState = "EXECUTING"
        /\ ~exec.stepActive
        /\ PastEnd
  /\ curSeq' = NoSeq
  /\ curExec' = 0
  /\ exec' = FreshExec
  /\ FreeExecution
  /\ NoReschedule
  /\ UNCHANGED <<allocs, crashed, started>>
  /\ UNCHANGED histVars

(* takeNextAction, CS_STATE_EXECUTING: the active step is READY, or there   *)
(* is none and the next one is readied; CmdStepExecuteCANRR::startStep      *)
(* runs.  sent is FALSE when the device lookup, formatRequest or sendFrame  *)
(* fails: takeNextAction then returns CS_RESULT_FAILURE and eventFD returns *)
(* without finishing the sequence or scheduling another call.               *)
RunStepEvent(sent) ==
  /\ ~crashed
  /\ pending > 0
  /\ Running
  /\ exec.seqState = "EXECUTING"
  /\ exec.stepActive => exec.stepState = "READY"
  /\ ~PastEnd
  /\ exec' = [Readied(exec) EXCEPT !.stepIndex = NextIndex,
                                   !.stepState = IF sent THEN "WAITRSP" ELSE "ERROR"]
  /\ started' = Append(started, NextIndex)
  /\ NoReschedule
  /\ UNCHANGED <<curSeq, crashed>>
  /\ UNCHANGED heapVars
  /\ UNCHANGED histVars

(* takeNextAction on an active step in any other state: CmdStep answers     *)
(* CS_STEPACTION_DONE whatever the state, even when the step still waits    *)
(* for its response or has failed.  The step is cleared and rescheduled.    *)
StepDoneEvent ==
  /\ ~crashed
  /\ pending > 0
  /\ Running
  /\ exec.seqState = "EXECUTING"
  /\ exec.stepActive
  /\ exec.stepState # "READY"
  /\ exec' = ClearedStep(exec)
  /\ unearned' = IF Blocked THEN unearned + 1 ELSE unearned
  /\ Reschedule
  /\ UNCHANGED <<curSeq, crashed, started, unsolicited, rejected>>
  /\ UNCHANGED heapVars

(* processFrame with a sequence current: the step at the current index gets *)
(* the frame in whatever state it is, and the sequencer is always woken.    *)
(* parsed is what parseResponse, a virtual function, makes of the frame.    *)
ProcessFrame(parsed) ==
  /\ ~crashed
  /\ Running
  /\ exec.stepIndex < StepCount[curSeq]
  /\ exec.stepState # "WAITRSP" => unsolicited < MaxUnsolicited
  /\ exec' = [exec EXCEPT !.stepState = IF parsed THEN "DONE" ELSE "ERROR"]
  /\ ReadyToSchedule
  /\ unsolicited' = IF exec.stepState = "WAITRSP" THEN unsolicited ELSE unsolicited + 1
  /\ rejected' = IF parsed THEN rejected ELSE rejected + 1
  /\ UNCHANGED <<curSeq, crashed, started, unearned>>
  /\ UNCHANGED heapVars

(* processFrame through a garbage m_curSeq, or for a step the list does not *)
(* have: undefined behaviour, of which the crash is the outcome kept.       *)
WildFrame ==
  /\ ~crashed
  /\ \/ curSeq = Wild
     \/ Running /\ exec.stepIndex >= StepCount[curSeq]
  /\ crashed' = TRUE
  /\ UNCHANGED <<curSeq, exec, pending, started>>
  /\ UNCHANGED heapVars
  /\ UNCHANGED histVars

-----------------------------------------------------------------------------
\* One call of eventFD for the pending fd, after the loop read one unit.
PendingEvent ==
  \/ IdleEvent
  \/ InitEvent
  \/ FinishEvent
  \/ \E sent \in BOOLEAN : RunStepEvent(sent)
  \/ StepDoneEvent

Next ==
  \/ \E s \in SeqIDs : StartSequence(s)
  \/ PendingEvent
  \/ \E parsed \in BOOLEAN : ProcessFrame(parsed)
  \/ WildFrame

Spec == Init /\ [][Next]_vars

\* The answer a waiting step was sent for, in a form the step accepts.
Answer == exec.stepState = "WAITRSP" /\ ProcessFrame(TRUE)

(* eventFD is called as long as the eventfd is not zero (level-triggered    *)
(* epoll), and the controller answers a request that reached it.            *)
FairSpec == Spec /\ WF_vars(PendingEvent) /\ WF_vars(Answer)

-----------------------------------------------------------------------------
(* Properties.                                                              *)

\* 1 when a running sequence depends on a wake-up to make its next step.
Need == IF Running /\ ~Blocked THEN 1 ELSE 0

(* A running sequence whose step neither waits for a frame nor failed has a *)
(* wake-up in the eventfd: eventFD's return paths never drop the last one.  *)
NoLostWakeup == Need <= pending

(* Every step that completes while it still waits for its answer, or after  *)
(* it failed, is paid for by a frame: surplus wake-ups come from frames     *)
(* dispatched when no step waited and from frames a step refused, one each. *)
(* They survive the end of a sequence and hit the next one, so the count is *)
(* over the sequencer's lifetime.                                           *)
UnearnedBounded == unearned <= unsolicited + rejected

(* The whole account: wake-ups available beyond the one needed, plus those  *)
(* already spent on steps that had not earned them.                         *)
WakeupAccount == unearned + pending <= unsolicited + rejected + Need

(* The step the sequencer hands a frame to exists: only a garbage m_curSeq  *)
(* or a frame that beats the first wake-up of an empty sequence goes wrong. *)
SafeDispatch ==
  /\ Running => exec.stepIndex = 0 \/ exec.stepIndex < StepCount[curSeq]
  /\ crashed => curSeq = Wild \/ (Running /\ StepCount[curSeq] = 0)

(* The execution in use is allocated, is the one freeExecution would find   *)
(* under "s1", and is the only one: no leak and no dangling pointer,        *)
(* although every execution has the same id.                                *)
ExecutionOwnership ==
  IF Running
    THEN curExec # 0 /\ activeSequences = curExec /\ live = {curExec}
    ELSE activeSequences = 0 /\ live = {}

(* startStep runs for consecutive steps, each once; only a frame that was   *)
(* not an answer can make the first step be passed over.                    *)
StartedInOrder ==
  LET first == IF started # <<>> THEN started[1] ELSE 0
  IN  /\ \A i \in DOMAIN started : started[i] = first + i - 1
      /\ first # 0 => first = 1 /\ unsolicited > 0

(* Where an execution stands, as a relation between its index and the steps *)
(* started: the inductive form of StartedInOrder.                           *)
StepOrder ==
  Running =>
    \/ /\ exec.seqState = "INIT"
       /\ started = <<>>
       /\ exec.stepIndex = 0
       /\ ~exec.stepActive
    \/ /\ exec.seqState = "EXECUTING"
       /\ started = <<>>
       /\ exec.stepIndex = 0
       /\ ~(exec.stepActive /\ exec.stepState = "READY") => unsolicited > 0
       /\ StepCount[curSeq] > 0
    \/ /\ exec.seqState = "EXECUTING"
       /\ started # <<>>
       /\ exec.stepIndex = started[1] + Len(started) - 1
       /\ exec.stepActive => exec.stepState # "READY"
       /\ exec.stepIndex < StepCount[curSeq]

(* When a sequence is declared complete, startStep has run for every step;  *)
(* with unsolicited frames, for every step but the first.                   *)
Completion ==
  (Running /\ curSeq' = NoSeq) =>
    \/ Len(started) = StepCount[curSeq]
    \/ Len(started) + 1 = StepCount[curSeq] /\ unsolicited > 0

CompleteOnFinish == [][Completion]_vars

(* A sequence that can move does so until a step waits, a step fails, it    *)
(* finishes or the process is gone.                                         *)
Scheduled ==
  (Running /\ ~Blocked) ~> (~Running \/ Blocked \/ crashed)

(* If every awaited answer comes, a sequence ends unless a step failed to   *)
(* send its request.                                                        *)
FinishesUnlessError ==
  Running ~> (~Running \/ exec.stepState = "ERROR" \/ crashed)
=============================================================================
