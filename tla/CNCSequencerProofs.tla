------------------------- MODULE CNCSequencerProofs -------------------------
(***************************************************************************)
(* Theorems about CNCSequencer, for every set of sequences, every number   *)
(* of steps and every bound.                                               *)
(*                                                                         *)
(* The safety invariants are proved one after the other, each on top of    *)
(* the ones before it.  Every preservation proof has one step per action   *)
(* of Next, and one for stuttering.                                        *)
(***************************************************************************)
EXTENDS CNCSequencer, TLAPS

-----------------------------------------------------------------------------
(* Type correctness: every variable keeps its type.                         *)

(* The execution startSequence and finishCurrentSequence leave behind.      *)
LEMMA FreshExecution ==
  /\ FreshExec \in Executions
  /\ [FreshExec EXCEPT !.seqState = "INIT"] \in Executions
  BY DEF FreshExec, Executions, SeqStates, StepStates

(* What the record updates of the actions leave of an execution.            *)
LEMMA ExecutionUpdates ==
  ASSUME NEW e \in Executions, NEW i \in Nat, NEW st \in StepStates
  PROVE  /\ Readied([e EXCEPT !.seqState = "EXECUTING", !.stepIndex = i]) \in Executions
         /\ [Readied(e) EXCEPT !.stepIndex = i, !.stepState = st] \in Executions
         /\ ClearedStep(e) \in Executions
         /\ [e EXCEPT !.stepState = st] \in Executions
<1> USE DEF Executions, SeqStates, StepStates
<1>1. Readied(e) \in Executions
  BY DEF Readied
<1>2. Readied([e EXCEPT !.seqState = "EXECUTING", !.stepIndex = i]) \in Executions
  BY DEF Readied
<1>3. [Readied(e) EXCEPT !.stepIndex = i, !.stepState = st] \in Executions
  BY <1>1
<1>4. ClearedStep(e) \in Executions /\ [e EXCEPT !.stepState = st] \in Executions
  BY DEF ClearedStep
<1> QED
  BY <1>2, <1>3, <1>4

(* The initial values have their types.                                     *)
LEMMA InitTypeOK == Init => TypeOK
<1> SUFFICES ASSUME Init PROVE TypeOK
  OBVIOUS
<1>1. <<>> \in Seq(Nat)
  OBVIOUS
<1> QED
  BY <1>1, FreshExecution, SequencerAssumption DEF Init, TypeOK

(* The next index is a natural number.                                      *)
LEMMA NextIndexNat == TypeOK => NextIndex \in Nat
  BY DEF TypeOK, NextIndex, Executions

(* A step that is run is in the list.                                       *)
LEMMA RunStepInList ==
  ASSUME TypeOK, NEW sent \in BOOLEAN, RunStepEvent(sent)
  PROVE  NextIndex < StepCount[curSeq]
<1>1. NextIndex \in Nat /\ StepCount[curSeq] \in Nat
  BY NextIndexNat, SequencerAssumption DEF RunStepEvent, Running
<1> QED
  BY <1>1 DEF RunStepEvent, PastEnd

(* Every action keeps the types.                                            *)
LEMMA NextTypeOK == TypeOK /\ [Next]_vars => TypeOK'
<1> SUFFICES ASSUME TypeOK, [Next]_vars PROVE TypeOK'
  OBVIOUS
<1> USE DEF TypeOK, heapVars, histVars, Reschedule, NoReschedule, ReadyToSchedule, FreeExecution
<1>0. exec \in Executions /\ 0 \in Nat /\ {"NOTSET", "WAITRSP", "DONE", "ERROR"} \subseteq StepStates
  BY DEF StepStates
<1>1. ASSUME NEW s \in SeqIDs, StartSequence(s) PROVE TypeOK'
  <2>1. <<>> \in Seq(Nat)
    OBVIOUS
  <2> QED
    BY <1>1, <2>1, FreshExecution DEF StartSequence
<1>2. CASE IdleEvent
  BY <1>2 DEF IdleEvent
<1>3. CASE InitEvent
  BY <1>3, <1>0, ExecutionUpdates DEF InitEvent
<1>4. CASE FinishEvent
  BY <1>4, FreshExecution DEF FinishEvent
<1>5. ASSUME NEW sent \in BOOLEAN, RunStepEvent(sent) PROVE TypeOK'
  <2>1. NextIndex \in Nat
    BY NextIndexNat
  <2>2. (IF sent THEN "WAITRSP" ELSE "ERROR") \in StepStates
    BY DEF StepStates
  <2>3. exec' \in Executions
    BY <1>5, <2>1, <2>2, ExecutionUpdates DEF RunStepEvent
  <2>4. started' \in Seq(Nat)
    BY <1>5, <2>1 DEF RunStepEvent
  <2> QED
    BY <1>5, <2>3, <2>4 DEF RunStepEvent
<1>6. CASE StepDoneEvent
  <2>1. exec' \in Executions
    BY <1>6, <1>0, ExecutionUpdates DEF StepDoneEvent
  <2>2. unearned' \in Nat
    BY <1>6 DEF StepDoneEvent, Blocked
  <2> QED
    BY <1>6, <2>1, <2>2 DEF StepDoneEvent
<1>7. ASSUME NEW parsed \in BOOLEAN, ProcessFrame(parsed) PROVE TypeOK'
  <2>1. (IF parsed THEN "DONE" ELSE "ERROR") \in StepStates
    BY DEF StepStates
  <2>2. exec' \in Executions
    BY <1>7, <2>1, ExecutionUpdates DEF ProcessFrame
  <2> QED
    BY <1>7, <2>2, SMTT(30) DEF ProcessFrame
<1>8. CASE WildFrame
  BY <1>8 DEF WildFrame
<1>9. CASE UNCHANGED vars
  BY <1>9 DEF vars
<1> QED
  BY <1>1, <1>2, <1>3, <1>4, <1>5, <1>6, <1>7, <1>8, <1>9 DEF Next, PendingEvent

(* In every reachable state each variable has its type.                     *)
THEOREM TypeCorrect == Spec => []TypeOK
<1>1. Init => TypeOK
  BY InitTypeOK
<1>2. TypeOK /\ [Next]_vars => TypeOK'
  BY NextTypeOK
<1> QED
  BY <1>1, <1>2, PTL DEF Spec

-----------------------------------------------------------------------------
(* Wake-ups.  NoLostWakeup and WakeupAccount bound the eventfd from below   *)
(* and from above by what the running sequence needs, and are inductive     *)
(* together.                                                                *)

WakeupInv == TypeOK /\ NoLostWakeup /\ WakeupAccount

(* The wake-up bounds hold initially: nothing runs and nothing is pending.  *)
LEMMA InitWakeup == Init => WakeupInv
<1> SUFFICES ASSUME Init PROVE NoLostWakeup /\ WakeupAccount
  BY InitTypeOK DEF WakeupInv
<1>1. Need = 0
  BY SequencerAssumption DEF Init, Need, Running
<1> QED
  BY <1>1 DEF Init, NoLostWakeup, WakeupAccount

(* Every action that uses a wake-up either stops needing one or keeps it.   *)
LEMMA NextWakeup == WakeupInv /\ [Next]_vars => WakeupInv'
<1> SUFFICES ASSUME WakeupInv, [Next]_vars PROVE (NoLostWakeup /\ WakeupAccount)'
  BY NextTypeOK DEF WakeupInv
<1> USE DEF WakeupInv, NoLostWakeup, WakeupAccount, Need, Running, Blocked, heapVars, histVars,
           Reschedule, NoReschedule, ReadyToSchedule
<1>a. /\ pending \in Nat /\ unearned \in Nat /\ unsolicited \in Nat /\ rejected \in Nat
      /\ exec \in [seqState: SeqStates, stepActive: BOOLEAN,
                   stepIndex: Nat, stepState: StepStates]
  BY DEF TypeOK, Executions
<1>1. ASSUME NEW s \in SeqIDs, StartSequence(s) PROVE (NoLostWakeup /\ WakeupAccount)'
  BY <1>1, <1>a, SequencerAssumption DEF StartSequence, FreshExec
<1>2. CASE IdleEvent
  BY <1>2, <1>a, SequencerAssumption DEF IdleEvent
<1>3. CASE InitEvent
  <2>1. exec'.stepState = "READY"
    BY <1>3, <1>a DEF InitEvent, Readied
  <2> QED
    BY <1>3, <1>a, <2>1 DEF InitEvent
<1>4. CASE FinishEvent
  BY <1>4, <1>a, SequencerAssumption DEF FinishEvent
<1>5. ASSUME NEW sent \in BOOLEAN, RunStepEvent(sent)
      PROVE (NoLostWakeup /\ WakeupAccount)'
  <2>1. exec'.stepState \in {"WAITRSP", "ERROR"}
    BY <1>5, <1>a DEF RunStepEvent, Readied
  <2>2. exec.stepState \notin {"WAITRSP", "ERROR"} \/ ~exec.stepActive
    BY <1>5 DEF RunStepEvent
  <2> QED
    BY <1>5, <1>a, <2>1, <2>2 DEF RunStepEvent
<1>6. CASE StepDoneEvent
  <2>1. exec'.stepState = "NOTSET"
    BY <1>6, <1>a DEF StepDoneEvent, ClearedStep
  <2> QED
    BY <1>6, <1>a, <2>1 DEF StepDoneEvent
<1>7. ASSUME NEW parsed \in BOOLEAN, ProcessFrame(parsed)
      PROVE (NoLostWakeup /\ WakeupAccount)'
  <2>1. exec'.stepState = IF parsed THEN "DONE" ELSE "ERROR"
    BY <1>7, <1>a DEF ProcessFrame
  <2> QED
    BY <1>7, <1>a, <2>1 DEF ProcessFrame
<1>8. CASE WildFrame
  BY <1>8 DEF WildFrame
<1>9. CASE UNCHANGED vars
  BY <1>9 DEF vars
<1> QED
  BY <1>1, <1>2, <1>3, <1>4, <1>5, <1>6, <1>7, <1>8, <1>9 DEF Next, PendingEvent

(* A running sequence that depends on a wake-up always has one.             *)
THEOREM WakeupNeverLost == Spec => []NoLostWakeup
<1>1. Init => WakeupInv
  BY InitWakeup
<1>2. WakeupInv /\ [Next]_vars => WakeupInv'
  BY NextWakeup
<1>3. WakeupInv => NoLostWakeup
  BY DEF WakeupInv
<1> QED
  BY <1>1, <1>2, <1>3, PTL DEF Spec

(* The account at its weakest: spent and spare wake-ups have been paid for. *)
LEMMA AccountBoundsUnearned == WakeupInv => UnearnedBounded
<1> SUFFICES ASSUME WakeupInv PROVE UnearnedBounded
  OBVIOUS
<1>1. /\ pending \in Nat /\ unearned \in Nat /\ unsolicited \in Nat /\ rejected \in Nat
      /\ Need \in {0, 1}
  BY DEF WakeupInv, TypeOK, Need
<1>2. Need <= pending /\ unearned + pending <= unsolicited + rejected + Need
  BY DEF WakeupInv, NoLostWakeup, WakeupAccount
<1> QED
  BY <1>1, <1>2 DEF UnearnedBounded

(* Steps that complete without their answer never outnumber the frames that *)
(* answered nothing or were refused.                                        *)
THEOREM UnearnedStepsBounded == Spec => []UnearnedBounded
<1>1. Init => WakeupInv
  BY InitWakeup
<1>2. WakeupInv /\ [Next]_vars => WakeupInv'
  BY NextWakeup
<1> QED
  BY <1>1, <1>2, AccountBoundsUnearned, PTL DEF Spec

-----------------------------------------------------------------------------
(* Dispatch and ownership.                                                  *)

(* Nothing runs and nothing has crashed at first.                           *)
LEMMA InitDispatch == Init => SafeDispatch
  BY SequencerAssumption DEF Init, SafeDispatch, Running

(* The index stays in the list while a sequence runs.                       *)
LEMMA NextDispatch == TypeOK /\ SafeDispatch /\ [Next]_vars => SafeDispatch'
<1> SUFFICES ASSUME TypeOK, SafeDispatch, [Next]_vars PROVE SafeDispatch'
  OBVIOUS
<1> USE DEF SafeDispatch, Running, PastEnd, FreeExecution, heapVars, histVars
<1>a. exec \in Executions
  BY DEF TypeOK
<1>1. ASSUME NEW s \in SeqIDs, StartSequence(s) PROVE SafeDispatch'
  BY <1>1 DEF StartSequence, FreshExec
<1>2. CASE IdleEvent
  BY <1>2, SequencerAssumption DEF IdleEvent
<1>3. CASE InitEvent
  <2>1. exec'.stepIndex = 0
    BY <1>3, <1>a DEF InitEvent, Readied, Executions
  <2> QED
    BY <1>3, <2>1 DEF InitEvent
<1>4. CASE FinishEvent
  BY <1>4, SequencerAssumption DEF FinishEvent
<1>5. ASSUME NEW sent \in BOOLEAN, RunStepEvent(sent) PROVE SafeDispatch'
  <2>1. exec'.stepIndex = NextIndex
    BY <1>5, <1>a DEF RunStepEvent, Readied, Executions
  <2>2. NextIndex < StepCount[curSeq]
    BY <1>5, RunStepInList
  <2> QED
    BY <1>5, <2>1, <2>2 DEF RunStepEvent
<1>6. CASE StepDoneEvent
  <2>1. exec'.stepIndex = exec.stepIndex
    BY <1>6, <1>a DEF StepDoneEvent, ClearedStep, Executions
  <2> QED
    BY <1>6, <2>1 DEF StepDoneEvent
<1>7. ASSUME NEW parsed \in BOOLEAN, ProcessFrame(parsed) PROVE SafeDispatch'
  <2>1. exec'.stepIndex = exec.stepIndex
    BY <1>7, <1>a DEF ProcessFrame, Executions
  <2> QED
    BY <1>7, <2>1 DEF ProcessFrame
<1>8. CASE WildFrame
  <2>1. curSeq = Wild \/ (Running /\ StepCount[curSeq] = 0)
    <3>1. CASE Running /\ exec.stepIndex >= StepCount[curSeq]
      <4>1. StepCount[curSeq] \in Nat /\ exec.stepIndex \in Nat
        BY <1>a, <3>1, SequencerAssumption DEF Executions
      <4> QED
        BY <3>1, <4>1
    <3> QED
      BY <1>8, <3>1 DEF WildFrame
  <2> QED
    BY <1>8, <2>1 DEF WildFrame
<1>9. CASE UNCHANGED vars
  BY <1>9 DEF vars
<1> QED
  BY <1>1, <1>2, <1>3, <1>4, <1>5, <1>6, <1>7, <1>8, <1>9 DEF Next, PendingEvent

(* Frames only reach steps that exist, but for a garbage m_curSeq and for   *)
(* an empty sequence.                                                       *)
THEOREM DispatchIsSafe == Spec => []SafeDispatch
<1>1. Init => TypeOK /\ SafeDispatch
  BY InitTypeOK, InitDispatch
<1>2. TypeOK /\ SafeDispatch /\ [Next]_vars => (TypeOK /\ SafeDispatch)'
  BY NextTypeOK, NextDispatch
<1> QED
  BY <1>1, <1>2, PTL DEF Spec

(* There is no execution at first.                                          *)
LEMMA InitOwnership == Init => ExecutionOwnership
  BY SequencerAssumption DEF Init, ExecutionOwnership, Running

(* The execution made by a start is the one its finish deletes.             *)
LEMMA NextOwnership == TypeOK /\ ExecutionOwnership /\ [Next]_vars => ExecutionOwnership'
<1> SUFFICES ASSUME TypeOK, ExecutionOwnership, [Next]_vars PROVE ExecutionOwnership'
  OBVIOUS
<1> USE DEF ExecutionOwnership, Running, FreeExecution, heapVars, histVars
<1>1. ASSUME NEW s \in SeqIDs, StartSequence(s) PROVE ExecutionOwnership'
  <2>1. ~Running
    BY <1>1, SequencerAssumption DEF StartSequence
  <2>2. allocs + 1 # 0
    BY DEF TypeOK
  <2> QED
    BY <1>1, <2>1, <2>2 DEF StartSequence
<1>2. CASE IdleEvent
  BY <1>2 DEF IdleEvent
<1>3. CASE InitEvent
  BY <1>3 DEF InitEvent
<1>4. CASE FinishEvent
  BY <1>4, SequencerAssumption DEF FinishEvent
<1>5. ASSUME NEW sent \in BOOLEAN, RunStepEvent(sent) PROVE ExecutionOwnership'
  BY <1>5 DEF RunStepEvent
<1>6. CASE StepDoneEvent
  BY <1>6 DEF StepDoneEvent
<1>7. ASSUME NEW parsed \in BOOLEAN, ProcessFrame(parsed) PROVE ExecutionOwnership'
  BY <1>7 DEF ProcessFrame
<1>8. CASE WildFrame
  BY <1>8 DEF WildFrame
<1>9. CASE UNCHANGED vars
  BY <1>9 DEF vars
<1> QED
  BY <1>1, <1>2, <1>3, <1>4, <1>5, <1>6, <1>7, <1>8, <1>9 DEF Next, PendingEvent

(* One execution object per running sequence, found again by its id, and    *)
(* none otherwise.                                                          *)
THEOREM ExecutionsOwned == Spec => []ExecutionOwnership
<1>1. Init => TypeOK /\ ExecutionOwnership
  BY InitTypeOK, InitOwnership
<1>2. TypeOK /\ ExecutionOwnership /\ [Next]_vars => (TypeOK /\ ExecutionOwnership)'
  BY NextTypeOK, NextOwnership
<1> QED
  BY <1>1, <1>2, PTL DEF Spec

-----------------------------------------------------------------------------
(* The order in which steps are started.  StartedInOrder looks at the       *)
(* history alone; StepOrder ties the history to the execution's index.      *)

OrderInv == TypeOK /\ StartedInOrder /\ StepOrder

(* Appending the next index to a run of consecutive indices.                *)
LEMMA AppendConsecutive ==
  ASSUME NEW q \in Seq(Nat), q # <<>>,
         \A i \in DOMAIN q : q[i] = q[1] + i - 1
  PROVE  LET r == Append(q, q[1] + Len(q))
         IN  r[1] = q[1] /\ \A i \in DOMAIN r : r[i] = q[1] + i - 1
<1> DEFINE r == Append(q, q[1] + Len(q))
<1>1. Len(q) \in Nat \ {0} /\ DOMAIN q = 1..Len(q)
  OBVIOUS
<1>2. Len(r) = Len(q) + 1 /\ DOMAIN r = 1..(Len(q) + 1)
  BY <1>1
<1>3. \A i \in 1..Len(q) : r[i] = q[i]
  BY <1>1
<1>4. r[Len(q) + 1] = q[1] + Len(q)
  BY <1>1
<1>5. q[1] \in Nat
  BY <1>1
<1> QED
  BY <1>1, <1>2, <1>3, <1>4, <1>5

(* No step is started at first.                                             *)
LEMMA InitOrder == Init => OrderInv
<1> SUFFICES ASSUME Init PROVE StartedInOrder /\ StepOrder
  BY InitTypeOK DEF OrderInv
<1>1. started = <<>> /\ ~Running
  BY SequencerAssumption DEF Init, Running
<1> QED
  BY <1>1 DEF StartedInOrder, StepOrder

(* startStep: the history grows by the next index.                          *)
LEMMA RunStepOrder ==
  ASSUME OrderInv, NEW sent \in BOOLEAN, RunStepEvent(sent)
  PROVE  StartedInOrder' /\ StepOrder'
<1>1. /\ started \in Seq(Nat) /\ exec \in Executions /\ unsolicited \in Nat
      /\ Running /\ exec.seqState = "EXECUTING"
  BY DEF OrderInv, TypeOK, RunStepEvent
<1>2. /\ exec'.seqState = "EXECUTING"
      /\ exec'.stepIndex = NextIndex
      /\ exec'.stepState # "READY"
      /\ started' = Append(started, NextIndex)
      /\ NextIndex < StepCount[curSeq]
      /\ UNCHANGED <<curSeq, unsolicited>>
  BY <1>1, RunStepInList DEF OrderInv, RunStepEvent, Readied, Executions, histVars
<1>3. CASE started = <<>>
  <2>1. /\ NextIndex \in {0, 1}
        /\ NextIndex = 1 => unsolicited > 0
    BY <1>1, <1>3 DEF OrderInv, StepOrder, NextIndex, RunStepEvent
  <2>2. started' = <<NextIndex>>
    BY <1>2, <1>3
  <2>3. Len(started') = 1 /\ DOMAIN started' = {1} /\ started'[1] = NextIndex
    BY <2>2
  <2>4. StartedInOrder'
    BY <1>2, <2>1, <2>2, <2>3 DEF StartedInOrder
  <2>5. StepOrder'
    BY <1>1, <1>2, <2>1, <2>2, <2>3 DEF StepOrder, Running
  <2> QED
    BY <2>4, <2>5
<1>4. CASE started # <<>>
  <2>1. /\ ~exec.stepActive
        /\ exec.stepIndex = started[1] + Len(started) - 1
    BY <1>1, <1>4 DEF OrderInv, StepOrder, RunStepEvent
  <2>2. /\ \A i \in DOMAIN started : started[i] = started[1] + i - 1
        /\ started[1] # 0 => started[1] = 1 /\ unsolicited > 0
    BY <1>4 DEF OrderInv, StartedInOrder
  <2>3. Len(started) \in Nat /\ started[1] \in Nat
    BY <1>1, <1>4
  <2>4. NextIndex = started[1] + Len(started)
    BY <2>1, <2>3 DEF NextIndex
  <2>5. /\ started'[1] = started[1]
        /\ \A i \in DOMAIN started' : started'[i] = started[1] + i - 1
    BY <1>1, <1>2, <1>4, <2>2, <2>4, AppendConsecutive
  <2>6. started' # <<>> /\ Len(started') = Len(started) + 1
    BY <1>1, <1>2, <2>3, <2>4
  <2>7. StartedInOrder'
    BY <1>2, <2>2, <2>5, <2>6 DEF StartedInOrder
  <2>8. exec'.stepIndex = started'[1] + Len(started') - 1
    BY <1>2, <2>3, <2>4, <2>5, <2>6
  <2>9. StepOrder'
    BY <1>1, <1>2, <2>6, <2>8 DEF StepOrder, Running
  <2> QED
    BY <2>7, <2>9
<1> QED
  BY <1>3, <1>4

(* The history of the steps stays in order, action by action.               *)
LEMMA NextOrder == OrderInv /\ [Next]_vars => OrderInv'
<1> SUFFICES ASSUME OrderInv, [Next]_vars PROVE (StartedInOrder /\ StepOrder)'
  BY NextTypeOK DEF OrderInv
<1> USE DEF heapVars, histVars
<1>a. exec \in Executions /\ unsolicited \in Nat /\ started \in Seq(Nat)
  BY DEF OrderInv, TypeOK
<1>b. StartedInOrder /\ StepOrder
  BY DEF OrderInv
<1>c. ASSUME UNCHANGED started, unsolicited' \in {unsolicited, unsolicited + 1}
      PROVE  StartedInOrder'
  BY <1>a, <1>b, <1>c DEF StartedInOrder
<1>1. ASSUME NEW s \in SeqIDs, StartSequence(s) PROVE (StartedInOrder /\ StepOrder)'
  <2>1. started' = <<>> /\ exec'.seqState = "INIT" /\ exec'.stepIndex = 0 /\ ~exec'.stepActive
    BY <1>1 DEF StartSequence, FreshExec
  <2> QED
    BY <2>1 DEF StartedInOrder, StepOrder
<1>2. CASE IdleEvent
  <2>1. ~Running'
    BY <1>2, SequencerAssumption DEF IdleEvent, Running
  <2> QED
    BY <1>2, <1>c, <2>1 DEF IdleEvent, StepOrder
<1>3. CASE InitEvent
  <2>1. /\ exec'.seqState = "EXECUTING" /\ exec'.stepIndex = 0
        /\ exec'.stepActive /\ exec'.stepState = "READY"
    BY <1>3, <1>a DEF InitEvent, Readied, Executions
  <2>2. started = <<>>
    BY <1>3, <1>b DEF InitEvent, StepOrder
  <2> QED
    BY <1>3, <1>c, <2>1, <2>2 DEF InitEvent, StepOrder
<1>4. CASE FinishEvent
  <2>1. ~Running'
    BY <1>4, SequencerAssumption DEF FinishEvent, Running
  <2> QED
    BY <1>4, <1>c, <2>1 DEF FinishEvent, StepOrder
<1>5. ASSUME NEW sent \in BOOLEAN, RunStepEvent(sent) PROVE (StartedInOrder /\ StepOrder)'
  BY <1>5, RunStepOrder
<1>6. CASE StepDoneEvent
  <2>1. /\ exec'.seqState = "EXECUTING" /\ exec'.stepIndex = exec.stepIndex
        /\ ~exec'.stepActive
    BY <1>6, <1>a DEF StepDoneEvent, ClearedStep, Executions
  <2>2. StepOrder'
    BY <1>6, <1>b, <2>1 DEF StepDoneEvent, StepOrder, Running
  <2> QED
    BY <1>6, <1>c, <2>2 DEF StepDoneEvent
<1>7. ASSUME NEW parsed \in BOOLEAN, ProcessFrame(parsed) PROVE (StartedInOrder /\ StepOrder)'
  <2>1. /\ exec'.seqState = exec.seqState /\ exec'.stepIndex = exec.stepIndex
        /\ exec'.stepActive = exec.stepActive /\ exec'.stepState # "READY"
    BY <1>7, <1>a DEF ProcessFrame, Executions
  <2>2. /\ unsolicited' \in {unsolicited, unsolicited + 1}
        /\ exec.stepState # "WAITRSP" => unsolicited' > 0
    BY <1>7, <1>a DEF ProcessFrame
  <2>3. started = <<>> /\ exec.seqState = "EXECUTING" => unsolicited' > 0
    BY <1>7, <1>a, <1>b, <2>2 DEF ProcessFrame, StepOrder
  <2>4. StepOrder'
    BY <1>7, <1>b, <2>1, <2>3 DEF ProcessFrame, StepOrder, Running
  <2> QED
    BY <1>7, <1>c, <2>2, <2>4 DEF ProcessFrame
<1>8. CASE WildFrame
  BY <1>8, <1>b, <1>c DEF WildFrame, StepOrder, Running
<1>9. CASE UNCHANGED vars
  BY <1>9, <1>b, <1>c DEF vars, StepOrder, Running
<1> QED
  BY <1>1, <1>2, <1>3, <1>4, <1>5, <1>6, <1>7, <1>8, <1>9 DEF Next, PendingEvent

(* Steps are started one after the other, none twice, none left out but the *)
(* first, and that one only because of a frame nobody waited for.           *)
THEOREM StepsStartInOrder == Spec => []StartedInOrder
<1>1. Init => OrderInv
  BY InitOrder
<1>2. OrderInv /\ [Next]_vars => OrderInv'
  BY NextOrder
<1>3. OrderInv => StartedInOrder
  BY DEF OrderInv
<1> QED
  BY <1>1, <1>2, <1>3, PTL DEF Spec

(* Only the finish of a sequence ends it, and the index is past the list    *)
(* then.                                                                    *)
LEMMA NextCompletion == OrderInv /\ [Next]_vars => [Completion]_vars
<1> SUFFICES ASSUME OrderInv, [Next]_vars, Running, curSeq' = NoSeq
             PROVE  \/ Len(started) = StepCount[curSeq]
                    \/ Len(started) + 1 = StepCount[curSeq] /\ unsolicited > 0
  BY DEF Completion
<1>1. curSeq # NoSeq /\ StepCount[curSeq] \in Nat
  BY SequencerAssumption DEF Running
<1>2. FinishEvent
  BY <1>1 DEF Next, PendingEvent, StartSequence, IdleEvent, InitEvent, RunStepEvent,
              StepDoneEvent, ProcessFrame, WildFrame, vars
<1>3. /\ started \in Seq(Nat) /\ exec.stepIndex \in Nat
      /\ StartedInOrder /\ StepOrder
  BY DEF OrderInv, TypeOK, Executions
<1>4. CASE exec.seqState = "INIT" /\ StepCount[curSeq] = 0
  BY <1>3, <1>4 DEF StepOrder
<1>5. CASE exec.seqState = "EXECUTING" /\ ~exec.stepActive /\ exec.stepIndex + 1 >= StepCount[curSeq]
  <2>1. CASE started = <<>>
    <3>1. StepCount[curSeq] = 1 /\ unsolicited > 0
      BY <1>1, <1>3, <1>5, <2>1 DEF StepOrder
    <3> QED
      BY <2>1, <3>1
  <2>2. CASE started # <<>>
    <3>1. /\ exec.stepIndex = started[1] + Len(started) - 1
          /\ exec.stepIndex < StepCount[curSeq]
      BY <1>3, <1>5, <2>2 DEF StepOrder
    <3>2. started[1] = 0 \/ (started[1] = 1 /\ unsolicited > 0)
      BY <1>3, <2>2 DEF StartedInOrder
    <3>3. Len(started) \in Nat
      BY <1>3
    <3> QED
      BY <1>1, <1>3, <1>5, <3>1, <3>2, <3>3
  <2> QED
    BY <2>1, <2>2
<1> QED
  BY <1>2, <1>4, <1>5 DEF FinishEvent, PastEnd, NextIndex

(* A sequence is only declared complete once its steps were started.        *)
THEOREM FinishedIsComplete == Spec => CompleteOnFinish
<1>1. Init => OrderInv
  BY InitOrder
<1>2. OrderInv /\ [Next]_vars => OrderInv'
  BY NextOrder
<1>3. OrderInv /\ [Next]_vars => [Completion]_vars
  BY NextCompletion
<1> QED
  BY <1>1, <1>2, <1>3, PTL DEF Spec, CompleteOnFinish
=============================================================================
