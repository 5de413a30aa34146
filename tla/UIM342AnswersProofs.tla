------------------------- MODULE UIM342AnswersProofs -------------------------
(***************************************************************************)
(* Theorems about UIM342App on the traffic with the controller: how many   *)
(* requests can be under way at a time, and whose answer a step can get.   *)
(***************************************************************************)
EXTENDS UIM342AppProofs

Waiting == IF SP!Running /\ exec.stepState = "WAITRSP" THEN 1 ELSE 0

\* Frames that are or will be in the socket.
InFlight == Len(tx) + Len(rx)

(* A sequence has no more different elements than its length.               *)
LEMMA RangeSize ==
  ASSUME NEW S, NEW q \in Seq(S)
  PROVE  IsFiniteSet(Range(q)) /\ Cardinality(Range(q)) <= Len(q)
<1>1. Len(q) \in Nat /\ DOMAIN q = 1..Len(q) /\ q \in [1..Len(q) -> Range(q)]
  BY DEF Range
<1>2. q \in Surjection(1..Len(q), Range(q))
  BY <1>1 DEF Surjection, Range
<1>3. IsFiniteSet(1..Len(q)) /\ Cardinality(1..Len(q)) = Len(q)
  BY <1>1, FS_Interval
<1> QED
  BY <1>2, <1>3, FS_Surjection

(* The numbers the account is made of.                                      *)
LEMMA FlightTypes ==
  ASSUME CoreInv
  PROVE  /\ Surplus \in Nat /\ InFlight \in Nat /\ Len(tx) \in Nat /\ Len(rx) \in Nat
         /\ pending \in Nat /\ SP!Need \in {0, 1} /\ Waiting \in {0, 1}
         /\ faults["stray"] \in Nat /\ faults["duplicate"] \in Nat
         /\ SP!Need + Waiting \in {0, 1}
  BY FaultsAre, SMTT(30) DEF CoreInv, RestTypes, SP!TypeOK, Surplus, InFlight, SP!Need, Waiting, SP!Blocked

(* Each frame nobody asked for counts one.                                  *)
LEMMA SurplusCounts ==
  ASSUME CoreInv, NEW k \in {"stray", "duplicate"}, Fault(k)
  PROVE  Surplus' = Surplus + 1
<1>1. /\ k \in AllFaults /\ "stray" \in AllFaults /\ "duplicate" \in AllFaults
  BY FaultsAre
<1>2. /\ faults'[k] = faults[k] + 1
      /\ \A j \in AllFaults : j # k => faults'[j] = faults[j]
  BY <1>1, FaultTypes DEF CoreInv, RestTypes
<1> QED
  BY <1>1, <1>2, FlightTypes DEF Surplus

(* What a step of the program does to the numbers.                          *)
LEMMA SurplusGrows ==
  ASSUME CoreInv, [Next]_vars
  PROVE  Surplus' \in Nat /\ Surplus' >= Surplus
  BY FaultsGrow, FaultsAre DEF Surplus

-----------------------------------------------------------------------------
(* Requests in flight.                                                      *)

FlightAccount == InFlight + pending <= Surplus + SP!Need + Waiting

FlightInv == TypeInv /\ SP!WakeupInv /\ FlightAccount

(* Every action keeps the account of the requests under way.                *)
LEMMA NextFlight ==
  ASSUME CoreInv, FlightAccount, [Next]_vars
  PROVE  FlightAccount'
<1>a. /\ Surplus \in Nat /\ InFlight \in Nat /\ Len(tx) \in Nat /\ Len(rx) \in Nat
      /\ pending \in Nat /\ SP!Need \in {0, 1} /\ Waiting \in {0, 1}
      /\ SP!Need + Waiting \in {0, 1}
      /\ Surplus' \in Nat /\ Surplus' >= Surplus
  BY FlightTypes, SurplusGrows
<1>b. InFlight + pending <= Surplus + SP!Need + Waiting
  BY DEF FlightAccount, InFlight
<1>c. /\ tx \in Seq(Nat) /\ rx \in Seq(Nat \cup {NoRequest})
      /\ exec \in SP!Executions /\ curSeq \in SeqIDs \cup {NoSeq, Wild}
  BY DEF CoreInv, RestTypes, SP!TypeOK
<1>d. ASSUME UNCHANGED seqVars
      PROVE  pending' = pending /\ SP!Need' = SP!Need /\ Waiting' = Waiting
  BY <1>d DEF seqVars, SP!Need, SP!Running, SP!Blocked, Waiting
<1>1. CASE \/ ConfigureCall \/ InitCall \/ RegisterPendingCall \/ RegisterBusCall \/ RunCall
           \/ Wait \/ Interrupted \/ Quit \/ UNCHANGED vars
  <2>1. UNCHANGED seqVars /\ tx' = tx /\ rx' = rx
    BY <1>1 DEF ConfigureCall, InitCall, RegisterPendingCall, RegisterBusCall, RunCall, Wait,
           Interrupted, Quit, vars, busVars
  <2> QED
    BY <1>a, <1>b, <1>d, <2>1 DEF FlightAccount, InFlight
<1>2. CASE StartCall
  <2>1. tx' = tx /\ rx' = rx
    BY <1>2 DEF StartCall, busVars
  <2>2. \/ UNCHANGED <<curSeq, exec, pending>>
        \/ /\ curSeq = NoSeq /\ Head(todo)[2] \in SeqIDs /\ curSeq' = Head(todo)[2]
           /\ exec' = [SP!FreshExec EXCEPT !.seqState = "INIT"] /\ pending' = pending + 1
    BY <1>2
       DEF StartCall, Calling, Sequencer!StartSequence, Sequencer!FreshExec, SP!FreshExec, seqVars,
           CoreInv, HeadTyped
  <2>3. CASE UNCHANGED <<curSeq, exec, pending>>
    BY <1>a, <1>b, <2>1, <2>3
       DEF FlightAccount, InFlight, SP!Need, SP!Running, SP!Blocked, Waiting
  <2>4. CASE curSeq = NoSeq /\ curSeq' \in SeqIDs /\ exec'.stepState = "NOTSET"
             /\ pending' = pending + 1
    <3>1. SP!Need = 0 /\ Waiting = 0 /\ SP!Need' = 1 /\ Waiting' = 0
      BY <2>4, AppAssumption DEF SP!Need, SP!Running, SP!Blocked, Waiting
    <3> QED
      BY <1>a, <1>b, <2>1, <2>4, <3>1 DEF FlightAccount, InFlight
  <2> QED
    BY <2>2, <2>3, <2>4 DEF SP!FreshExec
<1>3. CASE SequencerEvent
  <2>a. rx' = rx
    BY <1>3 DEF SequencerEvent
  <2>1. CASE Sequencer!IdleEvent /\ UNCHANGED tx
    BY <1>a, <1>b, <2>a, <2>1 DEF Sequencer!IdleEvent, Sequencer!NoReschedule, FlightAccount, SP!Need,
       SP!Running, SP!Blocked, Waiting, InFlight
  <2>2. CASE Sequencer!InitEvent /\ UNCHANGED tx
    <3>1. exec'.stepState = "READY" /\ curSeq' \in SeqIDs /\ pending' = pending
      BY <1>c, <2>2 DEF Sequencer!InitEvent, Sequencer!Readied, SP!Executions,
         Sequencer!Reschedule, Sequencer!Running
    <3>2. SP!Need' = 1 /\ Waiting' = 0
      BY <3>1 DEF SP!Need, SP!Running, SP!Blocked, Waiting
    <3> QED
      BY <1>a, <1>b, <2>a, <2>2, <3>1, <3>2 DEF FlightAccount, InFlight
  <2>3. CASE Sequencer!FinishEvent /\ UNCHANGED tx
    <3>1. pending' = pending - 1 /\ curSeq' = NoSeq
      BY <2>3 DEF Sequencer!FinishEvent, Sequencer!NoReschedule
    <3>2. SP!Need' = 0 /\ Waiting' = 0
      BY <3>1, AppAssumption DEF SP!Need, SP!Running, Waiting
    <3> QED
      BY <1>a, <1>b, <2>a, <2>3, <3>1, <3>2 DEF FlightAccount, InFlight
  <2>4. CASE Sequencer!RunStepEvent(TRUE) /\ tx' = Append(tx, Sequencer!NextIndex)
    <3>1. exec'.stepState = "WAITRSP" /\ curSeq' \in SeqIDs /\ pending' = pending - 1
      BY <1>c, <2>4 DEF Sequencer!RunStepEvent, Sequencer!Readied, SP!Executions,
         Sequencer!NoReschedule, Sequencer!Running
    <3>2. SP!Need' = 0 /\ Waiting' = 1
      BY <3>1 DEF SP!Need, SP!Running, SP!Blocked, Waiting
    <3>3. Len(tx') = Len(tx) + 1
      BY <1>c, <2>4
    <3>4. SP!Need + Waiting = 1 \/ SP!Need + Waiting = 0
      BY <1>a
    <3> QED
      BY <1>a, <1>b, <2>a, <3>1, <3>2, <3>3 DEF FlightAccount, InFlight
  <2>5. CASE Sequencer!RunStepEvent(FALSE) /\ UNCHANGED tx
    <3>1. exec'.stepState = "ERROR" /\ pending' = pending - 1
      BY <1>c, <2>5 DEF Sequencer!RunStepEvent, Sequencer!Readied, SP!Executions,
         Sequencer!NoReschedule
    <3>2. SP!Need' = 0 /\ Waiting' = 0
      BY <3>1 DEF SP!Need, SP!Blocked, Waiting
    <3> QED
      BY <1>a, <1>b, <2>a, <2>5, <3>1, <3>2 DEF FlightAccount, InFlight
  <2>6. CASE Sequencer!StepDoneEvent /\ UNCHANGED tx
    <3>1. exec'.stepState = "NOTSET" /\ curSeq' \in SeqIDs /\ pending' = pending
      BY <1>c, <2>6 DEF Sequencer!StepDoneEvent, Sequencer!ClearedStep, SP!Executions,
         Sequencer!Reschedule, Sequencer!Running
    <3>2. SP!Need' = 1 /\ Waiting' = 0
      BY <3>1 DEF SP!Need, SP!Running, SP!Blocked, Waiting
    <3> QED
      BY <1>a, <1>b, <2>a, <2>6, <3>1, <3>2 DEF FlightAccount, InFlight
  <2> QED
    BY <1>3, <2>1, <2>2, <2>3, <2>4, <2>5, <2>6 DEF SequencerEvent
<1>4. CASE BusEvent
  <2>1. UNCHANGED tx /\ Len(rx') = Len(rx) - 1 /\ Len(rx) > 0
    BY <1>4, <1>c DEF BusEvent
  <2>2. CASE UNCHANGED <<curSeq, exec, pending>>
    BY <1>a, <1>b, <2>1, <2>2 DEF FlightAccount, InFlight, SP!Need, SP!Running, SP!Blocked, Waiting
  <2>3. CASE Sequencer!ProcessFrame(TRUE)
    <3>1. exec'.stepState = "DONE" /\ curSeq' \in SeqIDs /\ pending' = pending + 1
      BY <1>c, <2>3 DEF Sequencer!ProcessFrame, SP!Executions, Sequencer!ReadyToSchedule,
         Sequencer!Running
    <3>2. SP!Need' = 1 /\ Waiting' = 0
      BY <3>1 DEF SP!Need, SP!Running, SP!Blocked, Waiting
    <3> QED
      BY <1>a, <1>b, <2>1, <3>1, <3>2 DEF FlightAccount, InFlight
  <2> QED
    BY <1>4, <2>2, <2>3 DEF BusEvent, Sequencer!WildFrame, seqVars
<1>5. CASE Answer
  <2>1. Len(tx') = Len(tx) - 1 /\ Len(rx') = Len(rx) + 1
    BY <1>5, <1>c DEF Answer
  <2> QED
    BY <1>5, <1>a, <1>b, <1>d, <2>1, SMTT(30) DEF FlightAccount, InFlight, Answer
<1>6. CASE BusFault
  <2>1. UNCHANGED seqVars
    BY <1>6 DEF BusFault
  <2>2. CASE tx # <<>> /\ tx' = Tail(tx) /\ UNCHANGED rx
    <3>1. Len(tx') = Len(tx) - 1
      BY <1>c, <2>2
    <3> QED
      BY <1>a, <1>b, <1>d, <2>1, <2>2, <3>1 DEF FlightAccount, InFlight
  <2>3. CASE tx # <<>> /\ Fault("duplicate") /\ tx' = Tail(tx) /\ rx' = rx \o <<Head(tx), Head(tx)>>
    <3>1. Len(tx') = Len(tx) - 1 /\ Len(rx') = Len(rx) + 2
      BY <1>c, <2>3
    <3>2. Surplus' = Surplus + 1
      BY <2>3, SurplusCounts
    <3> QED
      BY <1>a, <1>b, <1>d, <2>1, <3>1, <3>2 DEF FlightAccount, InFlight
  <2>4. CASE Fault("stray") /\ rx' = Append(rx, NoRequest) /\ UNCHANGED tx
    <3>1. Len(rx') = Len(rx) + 1
      BY <1>c, <2>4
    <3>2. Surplus' = Surplus + 1
      BY <2>4, SurplusCounts
    <3> QED
      BY <1>a, <1>b, <1>d, <2>1, <2>4, <3>1, <3>2 DEF FlightAccount, InFlight
  <2> QED
    BY <1>6, <2>2, <2>3, <2>4 DEF BusFault
<1> QED
  BY <1>1, <1>2, <1>3, <1>4, <1>5, <1>6 DEF Next, MainStep, LoopStep, Halted

(* The wake-up bounds of the sequencer hold inside the program.             *)
LEMMA NextWakeups == CoreInv /\ SP!WakeupInv /\ [Next]_vars => SP!WakeupInv'
<1> SUFFICES ASSUME CoreInv, SP!WakeupInv, [Next]_vars PROVE SP!WakeupInv'
  OBVIOUS
<1>1. CASE NullWakeup
  BY <1>1, SequencerTypes DEF NullWakeup, CoreInv, SP!WakeupInv, SP!NoLostWakeup, SP!WakeupAccount,
     SP!Need, SP!Running, SP!Blocked
<1>2. CASE [SP!Next]_(SP!vars)
  BY <1>2, SeqAssumption, SP!NextWakeup
<1> QED
  BY <1>1, <1>2, SequencerSteps DEF CoreInv

(* Nothing is under way at first.                                           *)
LEMMA InitFlight == Init => FlightInv
<1> SUFFICES ASSUME Init PROVE FlightInv
  OBVIOUS
<1>1. TypeInv
  BY InitTypes
<1>2. SP!WakeupInv
  BY SameActions, SeqAssumption, SP!InitWakeup DEF Init, InitWith
<1>3. tx = <<>> /\ rx = <<>> /\ pending = 0
  BY DEF Init, InitWith, Sequencer!Init
<1>4. FlightAccount
  BY <1>1, <1>3, TypesHaveCore, FlightTypes DEF FlightAccount, InFlight
<1> QED
  BY <1>1, <1>2, <1>4 DEF FlightInv

(* The account holds in every behaviour.                                    *)
LEMMA AlwaysFlight == Spec => []FlightInv
<1>1. FlightInv /\ [Next]_vars => FlightInv'
  BY NextTypes, TypesHaveCore, NextWakeups, NextFlight DEF FlightInv
<1> QED
  BY <1>1, InitFlight, PTL DEF Spec

(* No more requests are under way, unanswered or with their answer unread,  *)
(* than one for the step that waits and one for each frame that answered    *)
(* nothing.                                                                 *)
THEOREM FlightBounded == Spec => []InFlightBounded
<1>1. ASSUME FlightInv PROVE InFlightBounded
  <2> DEFINE T == Range(tx)
             R == Range(rx)
             W == IF Sequencer!Running /\ exec.stepState = "WAITRSP" THEN 1 ELSE 0
  <2>a. tx \in Seq(Nat) /\ rx \in Seq(Nat \cup {NoRequest}) /\ TypeInv
    BY <1>1 DEF FlightInv, TypeInv, RestTypes
  <2>1. /\ IsFiniteSet(T) /\ Cardinality(T) <= Len(tx) /\ Len(tx) \in Nat
        /\ IsFiniteSet(R) /\ Cardinality(R) <= Len(rx) /\ Len(rx) \in Nat
    BY <2>a, RangeSize
  <2>2. /\ Cardinality(T) \in Nat /\ Cardinality(R) \in Nat /\ Cardinality(T \cap R) \in Nat
        /\ IsFiniteSet(T \cup R)
        /\ Cardinality(T \cup R) = Cardinality(T) + Cardinality(R) - Cardinality(T \cap R)
    <3>1. IsFiniteSet(T \cap R)
      BY <2>1, FS_Subset, T \cap R \in SUBSET T
    <3> QED
      BY <2>1, <3>1, FS_Union, FS_CardinalityType
  <2>3. (T \cup R) \ {NoRequest} \in SUBSET (T \cup R)
    OBVIOUS
  <2>4. /\ IsFiniteSet((T \cup R) \ {NoRequest})
        /\ Cardinality((T \cup R) \ {NoRequest}) <= Cardinality(T \cup R)
    BY <2>2, <2>3, FS_Subset
  <2>5. Cardinality((T \cup R) \ {NoRequest}) \in Nat
    BY <2>4, FS_CardinalityType
  <2> DEFINE n == Cardinality((T \cup R) \ {NoRequest})
             u == Cardinality(T \cup R)
             t == Cardinality(T)
             r == Cardinality(R)
             b == Cardinality(T \cap R)
  <2>6. n <= Len(tx) + Len(rx)
    <3>1. n \in Nat /\ t \in Nat /\ r \in Nat /\ b \in Nat /\ u = t + r - b /\ n <= u
      BY <2>2, <2>4, <2>5
    <3>2. t <= Len(tx) /\ r <= Len(rx)
      BY <2>1
    <3> HIDE DEF n, u, t, r, b
    <3> QED
      BY <2>1, <3>1, <3>2
  <2>7. Len(tx) + Len(rx) <= W + Surplus
    <3>1. /\ SP!Need <= pending /\ SP!Need \in Nat /\ pending \in Nat
          /\ Surplus \in Nat /\ Waiting \in Nat
          /\ Len(tx) + Len(rx) + pending <= Surplus + SP!Need + Waiting
      BY <1>1, <2>a, TypesHaveCore, FlightTypes
         DEF FlightInv, SP!WakeupInv, SP!NoLostWakeup, FlightAccount, InFlight
    <3>2. W = Waiting
      BY DEF Waiting, Sequencer!Running, SP!Running
    <3> HIDE DEF W
    <3> QED
      BY <2>1, <3>1, <3>2
  <2>8. W \in Nat /\ Surplus \in Nat
    BY <2>a, TypesHaveCore, FlightTypes
  <2>9. n <= W + Surplus
    <3> HIDE DEF n, W
    <3> QED
      BY <2>1, <2>5, <2>6, <2>7, <2>8 DEF n
  <2> QED
    BY <2>9 DEF InFlightBounded
<1> QED
  BY <1>1, AlwaysFlight, PTL

-----------------------------------------------------------------------------
(* Answers credited to a later step.                                        *)

\* Until the last sequence is started the loop does not run, and nothing has
\* been asked or answered.
Quiet ==
  /\ loop \in {"none", "stopped"}
  /\ tx = <<>>
  /\ answers = <<>>
  /\ \A k \in DOMAIN rx : rx[k] = NoRequest

QuietInv == (\E c \in Range(todo) : c[1] = "startSequence") => Quiet

\* A sequence that was not looked at yet is at its first step.
IndexInv == SP!Running /\ exec.seqState = "INIT" => exec.stepIndex = 0

(* The step gets the answer to request q after ahead more wake-ups and      *)
(* frames: each of them can take it one step further.                       *)
Lag(step, q, ahead, surplus) == q <= step /\ ahead + step <= surplus + q

(* The same for every frame in the socket and every request on its way.     *)
LagOK(step, wakeups, surplus, r, t) ==
  \A k, q \in Nat :
    /\ k \in DOMAIN r /\ r[k] = q => Lag(step, q, k - 1 + wakeups, surplus)
    /\ k \in DOMAIN t /\ t[k] = q => Lag(step, q, Len(r) + k - 1 + wakeups, surplus)

BusLag == SP!Running => LagOK(exec.stepIndex, pending, Surplus, rx, tx)

AnswersLag ==
  \A i \in DOMAIN answers : \A step, q \in Nat :
    answers[i] = <<step, q>> => Lag(step, q, 0, Surplus)

LagInv == FlightInv /\ QuietInv /\ IndexInv /\ BusLag /\ AnswersLag

(* The elements of a sequence with one or two more at its end.              *)
LEMMA Indices ==
  ASSUME NEW S, NEW q \in Seq(S), NEW e \in S
  PROVE  /\ Len(Append(q, e)) = Len(q) + 1
         /\ \A k \in DOMAIN Append(q, e) :
              \/ k \in DOMAIN q /\ Append(q, e)[k] = q[k]
              \/ k = Len(q) + 1 /\ Append(q, e)[k] = e
<1>1. Len(q) \in Nat /\ DOMAIN q = 1..Len(q)
  OBVIOUS
<1>2. /\ Len(Append(q, e)) = Len(q) + 1 /\ DOMAIN Append(q, e) = 1..(Len(q) + 1)
      /\ \A k \in 1..Len(q) : Append(q, e)[k] = q[k]
      /\ Append(q, e)[Len(q) + 1] = e
  OBVIOUS
<1>3. \A k \in 1..(Len(q) + 1) : k \in 1..Len(q) \/ k = Len(q) + 1
  BY <1>1
<1> QED
  BY <1>1, <1>2, <1>3

(* The same for two elements at once.                                       *)
LEMMA IndicesOfTwo ==
  ASSUME NEW S, NEW q \in Seq(S), NEW e \in S
  PROVE  /\ Len(q \o <<e, e>>) = Len(q) + 2
         /\ \A k \in DOMAIN (q \o <<e, e>>) :
              \/ k \in DOMAIN q /\ (q \o <<e, e>>)[k] = q[k]
              \/ k \in {Len(q) + 1, Len(q) + 2} /\ (q \o <<e, e>>)[k] = e
<1>1. Len(q) \in Nat /\ DOMAIN q = 1..Len(q)
  OBVIOUS
<1> QED
  BY <1>1

(* While no frame moves, wake-ups are exchanged for steps at most.          *)
LEMMA LagOfStep ==
  ASSUME NEW s \in Nat, NEW p \in Nat, NEW z \in Nat,
         NEW r \in Seq(Nat \cup {NoRequest}), NEW t \in Seq(Nat),
         LagOK(s, p, z, r, t),
         NEW s2 \in Nat, NEW p2 \in Nat, NEW z2 \in Nat, s2 >= s, z2 >= z, p2 + s2 <= p + s
  PROVE  LagOK(s2, p2, z2, r, t)
<1> SUFFICES ASSUME NEW k \in Nat, NEW q \in Nat
             PROVE  /\ k \in DOMAIN r /\ r[k] = q => Lag(s2, q, k - 1 + p2, z2)
                    /\ k \in DOMAIN t /\ t[k] = q => Lag(s2, q, Len(r) + k - 1 + p2, z2)
  BY DEF LagOK
<1>1. \A n \in Int : Lag(s, q, n + p, z) => Lag(s2, q, n + p2, z2)
  BY DEF Lag
<1>2. k - 1 \in Int /\ Len(r) + k - 1 \in Int
  OBVIOUS
<1>3. /\ k \in DOMAIN r /\ r[k] = q => Lag(s, q, k - 1 + p, z)
      /\ k \in DOMAIN t /\ t[k] = q => Lag(s, q, Len(r) + k - 1 + p, z)
  BY DEF LagOK
<1> QED
  BY <1>1, <1>2, <1>3

(* The running step sends its request.                                      *)
LEMMA LagOfSend ==
  ASSUME NEW s \in Nat, NEW p \in Nat, NEW z \in Nat,
         NEW r \in Seq(Nat \cup {NoRequest}), NEW t \in Seq(Nat),
         LagOK(s, p, z, r, t), Len(r) + Len(t) + p <= z
  PROVE  LagOK(s, p, z, r, Append(t, s))
<1> SUFFICES ASSUME NEW k \in Nat, NEW q \in Nat, k \in DOMAIN Append(t, s), Append(t, s)[k] = q
             PROVE  Lag(s, q, Len(r) + k - 1 + p, z)
  BY DEF LagOK
<1>1. CASE k \in DOMAIN t /\ Append(t, s)[k] = t[k]
  BY <1>1 DEF LagOK
<1>2. CASE k = Len(t) + 1 /\ Append(t, s)[k] = s
  BY <1>2 DEF Lag
<1> QED
  BY <1>1, <1>2, Indices

(* A frame is read from the socket and leaves a wake-up, or none.           *)
LEMMA LagOfRead ==
  ASSUME NEW s \in Nat, NEW p \in Nat, NEW z \in Nat,
         NEW r \in Seq(Nat \cup {NoRequest}), NEW t \in Seq(Nat),
         LagOK(s, p, z, r, t), r # <<>>, NEW p2 \in Nat, p2 <= p + 1
  PROVE  LagOK(s, p2, z, Tail(r), t)
<1> SUFFICES ASSUME NEW k \in Nat, NEW q \in Nat
             PROVE  /\ k \in DOMAIN Tail(r) /\ Tail(r)[k] = q => Lag(s, q, k - 1 + p2, z)
                    /\ k \in DOMAIN t /\ t[k] = q => Lag(s, q, Len(Tail(r)) + k - 1 + p2, z)
  BY DEF LagOK
<1>1. Len(Tail(r)) = Len(r) - 1 /\ Len(r) \in Nat
  OBVIOUS
<1>2. ASSUME k \in DOMAIN Tail(r), Tail(r)[k] = q PROVE Lag(s, q, k - 1 + p2, z)
  <2>1. k + 1 \in DOMAIN r /\ r[k + 1] = q /\ k + 1 \in Nat
    BY <1>1, <1>2
  <2>2. Lag(s, q, (k + 1) - 1 + p, z)
    BY <2>1 DEF LagOK
  <2> QED
    BY <2>2 DEF Lag
<1>3. ASSUME k \in DOMAIN t, t[k] = q PROVE Lag(s, q, Len(Tail(r)) + k - 1 + p2, z)
  <2>1. Lag(s, q, Len(r) + k - 1 + p, z)
    BY <1>3 DEF LagOK
  <2> QED
    BY <1>1, <2>1 DEF Lag
<1> QED
  BY <1>2, <1>3

(* The oldest request is lost.                                              *)
LEMMA LagOfLoss ==
  ASSUME NEW s \in Nat, NEW p \in Nat, NEW z \in Nat,
         NEW r \in Seq(Nat \cup {NoRequest}), NEW t \in Seq(Nat),
         LagOK(s, p, z, r, t), t # <<>>
  PROVE  LagOK(s, p, z, r, Tail(t))
<1> SUFFICES ASSUME NEW k \in Nat, NEW q \in Nat, k \in DOMAIN Tail(t), Tail(t)[k] = q
             PROVE  Lag(s, q, Len(r) + k - 1 + p, z)
  BY DEF LagOK
<1>1. k + 1 \in DOMAIN t /\ t[k + 1] = q /\ k + 1 \in Nat
  OBVIOUS
<1>2. Lag(s, q, Len(r) + (k + 1) - 1 + p, z)
  BY <1>1 DEF LagOK
<1> QED
  BY <1>2 DEF Lag

(* The oldest request is answered.                                          *)
LEMMA LagOfAnswer ==
  ASSUME NEW s \in Nat, NEW p \in Nat, NEW z \in Nat,
         NEW r \in Seq(Nat \cup {NoRequest}), NEW t \in Seq(Nat),
         LagOK(s, p, z, r, t), t # <<>>
  PROVE  LagOK(s, p, z, Append(r, Head(t)), Tail(t))
<1> DEFINE r2 == Append(r, Head(t))
<1> SUFFICES ASSUME NEW k \in Nat, NEW q \in Nat
             PROVE  /\ k \in DOMAIN r2 /\ r2[k] = q => Lag(s, q, k - 1 + p, z)
                    /\ k \in DOMAIN Tail(t) /\ Tail(t)[k] = q => Lag(s, q, Len(r2) + k - 1 + p, z)
  BY DEF LagOK
<1>1. Head(t) \in Nat \cup {NoRequest} /\ 1 \in DOMAIN t /\ Head(t) = t[1]
  OBVIOUS
<1>2. Len(r2) = Len(r) + 1 /\ Len(r) \in Nat
  BY <1>1, Indices
<1>3. ASSUME k \in DOMAIN r2, r2[k] = q PROVE Lag(s, q, k - 1 + p, z)
  <2>1. CASE k \in DOMAIN r /\ r2[k] = r[k]
    BY <1>3, <2>1 DEF LagOK
  <2>2. CASE k = Len(r) + 1 /\ r2[k] = Head(t)
    <3>1. Lag(s, q, Len(r) + 1 - 1 + p, z)
      BY <1>1, <1>3, <2>2 DEF LagOK
    <3> QED
      BY <2>2, <3>1
  <2> QED
    BY <1>1, <1>3, <2>1, <2>2, Indices
<1>4. ASSUME k \in DOMAIN Tail(t), Tail(t)[k] = q PROVE Lag(s, q, Len(r2) + k - 1 + p, z)
  <2>1. k + 1 \in DOMAIN t /\ t[k + 1] = q /\ k + 1 \in Nat
    BY <1>4
  <2>2. Lag(s, q, Len(r) + (k + 1) - 1 + p, z)
    BY <2>1 DEF LagOK
  <2> QED
    BY <1>2, <2>2 DEF Lag
<1> QED
  BY <1>3, <1>4

(* A frame that answers nothing turns up.                                   *)
LEMMA LagOfStray ==
  ASSUME NEW s \in Nat, NEW p \in Nat, NEW z \in Nat,
         NEW r \in Seq(Nat \cup {NoRequest}), NEW t \in Seq(Nat),
         LagOK(s, p, z, r, t)
  PROVE  LagOK(s, p, z + 1, Append(r, NoRequest), t)
<1> DEFINE r2 == Append(r, NoRequest)
<1> SUFFICES ASSUME NEW k \in Nat, NEW q \in Nat
             PROVE  /\ k \in DOMAIN r2 /\ r2[k] = q => Lag(s, q, k - 1 + p, z + 1)
                    /\ k \in DOMAIN t /\ t[k] = q => Lag(s, q, Len(r2) + k - 1 + p, z + 1)
  BY DEF LagOK
<1>2. Len(r2) = Len(r) + 1 /\ Len(r) \in Nat
  BY Indices
<1>3. ASSUME k \in DOMAIN r2, r2[k] = q PROVE Lag(s, q, k - 1 + p, z + 1)
  <2>1. k \in DOMAIN r /\ r2[k] = r[k]
    BY <1>3, AppAssumption, Indices
  <2>2. Lag(s, q, k - 1 + p, z)
    BY <1>3, <2>1 DEF LagOK
  <2> QED
    BY <2>2 DEF Lag
<1>4. ASSUME k \in DOMAIN t, t[k] = q PROVE Lag(s, q, Len(r2) + k - 1 + p, z + 1)
  <2>2. Lag(s, q, Len(r) + k - 1 + p, z)
    BY <1>4 DEF LagOK
  <2> QED
    BY <1>2, <2>2 DEF Lag
<1> QED
  BY <1>3, <1>4

(* The oldest request is answered twice.                                    *)
LEMMA LagOfDuplicate ==
  ASSUME NEW s \in Nat, NEW p \in Nat, NEW z \in Nat,
         NEW r \in Seq(Nat \cup {NoRequest}), NEW t \in Seq(Nat),
         LagOK(s, p, z, r, t), t # <<>>
  PROVE  LagOK(s, p, z + 1, r \o <<Head(t), Head(t)>>, Tail(t))
<1> DEFINE r2 == r \o <<Head(t), Head(t)>>
<1> SUFFICES ASSUME NEW k \in Nat, NEW q \in Nat
             PROVE  /\ k \in DOMAIN r2 /\ r2[k] = q => Lag(s, q, k - 1 + p, z + 1)
                    /\ k \in DOMAIN Tail(t) /\ Tail(t)[k] = q => Lag(s, q, Len(r2) + k - 1 + p, z + 1)
  BY DEF LagOK
<1>1. Head(t) \in Nat \cup {NoRequest} /\ 1 \in DOMAIN t /\ Head(t) = t[1]
  OBVIOUS
<1>2. /\ Len(r2) = Len(r) + 2 /\ Len(r) \in Nat
      /\ \A j \in DOMAIN r2 : \/ j \in DOMAIN r /\ r2[j] = r[j]
                              \/ j \in {Len(r) + 1, Len(r) + 2} /\ r2[j] = Head(t)
  <2> DEFINE e == Head(t)
             S == Nat \cup {NoRequest}
  <2>1. r \in Seq(S) /\ e \in S /\ r2 = r \o <<e, e>> /\ Len(r) \in Nat
    BY <1>1
  <2> HIDE DEF e, S, r2
  <2>2. /\ Len(r2) = Len(r) + 2
        /\ \A j \in DOMAIN r2 : \/ j \in DOMAIN r /\ r2[j] = r[j]
                                \/ j \in {Len(r) + 1, Len(r) + 2} /\ r2[j] = e
    BY <2>1, IndicesOfTwo
  <2> QED
    BY <2>1, <2>2 DEF e
<1>3. ASSUME k \in DOMAIN r2, r2[k] = q PROVE Lag(s, q, k - 1 + p, z + 1)
  <2>1. CASE k \in DOMAIN r /\ r2[k] = r[k]
    <3>1. Lag(s, q, k - 1 + p, z)
      BY <1>3, <2>1 DEF LagOK
    <3> QED
      BY <3>1 DEF Lag
  <2>2. CASE k \in {Len(r) + 1, Len(r) + 2} /\ r2[k] = Head(t)
    <3>1. Lag(s, q, Len(r) + 1 - 1 + p, z)
      BY <1>1, <1>3, <2>2 DEF LagOK
    <3> QED
      BY <1>2, <2>2, <3>1 DEF Lag
  <2>3. \/ k \in DOMAIN r /\ r2[k] = r[k]
        \/ k \in {Len(r) + 1, Len(r) + 2} /\ r2[k] = Head(t)
    BY <1>2, <1>3
  <2> QED
    BY <2>1, <2>2, <2>3
<1>4. ASSUME k \in DOMAIN Tail(t), Tail(t)[k] = q PROVE Lag(s, q, Len(r2) + k - 1 + p, z + 1)
  <2>1. k + 1 \in DOMAIN t /\ t[k + 1] = q /\ k + 1 \in Nat
    BY <1>4
  <2>2. Lag(s, q, Len(r) + (k + 1) - 1 + p, z)
    BY <2>1 DEF LagOK
  <2> QED
    BY <1>2, <2>2 DEF Lag
<1> QED
  BY <1>3, <1>4

(* Until the last sequence is started the bus carries no request.           *)
LEMMA NextQuiet == TypeInv /\ QuietInv /\ [Next]_vars => QuietInv'
<1> SUFFICES ASSUME TypeInv, QuietInv, [Next]_vars,
                    \E c \in Range(todo)' : c[1] = "startSequence"
             PROVE  Quiet'
  BY DEF QuietInv
<1>a. tx \in Seq(Nat) /\ rx \in Seq(Nat \cup {NoRequest}) /\ CallsInv
  BY DEF TypeInv, RestTypes
<1>1. todo' = todo \/ (todo # <<>> /\ todo' = Tail(todo))
  BY DEF Next, MainStep, LoopStep, Halted, vars, ConfigureCall, InitCall, RegisterPendingCall,
         RegisterBusCall, StartCall, RunCall, Wait, Interrupted, Quit, SequencerEvent, BusEvent,
         Answer, BusFault, Calling
<1>2. \E c \in Range(todo) : c[1] = "startSequence"
  <2>1. CASE todo' = todo
    BY <2>1
  <2>2. CASE todo # <<>> /\ todo' = Tail(todo)
    BY <1>a, <2>2, NextCall
  <2> QED
    BY <1>1, <2>1, <2>2
<1>3. Quiet
  BY <1>2 DEF QuietInv
<1>4. CASE ConfigureCall \/ UNCHANGED vars
  BY <1>3, <1>4 DEF ConfigureCall, vars, loopVars, busVars, histVars, Quiet
<1>5. CASE InitCall
  BY <1>3, <1>5 DEF InitCall, busVars, histVars, Loop!InitLoop, Loop!InitFails, Quiet
<1>6. CASE RegisterPendingCall \/ RegisterBusCall
  BY <1>3, <1>6 DEF RegisterPendingCall, RegisterBusCall, Watch, loopVars, busVars, histVars,
     Loop!Register, Quiet
<1>7. CASE StartCall
  BY <1>3, <1>7 DEF StartCall, loopVars, busVars, Quiet
<1>8. ~RunCall
  <2> SUFFICES ASSUME RunCall PROVE FALSE
    OBVIOUS
  <2>1. /\ todo # <<>> /\ todo' = Tail(todo) /\ Head(todo)[1] = "run"
        /\ Stage["run"] = 5 /\ Stage["startSequence"] = 4
    BY DEF RunCall, Calling, Stage
  <2> QED
    BY <1>a, <2>1, NextCall
<1>9. ~Wait /\ ~Interrupted /\ ~Quit /\ ~SequencerEvent /\ ~BusEvent
  BY <1>3 DEF Wait, Interrupted, Quit, SequencerEvent, BusEvent, Quiet,
     Loop!EpollWait, Loop!EpollFail, Loop!HandleQuit, Loop!Handle
<1>10. ~Answer
  BY <1>3 DEF Answer, Quiet
<1>11. CASE BusFault
  <2>1. rx' = Append(rx, NoRequest) /\ UNCHANGED <<tx, loop, answers>>
    BY <1>3, <1>11 DEF BusFault, Quiet, loopVars, histVars
  <2>2. \A k \in DOMAIN rx' : rx'[k] = NoRequest
    BY <1>3, <1>a, <2>1, Indices DEF Quiet
  <2> QED
    BY <1>3, <2>1, <2>2 DEF Quiet
<1> QED
  BY <1>4, <1>5, <1>6, <1>7, <1>8, <1>9, <1>10, <1>11 DEF Next, MainStep, LoopStep, Halted

(* A sequence not looked at yet stays at its first step: no wake-up moves it.*)
LEMMA NextIndexInv == TypeInv /\ IndexInv /\ [Next]_vars => IndexInv'
<1> SUFFICES ASSUME TypeInv, IndexInv, [Next]_vars PROVE IndexInv'
  OBVIOUS
<1> USE DEF IndexInv, SP!Running
<1>a. exec \in SP!Executions
  BY DEF TypeInv, SP!TypeOK
<1>1. CASE NullWakeup
  BY <1>1 DEF NullWakeup
<1>2. CASE UNCHANGED SP!vars
  BY <1>2 DEF SP!vars
<1>3. CASE SP!Next
  <2>1. ASSUME NEW s \in SeqIDs, SP!StartSequence(s) PROVE IndexInv'
    BY <2>1 DEF SP!StartSequence, SP!FreshExec
  <2>2. CASE SP!IdleEvent \/ SP!WildFrame
    BY <2>2 DEF SP!IdleEvent, SP!WildFrame
  <2>3. CASE SP!InitEvent
    BY <1>a, <2>3 DEF SP!InitEvent, SP!Readied, SP!Executions
  <2>4. CASE SP!FinishEvent
    BY <2>4, AppAssumption DEF SP!FinishEvent
  <2>5. ASSUME NEW sent \in BOOLEAN, SP!RunStepEvent(sent) PROVE IndexInv'
    BY <1>a, <2>5 DEF SP!RunStepEvent, SP!Readied, SP!Executions
  <2>6. CASE SP!StepDoneEvent
    BY <1>a, <2>6 DEF SP!StepDoneEvent, SP!ClearedStep, SP!Executions
  <2>7. ASSUME NEW parsed \in BOOLEAN, SP!ProcessFrame(parsed) PROVE IndexInv'
    BY <1>a, <2>7 DEF SP!ProcessFrame, SP!Executions
  <2> QED
    BY <1>3, <2>1, <2>2, <2>3, <2>4, <2>5, <2>6, <2>7 DEF SP!Next, SP!PendingEvent
<1> QED
  BY <1>1, <1>2, <1>3, CallsTyped, SequencerSteps DEF TypeInv

(* The lag of what is on its way, through every action.                     *)
LEMMA NextBusLag == LagInv /\ [Next]_vars => BusLag'
<1> SUFFICES ASSUME LagInv, [Next]_vars, SP!Running' PROVE BusLag'
  BY DEF BusLag
<1> DEFINE s == exec.stepIndex
<1>a. /\ tx \in Seq(Nat) /\ rx \in Seq(Nat \cup {NoRequest}) /\ CallsInv /\ TypeInv
      /\ exec \in SP!Executions /\ s \in Nat
  BY DEF LagInv, FlightInv, TypeInv, RestTypes, SP!TypeOK, SP!Executions
<1>b. /\ Surplus \in Nat /\ Surplus' \in Nat /\ Surplus' >= Surplus
      /\ pending \in Nat /\ pending' \in Nat
  BY <1>a, TypesHaveCore, FlightTypes, SurplusGrows, NextTypes DEF TypeInv, SP!TypeOK
<1>c. SP!Running => LagOK(s, pending, Surplus, rx, tx)
  BY DEF LagInv, BusLag
(* While no frame moves, wake-ups are exchanged for steps at most.          *)
<1>d. ASSUME SP!Running, tx' = tx, rx' = rx, exec'.stepIndex \in {s, s + 1},
             pending' + exec'.stepIndex <= pending + s
      PROVE  BusLag'
  <2>1. exec'.stepIndex \in Nat /\ exec'.stepIndex >= s
    BY <1>a, <1>d
  <2> QED
    BY <1>a, <1>b, <1>c, <1>d, <2>1, LagOfStep DEF BusLag
<1>e. ASSUME seqVars' = seqVars
      PROVE  SP!Running /\ exec' = exec /\ pending' = pending
  BY <1>e DEF seqVars, SP!Running
<1>1. CASE \/ ConfigureCall \/ InitCall \/ RegisterPendingCall \/ RegisterBusCall \/ RunCall
           \/ Wait \/ Interrupted \/ Quit \/ UNCHANGED vars
  <2>1. seqVars' = seqVars /\ tx' = tx /\ rx' = rx
    BY <1>1 DEF ConfigureCall, InitCall, RegisterPendingCall, RegisterBusCall, RunCall, Wait,
           Interrupted, Quit, vars, busVars
  <2>2. SP!Running /\ exec' = exec /\ pending' = pending
    BY <1>e, <2>1
  <2> QED
    BY <1>a, <1>b, <1>d, <2>1, <2>2
<1>2. CASE StartCall
  <2>1. tx' = tx /\ rx' = rx
    BY <1>2 DEF StartCall, busVars
  <2>2. CASE SP!Running
    <3>1. exec' = exec /\ pending' = pending
      BY <1>2, <2>2, AppAssumption DEF StartCall, SP!Running, Sequencer!StartSequence, seqVars
    <3> QED
      BY <1>a, <1>b, <1>d, <2>1, <2>2, <3>1
  <2>3. CASE ~SP!Running
    <3>1. Quiet
      <4>1. todo # <<>> /\ Head(todo)[1] = "startSequence" /\ todo \in Seq(TodoCalls)
        BY <1>2, <1>a DEF StartCall, Calling, CallsInv
      <4>2. 1 \in DOMAIN todo /\ Head(todo) = todo[1]
        BY <4>1
      <4>3. Head(todo) \in Range(todo)
        BY <4>2 DEF Range
      <4> QED
        BY <4>1, <4>3 DEF LagInv, QuietInv
    <3>2. tx' = <<>> /\ \A k \in DOMAIN rx' : rx'[k] = NoRequest
      BY <2>1, <3>1 DEF Quiet
    <3> QED
      BY <3>2, AppAssumption DEF BusLag, LagOK
  <2> QED
    BY <2>2, <2>3
<1>3. CASE SequencerEvent
  <2>a. rx' = rx
    BY <1>3 DEF SequencerEvent
  <2>b. SP!Running
    BY <1>3, AppAssumption
       DEF SequencerEvent, SP!Running, Sequencer!Running, Sequencer!IdleEvent, Sequencer!InitEvent,
           Sequencer!FinishEvent, Sequencer!RunStepEvent, Sequencer!StepDoneEvent
  <2>1. CASE Sequencer!IdleEvent \/ Sequencer!FinishEvent
    BY <2>1, <2>b, AppAssumption DEF Sequencer!IdleEvent, Sequencer!FinishEvent, SP!Running
  <2>2. CASE Sequencer!InitEvent /\ UNCHANGED tx
    <3>1. exec'.stepIndex = 0 /\ pending' = pending /\ s = 0
      BY <1>a, <2>b, <2>2 DEF Sequencer!InitEvent, Sequencer!Readied, SP!Executions,
         Sequencer!Reschedule, LagInv, IndexInv
    <3> QED
      BY <1>a, <1>b, <1>d, <2>a, <2>b, <2>2, <3>1
  <2>3. ASSUME NEW sent \in BOOLEAN, Sequencer!RunStepEvent(sent)
        PROVE  /\ exec'.stepIndex \in {s, s + 1} /\ pending' = pending - 1
               /\ exec'.stepIndex = Sequencer!NextIndex
    BY <1>a, <2>3 DEF Sequencer!RunStepEvent, Sequencer!Readied, Sequencer!NextIndex,
       SP!Executions, Sequencer!NoReschedule
  <2>4. CASE Sequencer!RunStepEvent(TRUE) /\ tx' = Append(tx, Sequencer!NextIndex)
    <3> DEFINE s2 == exec'.stepIndex
    <3>1. s2 \in {s, s + 1} /\ pending' = pending - 1 /\ tx' = Append(tx, s2)
      BY <2>3, <2>4
    <3>2. s2 \in Nat /\ s2 >= s /\ pending' + s2 <= pending + s /\ Surplus >= Surplus
      BY <1>a, <1>b, <3>1
    <3>3. LagOK(s2, pending', Surplus, rx, tx)
      BY <1>a, <1>b, <1>c, <2>b, <3>2, LagOfStep
    <3>4. Len(rx) + Len(tx) + pending' <= Surplus
      <4>1. /\ SP!Need + Waiting \in {0, 1} /\ Len(tx) \in Nat /\ Len(rx) \in Nat
            /\ Len(tx) + Len(rx) + pending <= Surplus + SP!Need + Waiting
            /\ SP!Need \in {0, 1} /\ Waiting \in {0, 1}
        BY <1>a, TypesHaveCore, FlightTypes DEF LagInv, FlightInv, FlightAccount, InFlight
      <4> QED
        BY <1>b, <3>1, <4>1
    <3>5. LagOK(s2, pending', Surplus, rx', tx')
      BY <1>a, <1>b, <2>a, <3>1, <3>2, <3>3, <3>4, LagOfSend
    <3>6. Surplus' = Surplus
      BY <1>3, <2>4 DEF SequencerEvent, Surplus, Sequencer!RunStepEvent
    <3> QED
      BY <3>5, <3>6 DEF BusLag
  <2>5. CASE Sequencer!RunStepEvent(FALSE) /\ UNCHANGED tx
    <3>1. exec'.stepIndex \in {s, s + 1} /\ pending' = pending - 1
      BY <2>3, <2>5
    <3> QED
      BY <1>a, <1>b, <1>d, <2>a, <2>b, <2>5, <3>1
  <2>6. CASE Sequencer!StepDoneEvent /\ UNCHANGED tx
    <3>1. exec'.stepIndex = s /\ pending' = pending
      BY <1>a, <2>6 DEF Sequencer!StepDoneEvent, Sequencer!ClearedStep, SP!Executions,
         Sequencer!Reschedule
    <3> QED
      BY <1>a, <1>b, <1>d, <2>a, <2>b, <2>6, <3>1
  <2> QED
    BY <1>3, <2>1, <2>2, <2>4, <2>5, <2>6 DEF SequencerEvent
<1>4. CASE BusEvent
  <2>1. rx # <<>> /\ rx' = Tail(rx) /\ tx' = tx /\ faults' = faults
    BY <1>4 DEF BusEvent
  <2>2. SP!Running /\ exec'.stepIndex = s /\ pending' <= pending + 1
    <3>1. CASE Sequencer!ProcessFrame(TRUE)
      BY <1>a, <1>b, <3>1 DEF Sequencer!ProcessFrame, Sequencer!Running, SP!Running, SP!Executions,
         Sequencer!ReadyToSchedule
    <3>2. CASE UNCHANGED <<curSeq, exec, pending>>
      BY <1>b, <3>2 DEF SP!Running
    <3> QED
      BY <1>4, <3>1, <3>2 DEF BusEvent, Sequencer!WildFrame, seqVars
  <2>3. LagOK(s, pending', Surplus, Tail(rx), tx)
    BY <1>a, <1>b, <1>c, <2>1, <2>2, LagOfRead
  <2> QED
    BY <2>1, <2>2, <2>3 DEF BusLag, Surplus
<1>5. CASE Answer
  <2>1. /\ tx # <<>> /\ rx' = Append(rx, Head(tx)) /\ tx' = Tail(tx)
        /\ SP!Running /\ exec' = exec /\ pending' = pending /\ faults' = faults
    BY <1>e, <1>5 DEF Answer
  <2>2. LagOK(s, pending, Surplus, Append(rx, Head(tx)), Tail(tx))
    BY <1>a, <1>b, <1>c, <2>1, LagOfAnswer
  <2> QED
    BY <2>1, <2>2 DEF BusLag, Surplus
<1>6. CASE BusFault
  <2>a. SP!Running /\ exec' = exec /\ pending' = pending
    BY <1>e, <1>6 DEF BusFault
  <2>1. CASE tx # <<>> /\ Fault("lose") /\ tx' = Tail(tx) /\ UNCHANGED rx
    <3>1. LagOK(s, pending, Surplus, rx, Tail(tx))
      BY <1>a, <1>b, <1>c, <2>a, <2>1, LagOfLoss
    <3>2. Surplus' = Surplus
      BY <1>a, <2>1, FaultTypes, FaultsAre DEF Surplus, TypeInv, RestTypes
    <3> QED
      BY <2>a, <2>1, <3>1, <3>2 DEF BusLag
  <2>2. CASE tx # <<>> /\ Fault("duplicate") /\ tx' = Tail(tx) /\ rx' = rx \o <<Head(tx), Head(tx)>>
    <3>1. LagOK(s, pending, Surplus + 1, rx \o <<Head(tx), Head(tx)>>, Tail(tx))
      BY <1>a, <1>b, <1>c, <2>a, <2>2, LagOfDuplicate
    <3>2. Surplus' = Surplus + 1
      BY <1>a, <2>2, TypesHaveCore, SurplusCounts
    <3> QED
      BY <2>a, <2>2, <3>1, <3>2 DEF BusLag
  <2>3. CASE Fault("stray") /\ rx' = Append(rx, NoRequest) /\ UNCHANGED tx
    <3>1. LagOK(s, pending, Surplus + 1, Append(rx, NoRequest), tx)
      BY <1>a, <1>b, <1>c, <2>a, <2>3, LagOfStray
    <3>2. Surplus' = Surplus + 1
      BY <1>a, <2>3, TypesHaveCore, SurplusCounts
    <3> QED
      BY <2>a, <2>3, <3>1, <3>2 DEF BusLag
  <2> QED
    BY <1>6, <2>1, <2>2, <2>3 DEF BusFault
<1> QED
  BY <1>1, <1>2, <1>3, <1>4, <1>5, <1>6 DEF Next, MainStep, LoopStep, Halted

(* More surplus frames only widen the bound.                                *)
LEMMA LagKept ==
  ASSUME NEW step \in Nat, NEW q \in Nat, NEW a \in Nat, NEW z \in Nat, NEW z2 \in Nat,
         Lag(step, q, a, z), z2 >= z
  PROVE  Lag(step, q, 0, z2)
  BY DEF Lag

(* An answer is recorded with the lag its frame had in the socket.          *)
LEMMA NextAnswersLag == LagInv /\ [Next]_vars => AnswersLag'
<1> SUFFICES ASSUME LagInv, [Next]_vars PROVE AnswersLag'
  OBVIOUS
<1>a. /\ rx \in Seq(Nat \cup {NoRequest}) /\ answers \in Seq(Nat \X (Nat \cup {NoRequest}))
      /\ TypeInv /\ exec.stepIndex \in Nat
  BY DEF LagInv, FlightInv, TypeInv, RestTypes, SP!TypeOK, SP!Executions
<1>b. Surplus \in Nat /\ Surplus' \in Nat /\ Surplus' >= Surplus /\ pending \in Nat
  BY <1>a, TypesHaveCore, FlightTypes, SurplusGrows
<1>c. ASSUME NEW i \in DOMAIN answers, NEW step \in Nat, NEW q \in Nat, answers[i] = <<step, q>>
      PROVE  Lag(step, q, 0, Surplus')
  <2>1. Lag(step, q, 0, Surplus)
    BY <1>c DEF LagInv, AnswersLag
  <2> QED
    BY <1>b, <2>1, LagKept
<1>1. CASE answers' = answers
  BY <1>1, <1>c DEF AnswersLag
<1>2. CASE answers' = <<>>
  BY <1>2 DEF AnswersLag
<1>3. CASE BusEvent /\ Sequencer!ProcessFrame(TRUE)
           /\ answers' = Append(answers, <<exec.stepIndex, Head(rx)>>)
  <2> DEFINE e == <<exec.stepIndex, Head(rx)>>
  <2>1. 1 \in DOMAIN rx /\ Head(rx) = rx[1] /\ Head(rx) \in Nat \cup {NoRequest}
    BY <1>3, <1>a DEF BusEvent
  <2>2. e \in Nat \X (Nat \cup {NoRequest})
    BY <1>a, <2>1
  <2> SUFFICES ASSUME NEW i \in DOMAIN answers', NEW step \in Nat, NEW q \in Nat,
                      answers'[i] = <<step, q>>
               PROVE  Lag(step, q, 0, Surplus')
    BY DEF AnswersLag
  <2>3. CASE i \in DOMAIN answers /\ answers'[i] = answers[i]
    BY <1>c, <2>3
  <2>4. CASE answers'[i] = e
    <3>1. step = exec.stepIndex /\ q = rx[1]
      BY <2>1, <2>4
    <3>2. SP!Running
      BY <1>3 DEF Sequencer!ProcessFrame, Sequencer!Running, SP!Running
    <3>3. Lag(step, q, 1 - 1 + pending, Surplus)
      BY <2>1, <3>1, <3>2 DEF LagInv, BusLag, LagOK
    <3>4. 1 - 1 + pending = pending
      BY <1>b
    <3> QED
      BY <1>b, <3>3, <3>4, LagKept
  <2> QED
    BY <1>3, <1>a, <2>2, <2>3, <2>4, Indices
<1>4. \/ answers' = answers
      \/ answers' = <<>>
      \/ BusEvent /\ Sequencer!ProcessFrame(TRUE)
           /\ answers' = Append(answers, <<exec.stepIndex, Head(rx)>>)
  <2>1. CASE BusEvent
    BY <2>1 DEF BusEvent
  <2>2. CASE StartCall
    BY <2>2 DEF StartCall
  <2>3. CASE ~BusEvent /\ ~StartCall
    BY <2>3 DEF Next, MainStep, LoopStep, Halted, vars, histVars, ConfigureCall, InitCall,
       RegisterPendingCall, RegisterBusCall, RunCall, Wait, Interrupted, Quit, SequencerEvent,
       Answer, BusFault
  <2> QED
    BY <2>1, <2>2, <2>3
<1> QED
  BY <1>1, <1>2, <1>3, <1>4

(* No frame and no answer exists at first.                                  *)
LEMMA InitLag == Init => LagInv
<1> SUFFICES ASSUME Init PROVE LagInv
  OBVIOUS
<1>1. /\ tx = <<>> /\ rx = <<>> /\ answers = <<>> /\ loop = "none" /\ exec.stepIndex = 0
      /\ ~SP!Running
  BY AppAssumption
     DEF Init, InitWith, Loop!Init, Sequencer!Init, Sequencer!FreshExec, SP!Running
<1>2. QuietInv /\ IndexInv /\ BusLag /\ AnswersLag
  BY <1>1 DEF QuietInv, Quiet, IndexInv, BusLag, AnswersLag
<1> QED
  BY <1>2, InitFlight DEF LagInv

(* The bound on the lag holds in every behaviour.                           *)
LEMMA AlwaysLag == Spec => []LagInv
<1>1. LagInv /\ [Next]_vars => LagInv'
  BY NextTypes, TypesHaveCore, NextWakeups, NextFlight, NextQuiet, NextIndexInv, NextBusLag, NextAnswersLag
     DEF LagInv, FlightInv
<1> QED
  BY <1>1, InitLag, PTL DEF Spec

(* A step is credited with the answer to its own request, or to an earlier  *)
(* one, by no more requests than frames turned up that answered nothing.    *)
THEOREM LagIsBounded == Spec => []LagBounded
<1>1. ASSUME LagInv PROVE LagBounded
  <2>1. /\ answers \in Seq(Nat \X (Nat \cup {NoRequest}))
        /\ Surplus \in Nat
    BY <1>1, TypesHaveCore, FlightTypes DEF LagInv, FlightInv, TypeInv, RestTypes
  <2> SUFFICES ASSUME NEW i \in DOMAIN answers, answers[i][2] # NoRequest
               PROVE  /\ answers[i][2] <= answers[i][1]
                      /\ answers[i][1] <= answers[i][2] + Surplus
    BY DEF LagBounded
  <2>2. PICK step \in Nat, q \in Nat : answers[i] = <<step, q>>
    BY <2>1
  <2>3. Lag(step, q, 0, Surplus)
    BY <1>1, <2>2 DEF LagInv, AnswersLag
  <2>4. q <= step /\ step <= q + Surplus
    BY <2>1, <2>3 DEF Lag
  <2> QED
    BY <2>2, <2>4
<1> QED
  BY <1>1, AlwaysLag, PTL
====
