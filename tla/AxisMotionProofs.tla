-------------------------- MODULE AxisMotionProofs --------------------------
(***************************************************************************)
(* Theorems about AxisMotion, for every way to run the loop, every         *)
(* increment an int can hold and any number of faults, those of the        *)
(* startup included.                                                       *)
(*                                                                         *)
(* The seven orders of a move have a place each in the order they were     *)
(* meant in.  The controller gets them in ascending places, whatever fails *)
(* and whatever call is refused; the properties follow from which places   *)
(* can be missing.                                                         *)
(***************************************************************************)
EXTENDS AxisMotion, UIM342AnswersProofs, SequenceTheorems

-----------------------------------------------------------------------------
(* The calls still to be made, from the last one backwards.                 *)

Then(call, rest) == <<call>> \o rest

MotionCall ==
  ({"configure", "init", "register", "startSequence", "run"}
     \X (SeqIDs \cup {"up", "down", "pending", "bus", "loop"}))
    \cup ({"setValue"} \X {"increment", "speed", "md_enable"} \X (Ints \cup {"on", "off"}))

StartThen(i, rest)      == Then(<<"startSequence", Command[i]>>, rest)
SetThen(id, value, rest) == Then(<<"setValue", id, value>>, rest)
RunThen(i, plan, rest)  == IF i \in plan THEN Then(<<"run", "loop">>, rest) ELSE rest

Started4(plan) == RunThen(4, plan, <<>>)
ToStart4(plan) == StartThen(4, Started4(plan))
ToSetOff(plan) == SetThen("md_enable", "off", ToStart4(plan))
Started3(plan) == RunThen(3, plan, ToSetOff(plan))
ToStart3(plan) == StartThen(3, Started3(plan))
Started2(plan) == RunThen(2, plan, ToStart3(plan))
ToStart2(plan) == StartThen(2, Started2(plan))
Started1(plan) == RunThen(1, plan, ToStart2(plan))
ToStart1(plan) == StartThen(1, Started1(plan))
ToSetOn(plan)  == SetThen("md_enable", "on", ToStart1(plan))
ToSetSpeed(plan) == SetThen("speed", 1000, ToSetOn(plan))
ToSetIncrement(plan) == SetThen("increment", increment, ToSetSpeed(plan))
ToRegisterBus(plan) == Then(<<"register", "bus">>, ToSetIncrement(plan))
ToRegisterPending(plan) == Then(<<"register", "pending">>, ToRegisterBus(plan))
ToInit(plan) == Then(<<"init", "loop">>, ToRegisterPending(plan))
ToConfigureUp(plan) == Then(<<"configure", "up">>, ToInit(plan))
ToConfigureDown(plan) == Then(<<"configure", "down">>, ToConfigureUp(plan))

\* Whether a parameter is set to a value.
Has(p, id, value) == id \in DOMAIN p /\ p[id] = value

(* Phases of the command: before its first start, after each of the four    *)
(* starts, and (5) between the change of md_enable and the last start.      *)
At(phase, plan) ==
  CASE phase = 0 -> \/ todo \in {ToConfigureDown(plan), ToConfigureUp(plan), ToInit(plan),
                                 ToRegisterPending(plan), ToRegisterBus(plan),
                                 ToSetIncrement(plan)}
                    \/ todo = ToSetSpeed(plan) /\ Has(params, "increment", increment)
                    \/ /\ todo = ToSetOn(plan)
                       /\ Has(params, "increment", increment)
                       /\ Has(params, "speed", 1000)
    [] phase = 1 -> todo = ToStart1(plan)
    [] phase = 2 -> todo \in {Started1(plan), ToStart2(plan)}
    [] phase = 3 -> todo \in {Started2(plan), ToStart3(plan)}
    [] phase = 4 -> todo \in {Started3(plan), ToSetOff(plan)}
    [] phase = 5 -> todo = ToStart4(plan)
    [] phase = 6 -> todo \in {Started4(plan), <<>>}

Phases == 0..6

\* The calls of startSequence made, and the last place of the sequences they
\* ask for.
Starts(phase) == <<0, 0, 1, 2, 3, 3, 4>>[phase + 1]
Top(phase)    == <<0, 0, 1, 3, 6, 6, 7>>[phase + 1]

-----------------------------------------------------------------------------
(* The places of the orders.                                                *)

Place(order) ==
  CASE order.cmd = MDEnable     -> IF order.asked = 1 THEN 1 ELSE 7
    [] order.cmd = SetPosition  -> 2
    [] order.cmd = SetSpeed     -> 3
    [] order.cmd = BeginMotion  -> 4
    [] order.cmd = ReadPosition -> 5
    [] order.cmd = StopMotion   -> 6

\* The place of the first order of the current sequence.
BaseOf(seq, asked) ==
  CASE seq = "mdEnable"    -> IF IsSetOn(asked, "md_enable") THEN 1 ELSE 7
    [] seq = "setupMotion" -> 2
    [] seq = "execMotion"  -> 4

Base == BaseOf(curSeq, wanted)

Done    == {Place(e.order) : e \in executed}
UnderWay == {Place(orders[i]) : i \in DOMAIN orders}
Sent    == Done \cup UnderWay

\* The last place a step can have been sent from.
LastPlace(phase) ==
  IF SP!Running
    THEN IF started = <<>> THEN Base - 1 ELSE Base + exec.stepIndex
    ELSE Top(phase)

-----------------------------------------------------------------------------
(* The inductive invariant.                                                 *)

Commands == {MDEnable, SetPosition, SetSpeed, BeginMotion, ReadPosition, StopMotion}
Orders   == [cmd: Commands, data: Int, asked: Int]
Motors   == [driver: BOOLEAN, target: Int, speed: Int, moving: BOOLEAN]

MotionTypes ==
  /\ increment \in Increments
  /\ orders \in Seq(Orders)
  /\ Len(orders) = Len(tx)
  /\ motor \in Motors
  /\ executed \subseteq [order: Orders, motor: Motors]

ProgramInv ==
  /\ FlightAccount
  /\ SP!WakeupInv
  /\ SP!OrderInv
  /\ rejected = 0
  /\ Surplus = 0 => unsolicited = 0

\* What the parameters are, now and when the current sequence was started.
ParamsInv(phase) ==
  /\ phase >= 1 =>
       /\ Has(params, "increment", increment)
       /\ Has(params, "speed", 1000)
       /\ IsSetOn(params, "md_enable") <=> phase <= 4
  /\ SP!Running => Has(wanted, "increment", increment) /\ Has(wanted, "speed", 1000)

\* Which starts were accepted.
StartsInv(phase) ==
  /\ SP!Running => /\ curSeq \in {"mdEnable", "setupMotion", "execMotion"}
                   /\ Base + StepCount[curSeq] <= Top(phase) + 1
  /\ allocs <= Starts(phase)
  /\ refusals = {} /\ ~crashed => allocs = Starts(phase)
  /\ allocs = Starts(phase) /\ SP!Running => Base + StepCount[curSeq] = Top(phase) + 1
  /\ Len(completed) + (IF SP!Running THEN 1 ELSE 0) = allocs

OrderOK(o) ==
  /\ o.cmd = SetPosition => o.data = Word(increment)
  /\ o.cmd = SetSpeed => o.data = Word(1000)
  /\ o.cmd = MDEnable => o.data \in {0, 1} /\ o.asked \in {0, 1}
  /\ o.cmd = MDEnable /\ o.asked = 0 => o.data = 0
  /\ o.data # o.asked => refusals # {}

PlacesInv(phase) ==
  /\ \A i, j \in DOMAIN orders : i < j => Place(orders[i]) < Place(orders[j])
  /\ \A i \in DOMAIN orders : OrderOK(orders[i])
  /\ \A e \in executed : OrderOK(e.order)
  /\ \A r \in Done, q \in UnderWay : r < q
  /\ \A r \in Sent : r <= LastPlace(phase)
  /\ Sent # {} => CanSend

\* The third sequence has sent something.
Moved == Sent \cap 4..6 # {}

(* Without frames that answer nothing a step is over only when its order    *)
(* has been executed.                                                       *)
Answered(phase) ==
  IF SP!Running
    THEN Base + (IF started = <<>> THEN 0
                 ELSE IF SP!Blocked THEN exec.stepIndex ELSE exec.stepIndex + 1)
    ELSE Top(phase) + 1

Lockstep(phase) ==
  Surplus = 0 =>
    /\ orders # <<>> =>
         SP!Running /\ started # <<>> /\ Place(orders[1]) = Base + exec.stepIndex
    /\ rx # <<>> => Base + exec.stepIndex \in Done
    /\ \A r \in 1..7 :
         /\ r < Answered(phase)
         /\ \/ allocs = Starts(phase)
            \/ r \in 4..6 /\ Moved
            \/ SP!Running /\ r >= Base
         => r \in Done

(* Without losses every step that was started has sent its order; only the  *)
(* first of a sequence may not have been started.                           *)
Tried(phase) == IF SP!Running THEN Base + exec.stepIndex + 1 ELSE Top(phase) + 1

NothingLost(phase) ==
  Unheard = 0 /\ CanSend =>
    /\ 3 < Tried(phase) /\ allocs = Starts(phase) => 3 \in Sent
    /\ 6 < Tried(phase) /\ Moved => 6 \in Sent

\* What the orders executed have made of the motor.
MotorInv ==
  /\ 1 \in Done /\ 7 \notin Done /\ refusals = {} => motor.driver
  /\ 2 \in Done => motor.target = increment
  /\ 3 \in Done => motor.speed = 1000
  /\ motor.moving => 4 \in Done /\ 6 \notin Done /\ 7 \notin Done
  /\ 7 \in Done => ~motor.driver

PhaseInv(phase) ==
  /\ ParamsInv(phase)
  /\ StartsInv(phase)
  /\ PlacesInv(phase)
  /\ Lockstep(phase)
  /\ NothingLost(phase)

MoveInv ==
  /\ MotionTypes
  /\ MotorInv
  /\ MotionPrepared
  /\ StoppedBeforeOff
  /\ \E phase \in Phases, plan \in RunPlans : At(phase, plan) /\ PhaseInv(phase)

MotionInv == CoreInv /\ ProgramInv /\ MoveInv

-----------------------------------------------------------------------------
(* Numbers and parameters.                                                  *)

(* The controller gets back the int that was sent.                          *)
LEMMA WordsKeepInts ==
  ASSUME NEW n \in Ints
  PROVE  Word(n) \in Nat /\ Signed(Word(n)) = n
  BY MotionAssumption DEF Signed, Word, Ints

(* What setting a parameter does to the others.                             *)
LEMMA SetValues ==
  ASSUME NEW p, NEW id, NEW value
  PROVE  /\ Has(SetValue(p, id, value), id, value)
         /\ SetValue(p, id, value)[id] = value
         /\ \A j, v : j # id => (Has(SetValue(p, id, value), j, v) <=> Has(p, j, v))
  BY DEF SetValue, Has

-----------------------------------------------------------------------------
(* The calls.                                                               *)

(* The program's ints.                                                      *)
LEMMA IntsAre == 1000 \in Ints /\ Increments \subseteq Ints
  BY MotionAssumption

(* The command starts four sequences.                                       *)
LEMMA CommandIs ==
  /\ Command = <<"mdEnable", "setupMotion", "execMotion", "mdEnable">>
  /\ DOMAIN Command = 1..4
  /\ Command[1] = "mdEnable" /\ Command[2] = "setupMotion"
  /\ Command[3] = "execMotion" /\ Command[4] = "mdEnable"
  BY MotionAssumption DEF Command

(* Taking the first of the calls.                                           *)
LEMMA ThenTaken ==
  ASSUME NEW S, NEW c \in S, NEW rest \in Seq(S)
  PROVE  /\ Then(c, rest) \in Seq(S)
         /\ Then(c, rest) # <<>>
         /\ Head(Then(c, rest)) = c
         /\ Tail(Then(c, rest)) = rest
<1>1. <<c>> \in Seq(S) /\ Len(<<c>>) = 1 /\ Len(rest) \in Nat
  OBVIOUS
<1>2. /\ <<c>> \o rest \in Seq(S)
      /\ Len(<<c>> \o rest) = 1 + Len(rest)
      /\ \A i \in 1..(1 + Len(rest)) :
           (<<c>> \o rest)[i] = IF i <= 1 THEN <<c>>[i] ELSE rest[i - 1]
  BY <1>1, ConcatProperties
<1>3. <<c>> \o rest # <<>> /\ Head(<<c>> \o rest) = c
  BY <1>1, <1>2
<1>4. /\ Tail(<<c>> \o rest) \in Seq(S) /\ Len(Tail(<<c>> \o rest)) = Len(rest)
      /\ \A i \in 1..Len(rest) : Tail(<<c>> \o rest)[i] = (<<c>> \o rest)[i + 1]
  BY <1>1, <1>2, <1>3, HeadTailProperties
<1>5. \A i \in 1..Len(rest) : Tail(<<c>> \o rest)[i] = rest[i]
  BY <1>1, <1>2, <1>4
<1>6. Tail(<<c>> \o rest) = rest
  BY <1>4, <1>5, SeqEqual
<1> QED
  BY <1>2, <1>3, <1>6 DEF Then

(* A call that is made on condition.                                        *)
LEMMA RunThenTaken ==
  ASSUME NEW i, NEW plan, NEW rest \in Seq(MotionCall)
  PROVE  /\ RunThen(i, plan, rest) \in Seq(MotionCall)
         /\ \/ RunThen(i, plan, rest) = rest
            \/ /\ RunThen(i, plan, rest) # <<>>
               /\ Head(RunThen(i, plan, rest)) = <<"run", "loop">>
               /\ Tail(RunThen(i, plan, rest)) = rest
<1>1. <<"run", "loop">> \in MotionCall
  BY DEF MotionCall
<1> QED
  BY <1>1, ThenTaken DEF RunThen

Takes(calls, call, rest) ==
  calls \in Seq(MotionCall) /\ calls # <<>> /\ Head(calls) = call /\ Tail(calls) = rest

(* How each list of calls begins.                                           *)
LEMMA ChainTaken ==
  ASSUME NEW plan, increment \in Increments
  PROVE  /\ Started4(plan) \in Seq(MotionCall)
         /\ Started3(plan) \in Seq(MotionCall)
         /\ Started2(plan) \in Seq(MotionCall)
         /\ Started1(plan) \in Seq(MotionCall)
         /\ Takes(ToStart4(plan), <<"startSequence", Command[4]>>, Started4(plan))
         /\ Takes(ToSetOff(plan), <<"setValue", "md_enable", "off">>, ToStart4(plan))
         /\ Takes(ToStart3(plan), <<"startSequence", Command[3]>>, Started3(plan))
         /\ Takes(ToStart2(plan), <<"startSequence", Command[2]>>, Started2(plan))
         /\ Takes(ToStart1(plan), <<"startSequence", Command[1]>>, Started1(plan))
         /\ Takes(ToSetOn(plan), <<"setValue", "md_enable", "on">>, ToStart1(plan))
         /\ Takes(ToSetSpeed(plan), <<"setValue", "speed", 1000>>, ToSetOn(plan))
         /\ Takes(ToSetIncrement(plan), <<"setValue", "increment", increment>>, ToSetSpeed(plan))
         /\ Takes(ToRegisterBus(plan), <<"register", "bus">>, ToSetIncrement(plan))
         /\ Takes(ToRegisterPending(plan), <<"register", "pending">>, ToRegisterBus(plan))
         /\ Takes(ToInit(plan), <<"init", "loop">>, ToRegisterPending(plan))
         /\ Takes(ToConfigureUp(plan), <<"configure", "up">>, ToInit(plan))
         /\ Takes(ToConfigureDown(plan), <<"configure", "down">>, ToConfigureUp(plan))
<1>1. \A i \in 1..4 : <<"startSequence", Command[i]>> \in MotionCall
  BY CommandIs, AppAssumption DEF MotionCall
<1>2. /\ <<"setValue", "md_enable", "off">> \in MotionCall
      /\ <<"setValue", "md_enable", "on">> \in MotionCall
      /\ <<"setValue", "speed", 1000>> \in MotionCall
      /\ <<"setValue", "increment", increment>> \in MotionCall
  BY IntsAre DEF MotionCall
<1>3. /\ <<"register", "bus">> \in MotionCall /\ <<"register", "pending">> \in MotionCall
      /\ <<"init", "loop">> \in MotionCall
      /\ <<"configure", "up">> \in MotionCall /\ <<"configure", "down">> \in MotionCall
  BY DEF MotionCall
<1>4. ASSUME NEW c \in MotionCall, NEW rest \in Seq(MotionCall)
      PROVE  Takes(Then(c, rest), c, rest) /\ Then(c, rest) \in Seq(MotionCall)
  BY ThenTaken DEF Takes
<1>5. <<>> \in Seq(MotionCall)
  OBVIOUS
<1>a. \A calls, c, rest : Takes(calls, c, rest) => calls \in Seq(MotionCall)
  BY DEF Takes
<1>6. Started4(plan) \in Seq(MotionCall)
  BY <1>5, RunThenTaken DEF Started4
<1>7. Takes(ToStart4(plan), <<"startSequence", Command[4]>>, Started4(plan))
  BY <1>1, <1>4, <1>6 DEF ToStart4, StartThen
<1>8. Takes(ToSetOff(plan), <<"setValue", "md_enable", "off">>, ToStart4(plan))
  BY <1>a, <1>2, <1>4, <1>7 DEF ToSetOff, SetThen
<1>9. Started3(plan) \in Seq(MotionCall)
  BY <1>a, <1>8, RunThenTaken DEF Started3
<1>10. Takes(ToStart3(plan), <<"startSequence", Command[3]>>, Started3(plan))
  BY <1>1, <1>4, <1>9 DEF ToStart3, StartThen
<1>11. Started2(plan) \in Seq(MotionCall)
  BY <1>a, <1>10, RunThenTaken DEF Started2
<1>12. Takes(ToStart2(plan), <<"startSequence", Command[2]>>, Started2(plan))
  BY <1>1, <1>4, <1>11 DEF ToStart2, StartThen
<1>13. Started1(plan) \in Seq(MotionCall)
  BY <1>a, <1>12, RunThenTaken DEF Started1
<1>14. Takes(ToStart1(plan), <<"startSequence", Command[1]>>, Started1(plan))
  BY <1>1, <1>4, <1>13 DEF ToStart1, StartThen
<1>15. Takes(ToSetOn(plan), <<"setValue", "md_enable", "on">>, ToStart1(plan))
  BY <1>a, <1>2, <1>4, <1>14 DEF ToSetOn, SetThen
<1>16. Takes(ToSetSpeed(plan), <<"setValue", "speed", 1000>>, ToSetOn(plan))
  BY <1>a, <1>2, <1>4, <1>15 DEF ToSetSpeed, SetThen
<1>17. Takes(ToSetIncrement(plan), <<"setValue", "increment", increment>>, ToSetSpeed(plan))
  BY <1>a, <1>2, <1>4, <1>16 DEF ToSetIncrement, SetThen
<1>18. Takes(ToRegisterBus(plan), <<"register", "bus">>, ToSetIncrement(plan))
  BY <1>a, <1>3, <1>4, <1>17 DEF ToRegisterBus
<1>19. Takes(ToRegisterPending(plan), <<"register", "pending">>, ToRegisterBus(plan))
  BY <1>a, <1>3, <1>4, <1>18 DEF ToRegisterPending
<1>20. Takes(ToInit(plan), <<"init", "loop">>, ToRegisterPending(plan))
  BY <1>a, <1>3, <1>4, <1>19 DEF ToInit
<1>21. Takes(ToConfigureUp(plan), <<"configure", "up">>, ToInit(plan))
  BY <1>a, <1>3, <1>4, <1>20 DEF ToConfigureUp
<1>22. Takes(ToConfigureDown(plan), <<"configure", "down">>, ToConfigureUp(plan))
  BY <1>a, <1>3, <1>4, <1>21 DEF ToConfigureDown
<1> QED
  BY <1>6, <1>7, <1>8, <1>9, <1>10, <1>11, <1>12, <1>13, <1>14, <1>15, <1>16, <1>17, <1>18,
     <1>19, <1>20, <1>21, <1>22

Associates(S) == \A x, y, z \in Seq(S) : (x \o y) \o z = x \o (y \o z)

(* Concatenation is associative.                                            *)
LEMMA AssociatesAll ==
  ASSUME NEW S
  PROVE  Associates(S)
<1> SUFFICES ASSUME NEW x \in Seq(S), NEW y \in Seq(S), NEW z \in Seq(S)
             PROVE  (x \o y) \o z = x \o (y \o z)
  BY Zenon DEF Associates
<1> QED
  BY ConcatAssociative

Regrouped3(a, b, c) == (a \o b) \o c = a \o (b \o c)

(* The brackets of three sequences.                                         *)
LEMMA Joined3 ==
  ASSUME NEW S, NEW a \in Seq(S), NEW b \in Seq(S), NEW c \in Seq(S)
  PROVE  Regrouped3(a, b, c)
BY ConcatAssociative DEF Regrouped3

Regrouped(a, b, c, d, e, f, g, h) ==
  ((((a \o b) \o (c \o d)) \o e) \o f) \o (g \o h)
    = a \o (b \o (c \o (d \o (e \o (f \o (g \o h))))))

(* The brackets of eight sequences, from the left to the right.             *)
LEMMA Joined ==
  ASSUME NEW S, NEW a \in Seq(S), NEW b \in Seq(S), NEW c \in Seq(S), NEW d \in Seq(S),
         NEW e \in Seq(S), NEW f \in Seq(S), NEW g \in Seq(S), NEW h \in Seq(S)
  PROVE  Regrouped(a, b, c, d, e, f, g, h)
<1> DEFINE Join(x, y, z) == (x \o y) \o z = x \o (y \o z)
<1>0. Associates(S)
  BY AssociatesAll
<1>1. \A x, y, z \in Seq(S) : Join(x, y, z)
  BY <1>0, Zenon DEF Associates
<1> HIDE DEF Join
<1> DEFINE ab == a \o b
           cd == c \o d
           p4 == ab \o cd
           p5 == p4 \o e
           q2 == g \o h
           q3 == f \o q2
           q4 == e \o q3
           q5 == d \o q4
           q6 == c \o q5
<1>2. /\ ab \in Seq(S) /\ cd \in Seq(S) /\ p4 \in Seq(S) /\ p5 \in Seq(S)
      /\ q2 \in Seq(S) /\ q3 \in Seq(S) /\ q4 \in Seq(S) /\ q5 \in Seq(S) /\ q6 \in Seq(S)
  OBVIOUS
<1>3. Join(p5, f, q2) /\ Join(p4, e, q3) /\ Join(ab, cd, q4) /\ Join(c, d, q4) /\ Join(a, b, q6)
  <2> HIDE DEF ab, cd, p4, p5, q2, q3, q4, q5, q6
  <2> QED
    BY <1>1, <1>2
<1> QED
  BY <1>3, Zenon DEF Join, Regrouped

(* Lists of calls in brackets, call by call.                                *)
LEMMA PairIsThen ==
  ASSUME NEW S, NEW a \in S, NEW b \in S, NEW rest \in Seq(S)
  PROVE  <<a, b>> \o rest = Then(a, Then(b, rest))
<1>1. <<a>> \in Seq(S) /\ <<b>> \in Seq(S)
  OBVIOUS
<1>2. <<a, b>> = <<a>> \o <<b>>
  <2>1. /\ <<a>> \o <<b>> \in Seq(S) /\ Len(<<a>> \o <<b>>) = 2
        /\ <<a, b>> \in Seq(S) /\ Len(<<a, b>>) = 2
    OBVIOUS
  <2>2. \A i \in 1..2 : (<<a>> \o <<b>>)[i] = <<a, b>>[i]
    OBVIOUS
  <2> QED
    BY <2>1, <2>2, SeqEqual
<1>3. (<<a>> \o <<b>>) \o rest = <<a>> \o (<<b>> \o rest)
  BY <1>1, ConcatAssociative
<1> QED
  BY <1>2, <1>3, Zenon DEF Then

ThreeThen(a, b, c, rest) == <<a, b, c>> \o rest = Then(a, Then(b, Then(c, rest)))

FourThen(a, b, c, d, rest) ==
  <<a, b, c, d>> \o rest = Then(a, Then(b, Then(c, Then(d, rest))))

(* Three of them.                                                           *)
LEMMA TripleIsThen ==
  ASSUME NEW S, NEW a \in S, NEW b \in S, NEW c \in S, NEW rest \in Seq(S)
  PROVE  ThreeThen(a, b, c, rest)
<1>1. <<a>> \in Seq(S) /\ <<b, c>> \in Seq(S)
  OBVIOUS
<1>2. <<a, b, c>> = <<a>> \o <<b, c>>
  OBVIOUS
<1>3. (<<a>> \o <<b, c>>) \o rest = <<a>> \o (<<b, c>> \o rest)
  BY <1>1, ConcatAssociative
<1>4. <<b, c>> \o rest = Then(b, Then(c, rest))
  BY PairIsThen
<1> QED
  BY <1>2, <1>3, <1>4, Zenon DEF Then, ThreeThen

(* Four of them.                                                            *)
LEMMA FourIsThen ==
  ASSUME NEW S, NEW a \in S, NEW b \in S, NEW c \in S, NEW d \in S, NEW rest \in Seq(S)
  PROVE  FourThen(a, b, c, d, rest)
<1>1. <<a>> \in Seq(S) /\ <<b, c, d>> \in Seq(S) /\ <<a, b, c, d>> \in Seq(S)
  OBVIOUS
<1>2. <<a, b, c, d>> = <<a>> \o <<b, c, d>>
  <2>1. <<a>> \o <<b, c, d>> \in Seq(S) /\ Len(<<a>> \o <<b, c, d>>) = 4
    OBVIOUS
  <2>2. Len(<<a, b, c, d>>) = 4
    OBVIOUS
  <2>3. \A i \in 1..4 : (<<a>> \o <<b, c, d>>)[i] = IF i <= 1 THEN <<a>>[i] ELSE <<b, c, d>>[i - 1]
    OBVIOUS
  <2>4. \A i \in 1..4 : (<<a>> \o <<b, c, d>>)[i] = <<a, b, c, d>>[i]
    BY <2>3
  <2> QED
    BY <1>1, <2>1, <2>2, <2>4, SeqEqual
<1>3. (<<a>> \o <<b, c, d>>) \o rest = <<a>> \o (<<b, c, d>> \o rest)
  BY <1>1, ConcatAssociative
<1>4. <<b, c, d>> \o rest = Then(b, Then(c, Then(d, rest)))
  BY TripleIsThen DEF ThreeThen
<1> QED
  BY <1>2, <1>3, <1>4, Zenon DEF Then, FourThen

Start(i, plan) == Starting(i) \o (IF i \in plan THEN <<<<"run", "loop">>>> ELSE <<>>)

(* A start and the run of the loop behind it, if there is one.              *)
LEMMA StartJoins ==
  ASSUME NEW i \in 1..4, NEW plan, NEW rest \in Seq(MotionCall)
  PROVE  /\ Start(i, plan) \in Seq(MotionCall)
         /\ Start(i, plan) \o rest = StartThen(i, RunThen(i, plan, rest))
<1> DEFINE start == <<"startSequence", Command[i]>>
           run   == <<"run", "loop">>
<1>1. start \in MotionCall /\ run \in MotionCall
  BY CommandIs, AppAssumption DEF MotionCall
<1> HIDE DEF start, run
<1>2. /\ <<start>> \in Seq(MotionCall) /\ <<run>> \in Seq(MotionCall) /\ <<>> \in Seq(MotionCall)
      /\ <<start>> \o <<run>> \in Seq(MotionCall) /\ <<start>> \o <<>> \in Seq(MotionCall)
  BY <1>1
<1>3. CASE i \in plan
  <2>1. Start(i, plan) = <<start>> \o <<run>>
    BY <1>3 DEF Start, Starting, start, run
  <2>2. (<<start>> \o <<run>>) \o rest = <<start>> \o (<<run>> \o rest)
    BY <1>2, ConcatAssociative
  <2> QED
    BY <1>2, <1>3, <2>1, <2>2 DEF StartThen, RunThen, Then, start, run
<1>4. CASE i \notin plan
  <2>1. Start(i, plan) = <<start>> \o <<>>
    BY <1>4 DEF Start, Starting, start
  <2>2. <<start>> \o <<>> = <<start>>
    BY <1>2, ConcatEmptySeq
  <2> QED
    BY <1>2, <1>4, <2>1, <2>2 DEF StartThen, RunThen, Then, start
<1> QED
  BY <1>3, <1>4

(* The calls of a move are the first list of the chain.                     *)
LEMMA MotionCallsChained ==
  ASSUME NEW plan, increment \in Increments
  PROVE  WithRuns(MotionCalls(increment), plan) = ToConfigureDown(plan)
<1> DEFINE conf == <<<<"configure", "down">>, <<"configure", "up">>,
                     <<"init", "loop">>, <<"register", "pending">>>>
           bus  == <<<<"register", "bus">>>>
           sets == <<<<"setValue", "increment", increment>>, <<"setValue", "speed", 1000>>,
                     <<"setValue", "md_enable", "on">>>>
           off  == <<<<"setValue", "md_enable", "off">>>>
           s1   == Start(1, plan)
           s2   == Start(2, plan)
           s3   == Start(3, plan)
           s4   == Start(4, plan)
<1>1. /\ conf \in Seq(MotionCall) /\ bus \in Seq(MotionCall)
      /\ sets \in Seq(MotionCall) /\ off \in Seq(MotionCall)
  BY IntsAre DEF MotionCall
<1>0. \A i \in 1..4 :
         /\ Start(i, plan) \in Seq(MotionCall)
         /\ \A rest \in Seq(MotionCall) :
              Start(i, plan) \o rest = StartThen(i, RunThen(i, plan, rest))
  <2> SUFFICES ASSUME NEW i \in 1..4
               PROVE  /\ Start(i, plan) \in Seq(MotionCall)
                      /\ \A rest \in Seq(MotionCall) :
                           Start(i, plan) \o rest = StartThen(i, RunThen(i, plan, rest))
    OBVIOUS
  <2>1. <<>> \in Seq(MotionCall)
    OBVIOUS
  <2> QED
    BY <2>1, StartJoins
<1>2. /\ s1 \in Seq(MotionCall) /\ s2 \in Seq(MotionCall)
      /\ s3 \in Seq(MotionCall) /\ s4 \in Seq(MotionCall)
  BY <1>0
<1>3. Startup = conf \o bus
  <2>1. [i \in DOMAIN Registered |-> <<"register", Registered[i]>>] = bus
    BY WiredAssumption
  <2> QED
    BY <2>1 DEF Startup
<1>4. WithRuns(MotionCalls(increment), plan)
        = ((((conf \o bus) \o (sets \o s1)) \o s2) \o s3) \o (off \o s4)
  <2> DEFINE run(k) == IF k \in plan THEN <<<<"run", "loop">>>> ELSE <<>>
             calls  == MotionCalls(increment)
  <2>1. /\ calls[1] = SettingsOn(increment) \o Starting(1)
        /\ calls[2] = Starting(2)
        /\ calls[3] = Starting(3)
        /\ calls[4] = SettingsOff \o Starting(4)
    BY DEF MotionCalls
  <2>2. SettingsOn(increment) = sets /\ SettingsOff = off
    BY Zenon DEF SettingsOn, SettingsOff
  <2>3. \A k : Start(k, plan) = Starting(k) \o run(k)
    BY Zenon DEF Start
  <2>4. /\ Starting(1) \in Seq(MotionCall) /\ run(1) \in Seq(MotionCall)
        /\ Starting(4) \in Seq(MotionCall) /\ run(4) \in Seq(MotionCall)
    <3>1. /\ <<"startSequence", Command[1]>> \in MotionCall
          /\ <<"startSequence", Command[4]>> \in MotionCall
          /\ <<"run", "loop">> \in MotionCall
      BY CommandIs, AppAssumption DEF MotionCall
    <3> QED
      BY <3>1 DEF Starting
  <2>5. WithRuns(calls, plan)
          = (((Startup \o (calls[1] \o run(1))) \o (calls[2] \o run(2)))
               \o (calls[3] \o run(3))) \o (calls[4] \o run(4))
    BY Zenon DEF WithRuns
  <2> DEFINE t1 == Starting(1)
             t4 == Starting(4)
             r1 == run(1)
             r4 == run(4)
  <2>6. (sets \o t1) \o r1 = sets \o (t1 \o r1) /\ (off \o t4) \o r4 = off \o (t4 \o r4)
    <3>1. /\ sets \in Seq(MotionCall) /\ t1 \in Seq(MotionCall) /\ r1 \in Seq(MotionCall)
          /\ off \in Seq(MotionCall) /\ t4 \in Seq(MotionCall) /\ r4 \in Seq(MotionCall)
      BY <1>1, <2>4, Zenon
    <3>2. Regrouped3(sets, t1, r1) /\ Regrouped3(off, t4, r4)
      <4> HIDE DEF sets, off, t1, t4, r1, r4
      <4> QED
        BY <3>1, Joined3
    <3> HIDE DEF sets, off, t1, t4, r1, r4
    <3> QED
      BY <3>2, Zenon DEF Regrouped3
  <2> HIDE DEF calls, run, sets, off, conf, bus
  <2> QED
    BY <1>3, <2>1, <2>2, <2>3, <2>5, <2>6, Zenon DEF calls, t1, t4, r1, r4
<1>5. s4 = ToStart4(plan)
  <2>1. <<>> \in Seq(MotionCall) /\ s4 \o <<>> = s4
    BY <1>2, ConcatEmptySeq
  <2> QED
    BY <1>0, <2>1, 4 \in 1..4, Zenon DEF ToStart4, Started4
<1>6. /\ ToSetOff(plan) \in Seq(MotionCall) /\ ToStart4(plan) \in Seq(MotionCall)
      /\ ToStart3(plan) \in Seq(MotionCall) /\ ToStart2(plan) \in Seq(MotionCall)
      /\ ToStart1(plan) \in Seq(MotionCall) /\ ToSetIncrement(plan) \in Seq(MotionCall)
      /\ ToRegisterBus(plan) \in Seq(MotionCall)
  BY ChainTaken DEF Takes
<1>7. off \o ToStart4(plan) = ToSetOff(plan)
  BY DEF ToSetOff, SetThen, Then
<1>8. /\ s3 \o ToSetOff(plan) = ToStart3(plan)
      /\ s2 \o ToStart3(plan) = ToStart2(plan)
      /\ s1 \o ToStart2(plan) = ToStart1(plan)
  <2>1. s3 \o ToSetOff(plan) = ToStart3(plan)
    BY <1>0, <1>6, 3 \in 1..4, Zenon DEF ToStart3, Started3
  <2>2. s2 \o ToStart3(plan) = ToStart2(plan)
    BY <1>0, <1>6, 2 \in 1..4, Zenon DEF ToStart2, Started2
  <2>3. s1 \o ToStart2(plan) = ToStart1(plan)
    BY <1>0, <1>6, 1 \in 1..4, Zenon DEF ToStart1, Started1
  <2> QED
    BY <2>1, <2>2, <2>3
<1>9. sets \o ToStart1(plan) = ToSetIncrement(plan)
  <2>1. /\ <<"setValue", "increment", increment>> \in MotionCall
        /\ <<"setValue", "speed", 1000>> \in MotionCall
        /\ <<"setValue", "md_enable", "on">> \in MotionCall
    BY IntsAre DEF MotionCall
  <2>2. ThreeThen(<<"setValue", "increment", increment>>, <<"setValue", "speed", 1000>>,
                  <<"setValue", "md_enable", "on">>, ToStart1(plan))
    BY <1>6, <2>1, TripleIsThen
  <2> QED
    BY <2>2, ZenonT(30) DEF ThreeThen, ToSetIncrement, ToSetSpeed, ToSetOn, SetThen
<1>10. bus \o ToSetIncrement(plan) = ToRegisterBus(plan)
  BY DEF ToRegisterBus, Then
<1>11. conf \o ToRegisterBus(plan) = ToConfigureDown(plan)
  <2>1. /\ <<"configure", "down">> \in MotionCall /\ <<"configure", "up">> \in MotionCall
        /\ <<"init", "loop">> \in MotionCall /\ <<"register", "pending">> \in MotionCall
    BY DEF MotionCall
  <2>2. FourThen(<<"configure", "down">>, <<"configure", "up">>, <<"init", "loop">>,
                 <<"register", "pending">>, ToRegisterBus(plan))
    BY <1>6, <2>1, FourIsThen
  <2> QED
    BY <2>2, Zenon DEF FourThen, ToConfigureDown, ToConfigureUp, ToInit, ToRegisterPending
<1>12. WithRuns(MotionCalls(increment), plan)
         = conf \o (bus \o (sets \o (s1 \o (s2 \o (s3 \o (off \o s4))))))
  <2> HIDE DEF conf, bus, sets, off, s1, s2, s3, s4
  <2>1. Regrouped(conf, bus, sets, s1, s2, s3, off, s4)
    BY <1>1, <1>2, Joined
  <2> QED
    BY <1>4, <2>1, Zenon DEF Regrouped
<1> HIDE DEF conf, bus, sets, off, s1, s2, s3, s4
<1> QED
  BY <1>5, <1>7, <1>8, <1>9, <1>10, <1>11, <1>12, Zenon

(* The lists depend on the increment alone.                                 *)
LEMMA ChainKept ==
  ASSUME NEW plan, increment' = increment
  PROVE  /\ Started4(plan)' = Started4(plan)
         /\ ToStart4(plan)' = ToStart4(plan)
         /\ ToSetOff(plan)' = ToSetOff(plan)
         /\ Started3(plan)' = Started3(plan)
         /\ ToStart3(plan)' = ToStart3(plan)
         /\ Started2(plan)' = Started2(plan)
         /\ ToStart2(plan)' = ToStart2(plan)
         /\ Started1(plan)' = Started1(plan)
         /\ ToStart1(plan)' = ToStart1(plan)
         /\ ToSetOn(plan)' = ToSetOn(plan)
         /\ ToSetSpeed(plan)' = ToSetSpeed(plan)
         /\ ToSetIncrement(plan)' = ToSetIncrement(plan)
         /\ ToRegisterBus(plan)' = ToRegisterBus(plan)
         /\ ToRegisterPending(plan)' = ToRegisterPending(plan)
         /\ ToInit(plan)' = ToInit(plan)
         /\ ToConfigureUp(plan)' = ToConfigureUp(plan)
         /\ ToConfigureDown(plan)' = ToConfigureDown(plan)
<1> USE DEF StartThen, SetThen, RunThen, Then
<1>1. Started4(plan)' = Started4(plan)
  BY DEF Started4
<1>2. ToStart4(plan)' = ToStart4(plan)
  BY <1>1 DEF ToStart4
<1>3. ToSetOff(plan)' = ToSetOff(plan)
  BY <1>2 DEF ToSetOff
<1>4. Started3(plan)' = Started3(plan)
  BY <1>3 DEF Started3
<1>5. ToStart3(plan)' = ToStart3(plan)
  BY <1>4 DEF ToStart3
<1>6. Started2(plan)' = Started2(plan)
  BY <1>5 DEF Started2
<1>7. ToStart2(plan)' = ToStart2(plan)
  BY <1>6 DEF ToStart2
<1>8. Started1(plan)' = Started1(plan)
  BY <1>7 DEF Started1
<1>9. ToStart1(plan)' = ToStart1(plan)
  BY <1>8 DEF ToStart1
<1>10. ToSetOn(plan)' = ToSetOn(plan)
  BY <1>9 DEF ToSetOn
<1>11. ToSetSpeed(plan)' = ToSetSpeed(plan)
  BY <1>10 DEF ToSetSpeed
<1>12. ToSetIncrement(plan)' = ToSetIncrement(plan)
  BY <1>11 DEF ToSetIncrement
<1>13. ToRegisterBus(plan)' = ToRegisterBus(plan)
  BY <1>12 DEF ToRegisterBus
<1>14. ToRegisterPending(plan)' = ToRegisterPending(plan)
  BY <1>13 DEF ToRegisterPending
<1>15. ToInit(plan)' = ToInit(plan)
  BY <1>14 DEF ToInit
<1>16. ToConfigureUp(plan)' = ToConfigureUp(plan)
  BY <1>15 DEF ToConfigureUp
<1>17. ToConfigureDown(plan)' = ToConfigureDown(plan)
  BY <1>16 DEF ToConfigureDown
<1> QED
  BY <1>1, <1>2, <1>3, <1>4, <1>5, <1>6, <1>7, <1>8, <1>9, <1>10, <1>11, <1>12, <1>13, <1>14,
     <1>15, <1>16, <1>17

(* The phases one by one.                                                   *)
LEMMA AtIs ==
  ASSUME NEW plan
  PROVE  /\ At(0, plan) <=>
              \/ todo \in {ToConfigureDown(plan), ToConfigureUp(plan), ToInit(plan),
                           ToRegisterPending(plan), ToRegisterBus(plan), ToSetIncrement(plan)}
              \/ todo = ToSetSpeed(plan) /\ Has(params, "increment", increment)
              \/ /\ todo = ToSetOn(plan)
                 /\ Has(params, "increment", increment)
                 /\ Has(params, "speed", 1000)
         /\ At(1, plan) <=> todo = ToStart1(plan)
         /\ At(2, plan) <=> todo \in {Started1(plan), ToStart2(plan)}
         /\ At(3, plan) <=> todo \in {Started2(plan), ToStart3(plan)}
         /\ At(4, plan) <=> todo \in {Started3(plan), ToSetOff(plan)}
         /\ At(5, plan) <=> todo = ToStart4(plan)
         /\ At(6, plan) <=> todo \in {Started4(plan), <<>>}
<1>1. At(0, plan) <=>
        \/ todo \in {ToConfigureDown(plan), ToConfigureUp(plan), ToInit(plan),
                     ToRegisterPending(plan), ToRegisterBus(plan), ToSetIncrement(plan)}
        \/ todo = ToSetSpeed(plan) /\ Has(params, "increment", increment)
        \/ /\ todo = ToSetOn(plan)
           /\ Has(params, "increment", increment)
           /\ Has(params, "speed", 1000)
  BY DEF At
<1>2. At(1, plan) <=> todo = ToStart1(plan)
  BY DEF At
<1>3. At(2, plan) <=> todo \in {Started1(plan), ToStart2(plan)}
  BY DEF At
<1>4. At(3, plan) <=> todo \in {Started2(plan), ToStart3(plan)}
  BY DEF At
<1>5. At(4, plan) <=> todo \in {Started3(plan), ToSetOff(plan)}
  BY DEF At
<1>6. At(5, plan) <=> todo = ToStart4(plan)
  BY DEF At
<1>7. At(6, plan) <=> todo \in {Started4(plan), <<>>}
  BY DEF At
<1> QED
  BY <1>1, <1>2, <1>3, <1>4, <1>5, <1>6, <1>7

(* The same of the next state, in terms of this one.                        *)
LEMMA AtWillBe ==
  ASSUME NEW plan, increment' = increment
  PROVE  /\ At(0, plan)' <=>
              \/ todo' \in {ToConfigureDown(plan), ToConfigureUp(plan), ToInit(plan),
                            ToRegisterPending(plan), ToRegisterBus(plan), ToSetIncrement(plan)}
              \/ todo' = ToSetSpeed(plan) /\ Has(params', "increment", increment)
              \/ /\ todo' = ToSetOn(plan)
                 /\ Has(params', "increment", increment)
                 /\ Has(params', "speed", 1000)
         /\ At(1, plan)' <=> todo' = ToStart1(plan)
         /\ At(2, plan)' <=> todo' \in {Started1(plan), ToStart2(plan)}
         /\ At(3, plan)' <=> todo' \in {Started2(plan), ToStart3(plan)}
         /\ At(4, plan)' <=> todo' \in {Started3(plan), ToSetOff(plan)}
         /\ At(5, plan)' <=> todo' = ToStart4(plan)
         /\ At(6, plan)' <=> todo' \in {Started4(plan), <<>>}
<1>1. At(0, plan)' <=>
        \/ todo' \in {ToConfigureDown(plan), ToConfigureUp(plan), ToInit(plan),
                      ToRegisterPending(plan), ToRegisterBus(plan), ToSetIncrement(plan)}
        \/ todo' = ToSetSpeed(plan) /\ Has(params', "increment", increment)
        \/ /\ todo' = ToSetOn(plan)
           /\ Has(params', "increment", increment)
           /\ Has(params', "speed", 1000)
  BY ChainKept DEF At
<1>2. At(1, plan)' <=> todo' = ToStart1(plan)
  BY ChainKept DEF At
<1>3. At(2, plan)' <=> todo' \in {Started1(plan), ToStart2(plan)}
  BY ChainKept DEF At
<1>4. At(3, plan)' <=> todo' \in {Started2(plan), ToStart3(plan)}
  BY ChainKept DEF At
<1>5. At(4, plan)' <=> todo' \in {Started3(plan), ToSetOff(plan)}
  BY ChainKept DEF At
<1>6. At(5, plan)' <=> todo' = ToStart4(plan)
  BY ChainKept DEF At
<1>7. At(6, plan)' <=> todo' \in {Started4(plan), <<>>}
  BY ChainKept DEF At
<1> QED
  BY <1>1, <1>2, <1>3, <1>4, <1>5, <1>6, <1>7

(* While no call is made the command stays where it is.                     *)
LEMMA PhaseStays ==
  ASSUME NEW phase \in Phases, NEW plan, At(phase, plan), UNCHANGED <<todo, params, increment>>
  PROVE  At(phase, plan)'
  BY AtIs, AtWillBe DEF Phases

\* The phase a call leads to.
Leads(phase, call, plan) ==
  \/ /\ call[1] \in {"configure", "init", "register"}
     /\ phase = 0
     /\ params' = params => At(0, plan)'
  \/ /\ call[1] = "run"
     /\ params' = params => At(phase, plan)'
  \/ /\ call[1] = "startSequence"
     /\ params' = params =>
          \/ phase = 1 /\ call[2] = "mdEnable" /\ At(2, plan)'
          \/ phase = 2 /\ call[2] = "setupMotion" /\ At(3, plan)'
          \/ phase = 3 /\ call[2] = "execMotion" /\ At(4, plan)'
          \/ phase = 5 /\ call[2] = "mdEnable" /\ At(6, plan)'
  \/ /\ call[1] = "setValue"
     /\ params' = SetValue(params, call[2], call[3]) =>
          \/ phase = 0 /\ At(0, plan)'
          \/ /\ phase = 0 /\ At(1, plan)'
             /\ Has(params, "increment", increment) /\ Has(params, "speed", 1000)
             /\ call[2] = "md_enable" /\ call[3] = "on"
          \/ phase = 4 /\ At(5, plan)' /\ call[2] = "md_enable" /\ call[3] = "off"

(* Every call leads to the next phase of the command.                       *)
LEMMA CallLeads ==
  ASSUME increment \in Increments, increment' = increment,
         NEW phase \in Phases, NEW plan, At(phase, plan),
         todo # <<>>, todo' = Tail(todo)
  PROVE  Leads(phase, Head(todo), plan)
<1>1. CASE phase = 0
  <2>a. /\ Takes(ToConfigureDown(plan), <<"configure", "down">>, ToConfigureUp(plan))
        /\ Takes(ToConfigureUp(plan), <<"configure", "up">>, ToInit(plan))
        /\ Takes(ToInit(plan), <<"init", "loop">>, ToRegisterPending(plan))
        /\ Takes(ToRegisterPending(plan), <<"register", "pending">>, ToRegisterBus(plan))
        /\ Takes(ToRegisterBus(plan), <<"register", "bus">>, ToSetIncrement(plan))
    BY ChainTaken
  <2>1. CASE todo \in {ToConfigureDown(plan), ToConfigureUp(plan), ToInit(plan),
                       ToRegisterPending(plan), ToRegisterBus(plan)}
    <3>1. /\ Head(todo) \in {<<"configure", "down">>, <<"configure", "up">>, <<"init", "loop">>,
                             <<"register", "pending">>, <<"register", "bus">>}
          /\ todo' \in {ToConfigureUp(plan), ToInit(plan), ToRegisterPending(plan),
                        ToRegisterBus(plan), ToSetIncrement(plan)}
      BY <2>1, <2>a, Zenon DEF Takes
    <3>2. Head(todo)[1] \in {"configure", "init", "register"}
      BY <3>1
    <3>3. At(0, plan)'
      BY <3>1, AtWillBe
    <3> QED
      BY <1>1, <3>2, <3>3 DEF Leads
  <2>2. CASE todo = ToSetIncrement(plan)
    <3>1. Takes(ToSetIncrement(plan), <<"setValue", "increment", increment>>, ToSetSpeed(plan))
      BY ChainTaken, ZenonT(40)
    <3>2. Head(todo) = <<"setValue", "increment", increment>> /\ todo' = ToSetSpeed(plan)
      BY <2>2, <3>1 DEF Takes
    <3>3. params' = SetValue(params, "increment", increment) => At(0, plan)'
      BY <3>2, SetValues, AtWillBe
    <3> QED
      BY <1>1, <3>2, <3>3 DEF Leads
  <2>3. CASE todo = ToSetSpeed(plan) /\ Has(params, "increment", increment)
    <3>1. Takes(ToSetSpeed(plan), <<"setValue", "speed", 1000>>, ToSetOn(plan))
      BY ChainTaken
    <3>2. Head(todo) = <<"setValue", "speed", 1000>> /\ todo' = ToSetOn(plan)
      BY <2>3, <3>1 DEF Takes
    <3>3. ASSUME params' = SetValue(params, "speed", 1000) PROVE At(0, plan)'
      <4>1. Has(params', "speed", 1000)
        BY <3>3, SetValues
      <4>2. Has(params', "increment", increment)
        BY <2>3, <3>3, SetValues
      <4> QED
        BY <3>2, <4>1, <4>2, AtWillBe
    <3> QED
      BY <1>1, <3>2, <3>3 DEF Leads
  <2>4. CASE /\ todo = ToSetOn(plan)
             /\ Has(params, "increment", increment) /\ Has(params, "speed", 1000)
    <3>1. Takes(ToSetOn(plan), <<"setValue", "md_enable", "on">>, ToStart1(plan))
      BY ChainTaken
    <3>2. Head(todo) = <<"setValue", "md_enable", "on">> /\ todo' = ToStart1(plan)
      BY <2>4, <3>1 DEF Takes
    <3>3. At(1, plan)'
      BY <3>2, AtWillBe
    <3> QED
      BY <1>1, <2>4, <3>2, <3>3 DEF Leads
  <2> QED
    BY <1>1, <2>1, <2>2, <2>3, <2>4, AtIs
<1>2. CASE phase = 1
  <2>1. Takes(ToStart1(plan), <<"startSequence", "mdEnable">>, Started1(plan))
    BY ChainTaken, CommandIs
  <2>2. todo = ToStart1(plan)
    BY <1>2, AtIs
  <2>3. Head(todo) = <<"startSequence", "mdEnable">> /\ todo' = Started1(plan)
    BY <2>1, <2>2 DEF Takes
  <2>4. At(2, plan)'
    BY <2>3, AtWillBe
  <2> QED
    BY <1>2, <2>3, <2>4 DEF Leads
<1>3. CASE phase = 2
  <2>1. Takes(ToStart2(plan), <<"startSequence", "setupMotion">>, Started2(plan))
    BY ChainTaken, CommandIs
  <2>2. CASE todo = ToStart2(plan)
    <3>1. Head(todo) = <<"startSequence", "setupMotion">> /\ At(3, plan)'
      BY <2>1, <2>2, AtWillBe DEF Takes
    <3> QED
      BY <1>3, <3>1 DEF Leads
  <2>3. CASE todo = Started1(plan) /\ todo # ToStart2(plan)
    <3>1. ToStart2(plan) \in Seq(MotionCall)
      BY <2>1 DEF Takes
    <3>2. Head(todo) = <<"run", "loop">> /\ todo' = ToStart2(plan)
      BY <2>3, <3>1, RunThenTaken DEF Started1
    <3> QED
      BY <1>3, <3>2, AtWillBe DEF Leads
  <2> QED
    BY <1>3, <2>2, <2>3, AtIs
<1>4. CASE phase = 3
  <2>1. Takes(ToStart3(plan), <<"startSequence", "execMotion">>, Started3(plan))
    BY ChainTaken, CommandIs
  <2>2. CASE todo = ToStart3(plan)
    <3>1. Head(todo) = <<"startSequence", "execMotion">> /\ At(4, plan)'
      BY <2>1, <2>2, AtWillBe DEF Takes
    <3> QED
      BY <1>4, <3>1 DEF Leads
  <2>3. CASE todo = Started2(plan) /\ todo # ToStart3(plan)
    <3>1. ToStart3(plan) \in Seq(MotionCall)
      BY <2>1 DEF Takes
    <3>2. Head(todo) = <<"run", "loop">> /\ todo' = ToStart3(plan)
      BY <2>3, <3>1, RunThenTaken DEF Started2
    <3> QED
      BY <1>4, <3>2, AtWillBe DEF Leads
  <2> QED
    BY <1>4, <2>2, <2>3, AtIs
<1>5. CASE phase = 4
  <2>1. Takes(ToSetOff(plan), <<"setValue", "md_enable", "off">>, ToStart4(plan))
    BY ChainTaken
  <2>2. CASE todo = ToSetOff(plan)
    <3>1. Head(todo) = <<"setValue", "md_enable", "off">> /\ At(5, plan)'
      BY <2>1, <2>2, AtWillBe DEF Takes
    <3> QED
      BY <1>5, <3>1 DEF Leads
  <2>3. CASE todo = Started3(plan) /\ todo # ToSetOff(plan)
    <3>1. ToSetOff(plan) \in Seq(MotionCall)
      BY <2>1 DEF Takes
    <3>2. Head(todo) = <<"run", "loop">> /\ todo' = ToSetOff(plan)
      BY <2>3, <3>1, RunThenTaken DEF Started3
    <3>3. At(4, plan)'
      BY <3>2, AtWillBe
    <3> QED
      BY <1>5, <3>2, <3>3 DEF Leads
  <2> QED
    BY <1>5, <2>2, <2>3, AtIs
<1>6. CASE phase = 5
  <2>1. Takes(ToStart4(plan), <<"startSequence", "mdEnable">>, Started4(plan))
    BY ChainTaken, CommandIs
  <2>2. Head(todo) = <<"startSequence", "mdEnable">> /\ At(6, plan)'
    <3>1. todo = ToStart4(plan)
      BY <1>6, AtIs
    <3>2. Head(todo) = <<"startSequence", "mdEnable">> /\ todo' = Started4(plan)
      BY <2>1, <3>1 DEF Takes
    <3> QED
      BY <3>2, AtWillBe
  <2> QED
    BY <1>6, <2>2 DEF Leads
<1>7. CASE phase = 6
  <2>1. <<>> \in Seq(MotionCall) /\ todo = Started4(plan)
    BY <1>7, AtIs
  <2>2. Head(todo) = <<"run", "loop">> /\ todo' = <<>>
    BY <2>1, RunThenTaken DEF Started4
  <2> QED
    BY <1>7, <2>2, AtWillBe DEF Leads
<1> QED
  BY <1>1, <1>2, <1>3, <1>4, <1>5, <1>6, <1>7 DEF Phases

CallTyped(call) ==
  /\ call[1] = "startSequence" => call[2] \in SeqIDs
  /\ call[1] = "configure" => call[2] \in {"up", "down"}

(* The calls have the types the program takes from them.                    *)
LEMMA HeadsTyped ==
  ASSUME increment \in Increments, NEW phase \in Phases, NEW plan, At(phase, plan)
  PROVE  HeadTyped
<1> SUFFICES ASSUME todo # <<>> PROVE CallTyped(Head(todo))
  BY DEF HeadTyped, CallTyped
<1>1. \A i \in 1..4 : CallTyped(<<"startSequence", Command[i]>>)
  BY CommandIs, AppAssumption DEF CallTyped
<1>2. /\ \A id, value : CallTyped(<<"setValue", id, value>>)
      /\ \A f : CallTyped(<<"register", f>>)
      /\ CallTyped(<<"init", "loop">>) /\ CallTyped(<<"run", "loop">>)
      /\ CallTyped(<<"configure", "up">>) /\ CallTyped(<<"configure", "down">>)
  BY DEF CallTyped
<1>a. \A calls, call, rest : Takes(calls, call, rest) /\ CallTyped(call) => CallTyped(Head(calls))
  BY DEF Takes
<1>3. /\ CallTyped(Head(ToConfigureDown(plan))) /\ CallTyped(Head(ToConfigureUp(plan)))
      /\ CallTyped(Head(ToInit(plan))) /\ CallTyped(Head(ToRegisterPending(plan)))
      /\ CallTyped(Head(ToRegisterBus(plan))) /\ CallTyped(Head(ToSetIncrement(plan)))
  BY <1>2, <1>a, ChainTaken
<1>4. /\ CallTyped(Head(ToSetSpeed(plan))) /\ CallTyped(Head(ToSetOn(plan)))
      /\ CallTyped(Head(ToSetOff(plan)))
  BY <1>2, <1>a, ChainTaken
<1>b. /\ CallTyped(<<"startSequence", Command[1]>>) /\ CallTyped(<<"startSequence", Command[2]>>)
      /\ CallTyped(<<"startSequence", Command[3]>>) /\ CallTyped(<<"startSequence", Command[4]>>)
  BY <1>1
<1>5. /\ CallTyped(Head(ToStart1(plan))) /\ CallTyped(Head(ToStart2(plan)))
      /\ CallTyped(Head(ToStart3(plan))) /\ CallTyped(Head(ToStart4(plan)))
  <2>1. CallTyped(Head(ToStart1(plan)))
    BY <1>b, <1>a, ChainTaken, ZenonT(40)
  <2>2. CallTyped(Head(ToStart2(plan)))
    BY <1>b, <1>a, ChainTaken, ZenonT(40)
  <2>3. CallTyped(Head(ToStart3(plan)))
    BY <1>b, <1>a, ChainTaken, ZenonT(40)
  <2>4. CallTyped(Head(ToStart4(plan)))
    BY <1>b, <1>a, ChainTaken, ZenonT(40)
  <2> QED
    BY <2>1, <2>2, <2>3, <2>4
<1>6. /\ ToStart2(plan) \in Seq(MotionCall) /\ ToStart3(plan) \in Seq(MotionCall)
      /\ ToSetOff(plan) \in Seq(MotionCall) /\ <<>> \in Seq(MotionCall)
  BY ChainTaken DEF Takes
<1>7. /\ Started1(plan) = ToStart2(plan) \/ CallTyped(Head(Started1(plan)))
      /\ Started2(plan) = ToStart3(plan) \/ CallTyped(Head(Started2(plan)))
  BY <1>2, <1>6, RunThenTaken DEF Started1, Started2
<1>8. /\ Started3(plan) = ToSetOff(plan) \/ CallTyped(Head(Started3(plan)))
      /\ Started4(plan) = <<>> \/ CallTyped(Head(Started4(plan)))
  BY <1>2, <1>6, RunThenTaken DEF Started3, Started4
<1>9. \/ todo \in {ToConfigureDown(plan), ToConfigureUp(plan), ToInit(plan),
                   ToRegisterPending(plan), ToRegisterBus(plan), ToSetIncrement(plan)}
      \/ todo \in {ToSetSpeed(plan), ToSetOn(plan), ToStart1(plan), ToStart2(plan),
                   ToStart3(plan), ToSetOff(plan), ToStart4(plan)}
      \/ todo \in {Started1(plan), Started2(plan), Started3(plan), Started4(plan)}
  BY AtIs DEF Phases
<1> QED
  BY <1>3, <1>4, <1>5, <1>7, <1>8, <1>9

-----------------------------------------------------------------------------
(* The numbers of the argument.                                             *)

(* The calls and places of the phases.                                      *)
LEMMA PhaseNumbers ==
  /\ Starts(0) = 0 /\ Starts(1) = 0 /\ Starts(2) = 1 /\ Starts(3) = 2
  /\ Starts(4) = 3 /\ Starts(5) = 3 /\ Starts(6) = 4
  /\ Top(0) = 0 /\ Top(1) = 0 /\ Top(2) = 1 /\ Top(3) = 3
  /\ Top(4) = 6 /\ Top(5) = 6 /\ Top(6) = 7
  BY DEF Starts, Top

(* Every phase has them.                                                    *)
LEMMA PhaseRanges ==
  ASSUME NEW phase \in Phases
  PROVE  Starts(phase) \in 0..4 /\ Top(phase) \in {0, 1, 3, 6, 7}
  BY PhaseNumbers DEF Phases

MoveSequences == {"mdEnable", "setupMotion", "execMotion"}

(* The places of a sequence lie side by side.                               *)
LEMMA Bases ==
  ASSUME NEW seq \in MoveSequences, NEW asked
  PROVE  /\ BaseOf(seq, asked) \in {1, 2, 4, 7}
         /\ StepCount[seq] \in 1..3
         /\ BaseOf(seq, asked) + StepCount[seq] \in {2, 4, 7, 8}
         /\ seq = "mdEnable" =>
              /\ BaseOf(seq, asked) = IF IsSetOn(asked, "md_enable") THEN 1 ELSE 7
              /\ StepCount[seq] = 1
         /\ seq = "setupMotion" => BaseOf(seq, asked) = 2 /\ StepCount[seq] = 2
         /\ seq = "execMotion" => BaseOf(seq, asked) = 4 /\ StepCount[seq] = 3
<1>1. StepCount["mdEnable"] = 1 /\ StepCount["setupMotion"] = 2 /\ StepCount["execMotion"] = 3
  BY MotionAssumption, ZenonT(40) DEF MotionSteps
<1> QED
  BY <1>1 DEF BaseOf, MoveSequences

(* The place of an order says which command it carries.                     *)
LEMMA Places ==
  ASSUME NEW o \in Orders
  PROVE  /\ Place(o) \in 1..7
         /\ o.cmd = MDEnable <=> Place(o) \in {1, 7}
         /\ o.cmd = MDEnable => Place(o) = IF o.asked = 1 THEN 1 ELSE 7
         /\ o.cmd = SetPosition <=> Place(o) = 2
         /\ o.cmd = SetSpeed <=> Place(o) = 3
         /\ o.cmd = BeginMotion <=> Place(o) = 4
         /\ o.cmd = ReadPosition <=> Place(o) = 5
         /\ o.cmd = StopMotion <=> Place(o) = 6
  BY DEF Place, Orders, Commands, MDEnable, SetPosition, SetSpeed, BeginMotion, ReadPosition,
         StopMotion

(* Numbers a state has.                                                     *)
LEMMA StateNumbers ==
  ASSUME CoreInv, MotionTypes
  PROVE  /\ Surplus \in Nat /\ Unheard \in Nat
         /\ allocs \in Nat /\ Len(completed) \in Nat
         /\ exec.stepIndex \in Nat
         /\ Done \subseteq 1..7 /\ UnderWay \subseteq 1..7
<1>1. Surplus \in Nat /\ Unheard \in Nat
  BY SMTT(30) DEF CoreInv, RestTypes, Surplus, Unheard, AllFaults, StartFaults
<1>2. allocs \in Nat /\ Len(completed) \in Nat /\ exec.stepIndex \in Nat
  BY DEF CoreInv, RestTypes, SP!TypeOK, SP!Executions
<1>3. Done \subseteq 1..7
  BY Places DEF MotionTypes, Done
<1>4. UnderWay \subseteq 1..7
  BY Places DEF MotionTypes, UnderWay
<1> QED
  BY <1>1, <1>2, <1>3, <1>4

(* Where a running sequence is.                                             *)
LEMMA WhileRunning ==
  ASSUME CoreInv, MotionTypes, ProgramInv, NEW phase \in Phases, PhaseInv(phase), SP!Running
  PROVE  /\ curSeq \in MoveSequences
         /\ Base \in {1, 2, 4, 7}
         /\ StepCount[curSeq] \in 1..3
         /\ Base + StepCount[curSeq] \in {2, 4, 7, 8}
         /\ Base + StepCount[curSeq] <= Top(phase) + 1
         /\ Top(phase) \in {1, 3, 6, 7}
         /\ exec.stepIndex \in 0..2
         /\ exec.stepIndex < StepCount[curSeq]
         /\ started = <<>> => exec.stepIndex = 0
         /\ LastPlace(phase) = IF started = <<>> THEN Base - 1 ELSE Base + exec.stepIndex
<1>1. curSeq \in MoveSequences /\ Base + StepCount[curSeq] <= Top(phase) + 1
  BY DEF PhaseInv, StartsInv, MoveSequences
<1>2. /\ Base \in {1, 2, 4, 7} /\ StepCount[curSeq] \in 1..3
      /\ Base + StepCount[curSeq] \in {2, 4, 7, 8}
  BY <1>1, Bases DEF Base
<1>3. Top(phase) \in {1, 3, 6, 7}
  BY <1>1, <1>2, PhaseRanges
<1>4. /\ started = <<>> => exec.stepIndex = 0
      /\ exec.stepIndex = 0 \/ exec.stepIndex < StepCount[curSeq]
  BY DEF ProgramInv, SP!OrderInv, SP!StepOrder
<1> QED
  BY <1>1, <1>2, <1>3, <1>4, StateNumbers DEF LastPlace

(* No place is beyond the phase, and none that was sent beyond the step.    *)
LEMMA LastPlaces ==
  ASSUME CoreInv, MotionTypes, ProgramInv, NEW phase \in Phases, PhaseInv(phase)
  PROVE  /\ LastPlace(phase) \in Int
         /\ Tried(phase) \in Int
         /\ Answered(phase) \in Int
         /\ LastPlace(phase) < Tried(phase)
         /\ LastPlace(phase) <= Top(phase)
         /\ Sent \subseteq 1..7
<1>a. Sent \subseteq 1..7
  BY StateNumbers DEF Sent
<1>1. CASE SP!Running
  <2>1. Answered(phase) \in Int /\ Tried(phase) = Base + exec.stepIndex + 1
    BY <1>1, WhileRunning DEF Answered, Tried
  <2> QED
    BY <1>a, <1>1, <2>1, WhileRunning, SMTT(30)
<1>2. CASE ~SP!Running
  BY <1>a, <1>2, PhaseRanges DEF Tried, Answered, LastPlace
<1> QED
  BY <1>1, <1>2

(* Before the first start no order exists.                                  *)
LEMMA NothingYet ==
  ASSUME CoreInv, MotionTypes, ProgramInv, NEW phase \in {0, 1}, PhaseInv(phase)
  PROVE  ~SP!Running /\ Sent = {} /\ orders = <<>> /\ executed = {}
<1>1. phase \in Phases /\ Top(phase) = 0
  BY PhaseNumbers DEF Phases
<1>2. ~SP!Running
  BY <1>1, WhileRunning
<1>3. Sent = {}
  BY <1>1, LastPlaces DEF PhaseInv, PlacesInv
<1>4. executed = {}
  BY <1>3 DEF Sent, Done
<1>5. orders = <<>>
  <2>1. orders # <<>> => 1 \in DOMAIN orders
    BY DEF MotionTypes
  <2> QED
    BY <1>3, <2>1 DEF Sent, UnderWay
<1> QED
  BY <1>2, <1>3, <1>4, <1>5

(* Where no frame came in that answers nothing, a step has at most one      *)
(* exchange under way, and is not woken before it is over.                  *)
LEMMA OneByOne ==
  ASSUME CoreInv, MotionTypes, ProgramInv, Surplus = 0
  PROVE  /\ pending > 0 => orders = <<>> /\ rx = <<>>
         /\ pending > 0 /\ SP!Running => ~SP!Blocked
         /\ ~SP!Running => orders = <<>> /\ rx = <<>>
         /\ orders # <<>> => rx = <<>>
         /\ Len(orders) <= 1
         /\ rx # <<>> => SP!Running /\ exec.stepState = "WAITRSP"
<1>1. /\ InFlight + pending <= SP!Need + Waiting
      /\ pending <= SP!Need
      /\ SP!Need <= pending
  BY FlightTypes DEF ProgramInv, FlightAccount, SP!WakeupInv, SP!WakeupAccount, SP!NoLostWakeup,
                     CoreInv, SP!TypeOK
<1>2. /\ Len(orders) = Len(tx) /\ Len(orders) \in Nat /\ Len(rx) \in Nat
      /\ Len(orders) = 0 <=> orders = <<>>
      /\ Len(rx) = 0 <=> rx = <<>>
  BY DEF MotionTypes, CoreInv, RestTypes
<1>3. /\ SP!Need = 1 <=> SP!Running /\ ~SP!Blocked
      /\ SP!Need \in {0, 1}
      /\ Waiting = 1 <=> SP!Running /\ exec.stepState = "WAITRSP"
      /\ Waiting \in {0, 1}
  BY DEF SP!Need, Waiting
<1>4. Waiting = 1 => SP!Need = 0
  BY <1>3 DEF SP!Blocked
<1>5. pending \in Nat
  BY FlightTypes
<1> QED
  BY <1>1, <1>2, <1>3, <1>4, <1>5 DEF InFlight

-----------------------------------------------------------------------------
(* The orders.                                                              *)

(* What a step sends.                                                       *)
LEMMA OrderIs ==
  ASSUME NEW i \in Nat, curSeq \in MoveSequences, i < StepCount[curSeq]
  PROVE  /\ Order(i).cmd = MotionSteps[curSeq][i + 1]
         /\ Order(i).data = Payload(Order(i).cmd, params)
         /\ Order(i).asked = Payload(Order(i).cmd, wanted)
         /\ Order(i).cmd \in Commands
         /\ curSeq = "mdEnable" => i = 0 /\ Order(i).cmd = MDEnable
         /\ curSeq = "setupMotion" => \/ i = 0 /\ Order(i).cmd = SetPosition
                                      \/ i = 1 /\ Order(i).cmd = SetSpeed
         /\ curSeq = "execMotion" => \/ i = 0 /\ Order(i).cmd = BeginMotion
                                     \/ i = 1 /\ Order(i).cmd = ReadPosition
                                     \/ i = 2 /\ Order(i).cmd = StopMotion
<1>1. /\ Order(i).cmd = MotionSteps[curSeq][i + 1]
      /\ Order(i).data = Payload(Order(i).cmd, params)
      /\ Order(i).asked = Payload(Order(i).cmd, wanted)
  BY DEF Order
<1>2. /\ curSeq = "mdEnable" => i = 0
      /\ curSeq = "setupMotion" => i \in {0, 1}
      /\ curSeq = "execMotion" => i \in {0, 1, 2}
  BY Bases
<1> QED
  BY <1>1, <1>2 DEF MoveSequences, MotionSteps, Commands

(* The payloads.                                                            *)
LEMMA Payloads ==
  ASSUME NEW p
  PROVE  /\ Payload(MDEnable, p) = IF IsSetOn(p, "md_enable") THEN 1 ELSE 0
         /\ Payload(SetPosition, p) = Word(p["increment"])
         /\ Payload(SetSpeed, p) = Word(p["speed"])
         /\ \A cmd \in {BeginMotion, ReadPosition, StopMotion} : Payload(cmd, p) = 0
  BY DEF Payload, MDEnable, SetPosition, SetSpeed, BeginMotion, ReadPosition, StopMotion

(* The order of a step has the step's place, and carries what the command   *)
(* asks for, unless a call was refused.                                     *)
LEMMA OrderSent ==
  ASSUME CoreInv, MotionTypes, ProgramInv, NEW phase \in Phases, PhaseInv(phase),
         SP!Running, ~crashed, NEW i \in Nat, i < StepCount[curSeq]
  PROVE  /\ Order(i) \in Orders
         /\ Place(Order(i)) = Base + i
         /\ OrderOK(Order(i))
<1>1. curSeq \in MoveSequences
  BY WhileRunning
<1>2. /\ Has(params, "increment", increment) /\ Has(params, "speed", 1000)
      /\ IsSetOn(params, "md_enable") <=> phase <= 4
      /\ Has(wanted, "increment", increment) /\ Has(wanted, "speed", 1000)
  BY WhileRunning, PhaseNumbers DEF PhaseInv, ParamsInv, Phases
<1>3. Word(increment) \in Nat /\ Word(1000) \in Nat
  BY WordsKeepInts, IntsAre DEF MotionTypes
<1>4. Order(i) = [cmd |-> Order(i).cmd, data |-> Order(i).data, asked |-> Order(i).asked]
  BY DEF Order
<1>5. Order(i).cmd \in Commands
  BY <1>1, OrderIs
<1>6. CASE curSeq = "mdEnable"
  <2>1. /\ i = 0 /\ Order(i).cmd = MDEnable
        /\ Order(i).data = IF IsSetOn(params, "md_enable") THEN 1 ELSE 0
        /\ Order(i).asked = IF IsSetOn(wanted, "md_enable") THEN 1 ELSE 0
    BY <1>1, <1>6, OrderIs, Payloads
  <2>2. /\ Base = IF IsSetOn(wanted, "md_enable") THEN 1 ELSE 7
        /\ StepCount[curSeq] = 1
    BY <1>1, <1>6, Bases DEF Base
  <2>3. Order(i) \in Orders
    BY <1>4, <1>5, <2>1 DEF Orders
  <2>4. Place(Order(i)) = Base + i
    BY <2>1, <2>2, <2>3, Places
  <2>5. ~IsSetOn(wanted, "md_enable") => ~IsSetOn(params, "md_enable")
    BY <1>2, <2>2, WhileRunning, PhaseNumbers DEF Phases
  <2>6. IsSetOn(wanted, "md_enable") /\ ~IsSetOn(params, "md_enable") => refusals # {}
    BY <1>2, <2>2, PhaseNumbers DEF PhaseInv, StartsInv, Phases
  <2>7. OrderOK(Order(i))
    BY <2>1, <2>5, <2>6 DEF OrderOK, MDEnable, SetPosition, SetSpeed
  <2> QED
    BY <2>3, <2>4, <2>7
<1>7. CASE curSeq = "setupMotion"
  <2>1. \/ i = 0 /\ Order(i).cmd = SetPosition
        \/ i = 1 /\ Order(i).cmd = SetSpeed
    BY <1>1, <1>7, OrderIs
  <2>2. /\ Order(i).cmd = SetPosition =>
             Order(i).data = Word(increment) /\ Order(i).asked = Word(increment)
        /\ Order(i).cmd = SetSpeed =>
             Order(i).data = Word(1000) /\ Order(i).asked = Word(1000)
    BY <1>1, <1>2, OrderIs, Payloads DEF Has
  <2>3. Order(i) \in Orders
    BY <1>3, <1>4, <1>5, <2>1, <2>2 DEF Orders
  <2>4. Base = 2
    BY <1>1, <1>7, Bases DEF Base
  <2>5. Place(Order(i)) = Base + i
    BY <2>1, <2>3, <2>4, Places
  <2>6. OrderOK(Order(i))
    BY <2>1, <2>2 DEF OrderOK, MDEnable, SetPosition, SetSpeed
  <2> QED
    BY <2>3, <2>5, <2>6
<1>8. CASE curSeq = "execMotion"
  <2>1. \/ i = 0 /\ Order(i).cmd = BeginMotion
        \/ i = 1 /\ Order(i).cmd = ReadPosition
        \/ i = 2 /\ Order(i).cmd = StopMotion
    BY <1>1, <1>8, OrderIs
  <2>2. Order(i).data = 0 /\ Order(i).asked = 0
    BY <1>1, <2>1, OrderIs, Payloads
  <2>3. Order(i) \in Orders
    BY <1>4, <1>5, <2>2 DEF Orders
  <2>4. Base = 4
    BY <1>1, <1>8, Bases DEF Base
  <2>5. Place(Order(i)) = Base + i
    BY <2>1, <2>3, <2>4, Places
  <2>6. OrderOK(Order(i))
    BY <2>1, <2>2 DEF OrderOK, MDEnable, SetPosition, SetSpeed, BeginMotion, ReadPosition,
                      StopMotion
  <2> QED
    BY <2>3, <2>5, <2>6
<1> QED
  BY <1>1, <1>6, <1>7, <1>8 DEF MoveSequences

(* What an order does to the motor.                                         *)
LEMMA OrderWorks ==
  ASSUME MotionTypes, NEW o \in Orders, OrderOK(o), NEW m \in Motors
  PROVE  /\ After(o, m) \in Motors
         /\ Place(o) = 1 => /\ refusals = {} => After(o, m).driver
                            /\ After(o, m).moving => m.moving
         /\ Place(o) = 7 => ~After(o, m).driver /\ ~After(o, m).moving
         /\ Place(o) \notin {1, 7} => After(o, m).driver = m.driver
         /\ After(o, m).target = IF Place(o) = 2 THEN increment ELSE m.target
         /\ After(o, m).speed = IF Place(o) = 3 THEN 1000 ELSE m.speed
         /\ Place(o) \in {2, 3, 5} => After(o, m).moving = m.moving
         /\ Place(o) = 6 => ~After(o, m).moving
<1>0. \/ o.cmd = MDEnable /\ Place(o) \in {1, 7} /\ (Place(o) = 1 <=> o.asked = 1)
      \/ o.cmd = SetPosition /\ Place(o) = 2
      \/ o.cmd = SetSpeed /\ Place(o) = 3
      \/ o.cmd = BeginMotion /\ Place(o) = 4
      \/ o.cmd = ReadPosition /\ Place(o) = 5
      \/ o.cmd = StopMotion /\ Place(o) = 6
  BY Places DEF Orders, Commands
<1>1. CASE o.cmd = MDEnable
  <2>1. After(o, m) = [m EXCEPT !.driver = o.data = 1, !.moving = m.moving /\ o.data = 1]
    BY <1>1 DEF After, MDEnable, SetPosition, SetSpeed, BeginMotion, StopMotion
  <2>2. /\ After(o, m) \in Motors
        /\ After(o, m).driver <=> o.data = 1
        /\ After(o, m).moving <=> m.moving /\ o.data = 1
        /\ After(o, m).target = m.target /\ After(o, m).speed = m.speed
    BY <2>1 DEF Motors
  <2>3. /\ o.asked = 1 /\ refusals = {} => o.data = 1
        /\ o.asked # 1 => o.data = 0
    BY <1>1 DEF OrderOK
  <2> QED
    BY <1>0, <1>1, <2>2, <2>3 DEF MDEnable, SetPosition, SetSpeed, BeginMotion, ReadPosition,
                                 StopMotion
<1>2. CASE o.cmd = SetPosition
  <2>1. After(o, m) = [m EXCEPT !.target = increment]
    <3>1. Signed(o.data) = increment
      BY <1>2, WordsKeepInts, IntsAre DEF OrderOK, MotionTypes
    <3> QED
      BY <1>2, <3>1 DEF After, MDEnable, SetPosition, SetSpeed, BeginMotion, StopMotion
  <2>2. increment \in Int
    BY IntsAre DEF MotionTypes, Ints
  <2> QED
    BY <1>0, <1>2, <2>1, <2>2 DEF Motors, MDEnable, SetPosition, SetSpeed, BeginMotion,
                                  ReadPosition, StopMotion
<1>3. CASE o.cmd = SetSpeed
  <2>1. After(o, m) = [m EXCEPT !.speed = 1000]
    <3>1. Signed(o.data) = 1000
      BY <1>3, WordsKeepInts, IntsAre DEF OrderOK
    <3> QED
      BY <1>3, <3>1 DEF After, MDEnable, SetPosition, SetSpeed, BeginMotion, StopMotion
  <2> QED
    BY <1>0, <1>3, <2>1 DEF Motors, MDEnable, SetPosition, SetSpeed, BeginMotion, ReadPosition,
                            StopMotion
<1>4. CASE o.cmd = BeginMotion
  <2>1. After(o, m) = [m EXCEPT !.moving = m.driver]
    BY <1>4 DEF After, MDEnable, SetPosition, SetSpeed, BeginMotion, StopMotion
  <2> QED
    BY <1>0, <1>4, <2>1 DEF Motors, MDEnable, SetPosition, SetSpeed, BeginMotion, ReadPosition,
                            StopMotion
<1>5. CASE o.cmd = ReadPosition
  <2>1. After(o, m) = m
    BY <1>5 DEF After, MDEnable, SetPosition, SetSpeed, BeginMotion, ReadPosition, StopMotion
  <2> QED
    BY <1>0, <1>5, <2>1 DEF Motors, MDEnable, SetPosition, SetSpeed, BeginMotion, ReadPosition,
                            StopMotion
<1>6. CASE o.cmd = StopMotion
  <2>1. After(o, m) = [m EXCEPT !.moving = FALSE]
    BY <1>6 DEF After, MDEnable, SetPosition, SetSpeed, BeginMotion, StopMotion
  <2>2. /\ After(o, m) \in Motors
        /\ After(o, m).driver = m.driver /\ After(o, m).moving = FALSE
        /\ After(o, m).target = m.target /\ After(o, m).speed = m.speed
    BY <2>1 DEF Motors
  <2> QED
    BY <1>0, <1>6, <2>2 DEF MDEnable, SetPosition, SetSpeed, BeginMotion, ReadPosition,
                            StopMotion
<1> QED
  BY <1>0, <1>1, <1>2, <1>3, <1>4, <1>5, <1>6

-----------------------------------------------------------------------------
(* Steps that leave the orders alone.                                       *)

(* The places stay where they are with the orders.                          *)
LEMMA PlacesStay ==
  ASSUME UNCHANGED <<orders, executed>>
  PROVE  /\ Done' = Done /\ UnderWay' = UnderWay /\ Sent' = Sent
         /\ Moved' <=> Moved
<1>1. Done' = Done /\ UnderWay' = UnderWay
  BY DEF Done, UnderWay
<1> QED
  BY <1>1 DEF Sent, Moved

(* Calls that are refused only excuse more.                                 *)
LEMMA OrdersStayOK ==
  ASSUME increment' = increment, refusals \subseteq refusals', NEW o, OrderOK(o)
  PROVE  OrderOK(o)'
  BY DEF OrderOK

(* The order of the places is kept with the orders.                         *)
LEMMA PlacesKept ==
  ASSUME NEW phase, NEW phase2, PlacesInv(phase),
         UNCHANGED <<orders, executed, increment>>, refusals \subseteq refusals',
         LastPlace(phase) \in Int, LastPlace(phase2)' \in Int,
         LastPlace(phase) <= LastPlace(phase2)',
         Sent \subseteq Int,
         Sent # {} => (CanSend' <=> CanSend)
  PROVE  PlacesInv(phase2)'
<1>1. Done' = Done /\ UnderWay' = UnderWay /\ Sent' = Sent
  BY PlacesStay
<1>2. /\ \A i, j \in DOMAIN orders : i < j => Place(orders[i]) < Place(orders[j])
      /\ \A r \in Done, q \in UnderWay : r < q
      /\ \A r \in Sent : r <= LastPlace(phase)
      /\ Sent # {} => CanSend
  BY DEF PlacesInv
<1>3. \A i \in DOMAIN orders : OrderOK(orders[i])'
  BY OrdersStayOK DEF PlacesInv
<1>4. \A e \in executed : OrderOK(e.order)'
  BY OrdersStayOK DEF PlacesInv
<1>5. (\A i \in DOMAIN orders : OrderOK(orders[i]))' /\ (\A e \in executed : OrderOK(e.order))'
  BY <1>3, <1>4 DEF OrderOK
<1>6. \A r \in Sent : r <= LastPlace(phase2)'
  BY <1>2
<1> QED
  BY <1>1, <1>2, <1>5, <1>6 DEF PlacesInv

(* Steps that move neither the orders nor the index of the step.            *)
LEMMA Unmoved ==
  ASSUME CoreInv, MotionTypes, ProgramInv, NEW phase \in Phases, PhaseInv(phase),
         UNCHANGED <<increment, params, wanted, curSeq, started, allocs, refusals, completed,
                     orders, executed>>,
         crashed => crashed',
         exec'.stepIndex = exec.stepIndex,
         Surplus' \in Nat, Unheard' \in Nat, Surplus' >= Surplus, Unheard' >= Unheard,
         rx' # <<>> => rx # <<>> \/ Surplus' > 0,
         (CanSend' <=> CanSend) \/ phase = 0,
         Surplus' = 0 => \A r \in 1..7 : r < Answered(phase)' => r < Answered(phase) \/ r \in Done
  PROVE  PhaseInv(phase)'
<1>1. /\ Done' = Done /\ UnderWay' = UnderWay /\ Sent' = Sent
      /\ Moved' <=> Moved
  BY PlacesStay
<1>2. /\ SP!Running' <=> SP!Running
      /\ Base' = Base /\ LastPlace(phase)' = LastPlace(phase) /\ Tried(phase)' = Tried(phase)
  BY DEF SP!Running, Base, LastPlace, Tried
<1>3. phase = 0 => Sent = {} /\ ~SP!Running
  BY NothingYet
<1>4. ParamsInv(phase)'
  BY <1>2 DEF PhaseInv, ParamsInv
<1>5. StartsInv(phase)'
  BY <1>2 DEF PhaseInv, StartsInv
<1>6. PlacesInv(phase)'
  BY <1>2, <1>3, LastPlaces, PlacesKept DEF PhaseInv
<1>7. Lockstep(phase)'
  <2> SUFFICES ASSUME Surplus' = 0
               PROVE  /\ orders # <<>> =>
                           SP!Running /\ started # <<>> /\ Place(orders[1]) = Base + exec.stepIndex
                      /\ rx' # <<>> => Base + exec.stepIndex \in Done
                      /\ \A r \in 1..7 :
                           /\ r < Answered(phase)'
                           /\ \/ allocs = Starts(phase)
                              \/ r \in 4..6 /\ Moved
                              \/ SP!Running /\ r >= Base
                           => r \in Done
    BY <1>1, <1>2 DEF Lockstep
  <2>1. Surplus = 0
    BY StateNumbers
  <2> QED
    BY <2>1 DEF PhaseInv, Lockstep
<1>8. NothingLost(phase)'
  <2> SUFFICES ASSUME Unheard' = 0, CanSend'
               PROVE  /\ 3 < Tried(phase) /\ allocs = Starts(phase) => 3 \in Sent
                      /\ 6 < Tried(phase) /\ Moved => 6 \in Sent
    BY <1>1, <1>2 DEF NothingLost
  <2>1. Unheard = 0
    BY StateNumbers
  <2>2. phase = 0 => Tried(phase) = 1
    BY <1>3, PhaseNumbers DEF Tried
  <2> QED
    BY <2>1, <2>2 DEF PhaseInv, NothingLost
<1> QED
  BY <1>4, <1>5, <1>6, <1>7, <1>8 DEF PhaseInv

-----------------------------------------------------------------------------
(* Calls of startSequence.                                                  *)

\* From one start to the next.
NextPhase(phase, phase2) == <<phase, phase2>> \in {<<1, 2>>, <<2, 3>>, <<3, 4>>, <<5, 6>>}

(* What a start makes of the numbers.                                       *)
LEMMA PhasesFollow ==
  ASSUME NEW phase, NEW phase2, NextPhase(phase, phase2)
  PROVE  /\ phase \in Phases /\ phase2 \in Phases
         /\ phase >= 1 /\ phase2 >= 2
         /\ Starts(phase) \in Nat /\ Starts(phase2) = Starts(phase) + 1
         /\ Top(phase) \in {0, 1, 3, 6} /\ Top(phase2) \in {1, 3, 6, 7}
         /\ Top(phase) < Top(phase2)
         /\ phase2 <= 4 <=> phase <= 4
  BY PhaseNumbers DEF NextPhase, Phases

(* The call is refused, or ends the process.                                *)
LEMMA StartMissed ==
  ASSUME CoreInv, MotionTypes, ProgramInv, NEW phase, NEW phase2, NextPhase(phase, phase2),
         PhaseInv(phase),
         UNCHANGED <<increment, params, curSeq, exec, started, allocs, completed,
                     orders, executed, rx, faults, link, socket>>,
         wanted' = wanted \/ ~SP!Running,
         refusals \subseteq refusals',
         refusals' # {} \/ crashed'
  PROVE  PhaseInv(phase2)'
<1>1. /\ Done' = Done /\ UnderWay' = UnderWay /\ Sent' = Sent
      /\ Moved' <=> Moved
  BY PlacesStay
<1>2. /\ phase \in Phases /\ phase2 \in Phases
      /\ Starts(phase) \in Nat /\ Starts(phase2) = Starts(phase) + 1
      /\ Top(phase) \in {0, 1, 3, 6} /\ Top(phase2) \in {1, 3, 6, 7}
      /\ Top(phase) < Top(phase2)
  BY PhasesFollow
<1>3. /\ SP!Running' <=> SP!Running
      /\ SP!Running => wanted' = wanted /\ Base' = Base
      /\ SP!Blocked' <=> SP!Blocked
  BY DEF SP!Running, SP!Blocked, Base
<1>4. /\ SP!Running => /\ LastPlace(phase2)' = LastPlace(phase)
                       /\ Tried(phase2)' = Tried(phase)
                       /\ Answered(phase2)' = Answered(phase)
      /\ ~SP!Running => /\ LastPlace(phase2)' = Top(phase2) /\ LastPlace(phase) = Top(phase)
                        /\ Tried(phase2)' = Top(phase2) + 1 /\ Tried(phase) = Top(phase) + 1
                        /\ Answered(phase2)' = Top(phase2) + 1
                        /\ Answered(phase) = Top(phase) + 1
  BY <1>3 DEF LastPlace, Tried, Answered
<1>5. Surplus' = Surplus /\ Unheard' = Unheard /\ (CanSend' <=> CanSend)
  BY DEF Surplus, Unheard, CanSend
<1>6. allocs' = allocs /\ allocs <= Starts(phase) /\ allocs \in Nat
  BY StateNumbers DEF PhaseInv, StartsInv
<1>7. ~SP!Running /\ Moved => Top(phase) = 6
  BY <1>2, <1>4 DEF Moved, PhaseInv, PlacesInv
<1>8. ParamsInv(phase2)'
  BY <1>3, PhasesFollow DEF PhaseInv, ParamsInv
<1>9. StartsInv(phase2)'
  <2>1. SP!Running => curSeq \in {"mdEnable", "setupMotion", "execMotion"}
                      /\ Base + StepCount[curSeq] <= Top(phase2) + 1
    BY <1>2, WhileRunning DEF MoveSequences
  <2>2. Len(completed) + (IF SP!Running THEN 1 ELSE 0) = allocs
    BY DEF PhaseInv, StartsInv
  <2>3. allocs # Starts(phase2) /\ allocs <= Starts(phase2)
    BY <1>2, <1>6
  <2> QED
    BY <1>3, <1>6, <2>1, <2>2, <2>3 DEF StartsInv
<1>10. PlacesInv(phase2)'
  <2>1. LastPlace(phase) \in Int /\ Sent \subseteq Int
    BY <1>2, LastPlaces
  <2>2. LastPlace(phase2)' \in Int /\ LastPlace(phase) <= LastPlace(phase2)'
    BY <1>2, <1>4, <2>1
  <2> QED
    BY <1>5, <2>1, <2>2, PlacesKept DEF PhaseInv
<1>11. Lockstep(phase2)'
  <2> SUFFICES ASSUME Surplus = 0
               PROVE  /\ orders # <<>> =>
                           SP!Running /\ started # <<>> /\ Place(orders[1]) = Base + exec.stepIndex
                      /\ rx # <<>> => Base' + exec.stepIndex \in Done
                      /\ \A r \in 1..7 :
                           /\ r < Answered(phase2)'
                           /\ \/ allocs = Starts(phase2)
                              \/ r \in 4..6 /\ Moved
                              \/ SP!Running /\ r >= Base
                           => r \in Done
    BY <1>1, <1>3, <1>5 DEF Lockstep
  <2>1. rx # <<>> => SP!Running
    BY OneByOne
  <2>2. allocs # Starts(phase2)
    BY <1>2, <1>6
  <2>3. ASSUME NEW r \in 1..7, r \in 4..6, Moved, ~SP!Running PROVE r \in Done
    BY <1>4, <1>7, <2>3 DEF PhaseInv, Lockstep
  <2> QED
    BY <1>3, <1>4, <2>1, <2>2, <2>3 DEF PhaseInv, Lockstep
<1>12. NothingLost(phase2)'
  <2> SUFFICES ASSUME Unheard = 0, CanSend
               PROVE  /\ 3 < Tried(phase2)' /\ allocs = Starts(phase2) => 3 \in Sent
                      /\ 6 < Tried(phase2)' /\ Moved => 6 \in Sent
    BY <1>1, <1>5 DEF NothingLost
  <2>1. allocs # Starts(phase2)
    BY <1>2, <1>6
  <2> QED
    BY <1>4, <1>7, <2>1 DEF PhaseInv, NothingLost
<1> QED
  BY <1>8, <1>9, <1>10, <1>11, <1>12 DEF PhaseInv

(* The call starts the sequence.                                            *)
LEMMA StartAccepted ==
  ASSUME CoreInv, MotionTypes, ProgramInv, NEW phase, NEW phase2, NextPhase(phase, phase2),
         PhaseInv(phase), ~crashed, ~SP!Running,
         UNCHANGED <<increment, params, crashed, completed, refusals,
                     orders, executed, rx, faults, link, socket>>,
         wanted' = params,
         started' = <<>>,
         exec'.stepIndex = 0,
         allocs' = allocs + 1,
         curSeq' = CASE phase = 2 -> "setupMotion" [] phase = 3 -> "execMotion"
                     [] OTHER -> "mdEnable"
  PROVE  PhaseInv(phase2)'
<1>1. /\ Done' = Done /\ UnderWay' = UnderWay /\ Sent' = Sent
      /\ Moved' <=> Moved
  BY PlacesStay
<1>2. /\ phase \in Phases /\ phase2 \in Phases
      /\ phase >= 1 /\ phase2 >= 2
      /\ Starts(phase) \in Nat /\ Starts(phase2) = Starts(phase) + 1
      /\ Top(phase) \in {0, 1, 3, 6} /\ Top(phase2) \in {1, 3, 6, 7}
      /\ phase2 <= 4 <=> phase <= 4
  BY PhasesFollow
<1>3. /\ Has(params, "increment", increment) /\ Has(params, "speed", 1000)
      /\ IsSetOn(params, "md_enable") <=> phase <= 4
  BY <1>2 DEF PhaseInv, ParamsInv
<1>4. /\ SP!Running' /\ curSeq' \in MoveSequences
      /\ Base' = Top(phase) + 1
      /\ Base' + StepCount[curSeq'] = Top(phase2) + 1
  <2>1. curSeq' \in MoveSequences
    BY DEF MoveSequences
  <2>2. Base' = BaseOf(curSeq', params)
    BY DEF Base
  <2>3. SP!Running'
    BY <2>1, AppAssumption DEF SP!Running, MoveSequences
  <2>4. CASE phase = 1 /\ phase2 = 2
    BY <1>3, <2>1, <2>2, <2>3, <2>4, Bases, PhaseNumbers
  <2>5. CASE phase = 2 /\ phase2 = 3
    BY <1>3, <2>1, <2>2, <2>3, <2>5, Bases, PhaseNumbers
  <2>6. CASE phase = 3 /\ phase2 = 4
    BY <1>3, <2>1, <2>2, <2>3, <2>6, Bases, PhaseNumbers
  <2>7. CASE phase = 5 /\ phase2 = 6
    BY <1>3, <2>1, <2>2, <2>3, <2>7, Bases, PhaseNumbers
  <2> QED
    BY <2>4, <2>5, <2>6, <2>7 DEF NextPhase
<1>5. /\ LastPlace(phase2)' = Top(phase) /\ LastPlace(phase) = Top(phase)
      /\ Tried(phase2)' = Top(phase) + 2 /\ Tried(phase) = Top(phase) + 1
      /\ Answered(phase2)' = Top(phase) + 1 /\ Answered(phase) = Top(phase) + 1
  BY <1>2, <1>4 DEF LastPlace, Tried, Answered
<1>6. Surplus' = Surplus /\ Unheard' = Unheard /\ (CanSend' <=> CanSend)
  BY DEF Surplus, Unheard, CanSend
<1>7. /\ allocs \in Nat /\ allocs <= Starts(phase)
      /\ refusals = {} => allocs = Starts(phase)
      /\ Len(completed) = allocs
  BY StateNumbers DEF PhaseInv, StartsInv
<1>8. ParamsInv(phase2)'
  BY <1>2, <1>3 DEF ParamsInv
<1>9. StartsInv(phase2)'
  BY <1>2, <1>4, <1>7 DEF StartsInv, MoveSequences
<1>10. PlacesInv(phase2)'
  <2>1. Top(phase) \in Int /\ Sent \subseteq Int
    BY <1>2, LastPlaces
  <2>2. LastPlace(phase) \in Int /\ LastPlace(phase2)' \in Int
        /\ LastPlace(phase) <= LastPlace(phase2)'
    BY <1>5, <2>1
  <2> QED
    BY <1>6, <2>1, <2>2, PlacesKept DEF PhaseInv
<1>11. Lockstep(phase2)'
  <2> SUFFICES ASSUME Surplus = 0
               PROVE  /\ orders = <<>> /\ rx = <<>>
                      /\ \A r \in 1..7 :
                           /\ r < Top(phase) + 1
                           /\ \/ allocs + 1 = Starts(phase2)
                              \/ r \in 4..6 /\ Moved
                              \/ r >= Top(phase) + 1
                           => r \in Done
    BY <1>1, <1>4, <1>5, <1>6 DEF Lockstep
  <2>1. orders = <<>> /\ rx = <<>>
    BY OneByOne
  <2> QED
    BY <1>2, <1>5, <1>7, <2>1 DEF PhaseInv, Lockstep
<1>12. NothingLost(phase2)'
  <2> SUFFICES ASSUME Unheard = 0, CanSend
               PROVE  /\ 3 < Top(phase) + 2 /\ allocs + 1 = Starts(phase2) => 3 \in Sent
                      /\ 6 < Top(phase) + 2 /\ Moved => 6 \in Sent
    BY <1>1, <1>5, <1>6 DEF NothingLost
  <2> QED
    BY <1>2, <1>5, <1>7 DEF PhaseInv, NothingLost
<1> QED
  BY <1>8, <1>9, <1>10, <1>11, <1>12 DEF PhaseInv

-----------------------------------------------------------------------------
(* Changes of the parameters.                                               *)

(* The same orders under the next phase, which no start leads to.           *)
LEMMA ParametersSet ==
  ASSUME CoreInv, MotionTypes, ProgramInv, NEW phase, NEW phase2,
         <<phase, phase2>> \in {<<0, 0>>, <<0, 1>>, <<4, 5>>},
         PhaseInv(phase),
         UNCHANGED <<increment, wanted, curSeq, exec, started, allocs, completed, refusals,
                     crashed, orders, executed, rx, faults, link, socket>>,
         phase2 = 1 =>
           /\ Has(params', "increment", increment) /\ Has(params', "speed", 1000)
           /\ IsSetOn(params', "md_enable"),
         phase2 = 5 =>
           /\ Has(params, "increment", increment) => Has(params', "increment", increment)
           /\ Has(params, "speed", 1000) => Has(params', "speed", 1000)
           /\ ~IsSetOn(params', "md_enable")
  PROVE  PhaseInv(phase2)'
<1>1. /\ Done' = Done /\ UnderWay' = UnderWay /\ Sent' = Sent
      /\ Moved' <=> Moved
  BY PlacesStay
<1>2. /\ phase \in Phases /\ phase2 \in Phases
      /\ Starts(phase2) = Starts(phase) /\ Top(phase2) = Top(phase)
  BY PhaseNumbers DEF Phases
<1>3. /\ SP!Running' <=> SP!Running
      /\ SP!Blocked' <=> SP!Blocked
      /\ Base' = Base
  BY DEF SP!Running, SP!Blocked, Base
<1>4. /\ LastPlace(phase2)' = LastPlace(phase)
      /\ Tried(phase2)' = Tried(phase)
      /\ Answered(phase2)' = Answered(phase)
  BY <1>2, <1>3 DEF LastPlace, Tried, Answered
<1>5. Surplus' = Surplus /\ Unheard' = Unheard /\ (CanSend' <=> CanSend)
  BY DEF Surplus, Unheard, CanSend
<1>6. ParamsInv(phase2)'
  <2>1. SP!Running => Has(wanted, "increment", increment) /\ Has(wanted, "speed", 1000)
    BY DEF PhaseInv, ParamsInv
  <2>2. phase2 >= 1 =>
          /\ Has(params', "increment", increment) /\ Has(params', "speed", 1000)
          /\ IsSetOn(params', "md_enable") <=> phase2 <= 4
    BY DEF PhaseInv, ParamsInv
  <2> QED
    BY <1>3, <2>1, <2>2 DEF ParamsInv
<1>7. StartsInv(phase2)'
  BY <1>2, <1>3 DEF PhaseInv, StartsInv
<1>8. PlacesInv(phase2)'
  <2>1. LastPlace(phase) \in Int /\ Sent \subseteq Int
    BY <1>2, LastPlaces
  <2> QED
    BY <1>4, <1>5, <2>1, PlacesKept DEF PhaseInv
<1>9. Lockstep(phase2)'
  BY <1>1, <1>2, <1>3, <1>4, <1>5 DEF PhaseInv, Lockstep
<1>10. NothingLost(phase2)'
  BY <1>1, <1>2, <1>3, <1>4, <1>5 DEF PhaseInv, NothingLost
<1> QED
  BY <1>6, <1>7, <1>8, <1>9, <1>10 DEF PhaseInv

-----------------------------------------------------------------------------
(* The end of a sequence.                                                   *)

(* What was sent of the third sequence has been sent to the end.            *)
LEMMA MovedOn ==
  ASSUME CoreInv, MotionTypes, ProgramInv, NEW phase \in Phases, PhaseInv(phase),
         SP!Running, Moved
  PROVE  Base + StepCount[curSeq] \in {7, 8}
<1>1. \E r \in Sent : r >= 4 /\ r <= LastPlace(phase)
  BY DEF Moved, PhaseInv, PlacesInv
<1>2. LastPlace(phase) >= 4
  BY <1>1, LastPlaces
<1> QED
  BY <1>2, WhileRunning

(* The last step is over.                                                   *)
LEMMA SequenceFinishes ==
  ASSUME CoreInv, MotionTypes, ProgramInv, NEW phase \in Phases, PhaseInv(phase),
         SP!FinishEvent,
         UNCHANGED <<increment, params, wanted, crashed, refusals,
                     orders, executed, rx, faults, link, socket>>,
         Len(completed') = Len(completed) + 1
  PROVE  PhaseInv(phase)'
<1>1. /\ Done' = Done /\ UnderWay' = UnderWay /\ Sent' = Sent
      /\ Moved' <=> Moved
  BY PlacesStay
<1>2. /\ SP!Running /\ ~SP!Running'
      /\ pending > 0
      /\ allocs' = allocs /\ started' = started
  BY AppAssumption DEF SP!FinishEvent, SP!Running
<1>3. /\ Base \in {1, 2, 4, 7}
      /\ StepCount[curSeq] \in 1..3
      /\ Base + StepCount[curSeq] <= Top(phase) + 1
      /\ exec.stepIndex \in 0..2
      /\ exec.stepIndex < StepCount[curSeq]
      /\ Top(phase) \in {1, 3, 6, 7}
  BY <1>2, WhileRunning
<1>4. /\ exec.seqState = "EXECUTING" /\ ~exec.stepActive
      /\ exec.stepIndex + 1 >= StepCount[curSeq]
  BY <1>3 DEF SP!FinishEvent, SP!PastEnd, SP!NextIndex
<1>5. exec.stepIndex + 1 = StepCount[curSeq]
  BY <1>3, <1>4
<1>6. /\ LastPlace(phase)' = Top(phase)
      /\ Tried(phase)' = Top(phase) + 1 /\ Tried(phase) = Base + StepCount[curSeq]
      /\ Answered(phase)' = Top(phase) + 1
  BY <1>2, <1>3, <1>5 DEF LastPlace, Tried, Answered
<1>7. Surplus' = Surplus /\ Unheard' = Unheard /\ (CanSend' <=> CanSend)
  BY DEF Surplus, Unheard, CanSend
<1>8. allocs = Starts(phase) => Base + StepCount[curSeq] = Top(phase) + 1
  BY <1>2 DEF PhaseInv, StartsInv
<1>9. Moved => Base + StepCount[curSeq] \in {7, 8}
  BY <1>2, MovedOn
<1>10. ParamsInv(phase)'
  BY <1>2 DEF PhaseInv, ParamsInv
<1>11. StartsInv(phase)'
  <2>1. Len(completed) \in Nat
    BY StateNumbers
  <2>2. /\ allocs <= Starts(phase)
        /\ refusals = {} /\ ~crashed => allocs = Starts(phase)
        /\ Len(completed) + 1 = allocs
    BY <1>2 DEF PhaseInv, StartsInv
  <2> QED
    BY <1>2, <2>1, <2>2 DEF StartsInv
<1>12. PlacesInv(phase)'
  <2>1. /\ LastPlace(phase) \in Int /\ Top(phase) \in Int /\ Sent \subseteq Int
        /\ LastPlace(phase) <= Top(phase)
    BY LastPlaces, PhaseRanges
  <2> QED
    BY <1>6, <1>7, <2>1, PlacesKept DEF PhaseInv
<1>13. Lockstep(phase)'
  <2> SUFFICES ASSUME Surplus = 0
               PROVE  /\ orders = <<>> /\ rx = <<>>
                      /\ \A r \in 1..7 :
                           /\ r < Top(phase) + 1
                           /\ allocs = Starts(phase) \/ (r \in 4..6 /\ Moved)
                           => r \in Done
    BY <1>1, <1>2, <1>6, <1>7 DEF Lockstep
  <2>1. orders = <<>> /\ rx = <<>> /\ ~SP!Blocked
    BY <1>2, OneByOne
  <2>2. started # <<>>
    BY <1>2, <1>4 DEF ProgramInv, SP!OrderInv, SP!StepOrder
  <2>3. Answered(phase) = Base + StepCount[curSeq]
    BY <1>2, <1>3, <1>5, <2>1, <2>2 DEF Answered
  <2>4. \A r \in 1..7 :
          r < Answered(phase) /\ (allocs = Starts(phase) \/ (r \in 4..6 /\ Moved)) => r \in Done
    BY DEF PhaseInv, Lockstep
  <2> QED
    BY <1>8, <1>9, <2>1, <2>3, <2>4
<1>14. NothingLost(phase)'
  <2> SUFFICES ASSUME Unheard = 0, CanSend
               PROVE  /\ 3 < Top(phase) + 1 /\ allocs = Starts(phase) => 3 \in Sent
                      /\ 6 < Top(phase) + 1 /\ Moved => 6 \in Sent
    BY <1>1, <1>2, <1>6, <1>7 DEF NothingLost
  <2>1. /\ 3 < Base + StepCount[curSeq] /\ allocs = Starts(phase) => 3 \in Sent
        /\ 6 < Base + StepCount[curSeq] /\ Moved => 6 \in Sent
    BY <1>6 DEF PhaseInv, NothingLost
  <2> QED
    BY <1>8, <1>9, <2>1
<1> QED
  BY <1>10, <1>11, <1>12, <1>13, <1>14 DEF PhaseInv

-----------------------------------------------------------------------------
(* Steps that send.                                                         *)

(* The step whose turn it is runs, sent or not.                             *)
LEMMA StepRuns ==
  ASSUME CoreInv, MotionTypes, ProgramInv, NEW phase \in Phases, PhaseInv(phase),
         NEW sent \in BOOLEAN, SP!RunStepEvent(sent), wanted' = wanted
  PROVE  /\ SP!Running /\ SP!Running' /\ Base' = Base /\ ~crashed
         /\ UNCHANGED <<curSeq, allocs, crashed>>
         /\ SP!NextIndex \in Nat /\ SP!NextIndex < StepCount[curSeq]
         /\ exec'.stepIndex = SP!NextIndex /\ started' # <<>>
         /\ SP!NextIndex \in {exec.stepIndex, exec.stepIndex + 1}
         /\ LastPlace(phase) < Base + SP!NextIndex
         /\ LastPlace(phase)' = Base + SP!NextIndex
         /\ Tried(phase) = Base + exec.stepIndex + 1
         /\ Tried(phase)' = Base + SP!NextIndex + 1
         /\ Answered(phase)' = Base + SP!NextIndex
         /\ Surplus = 0 => orders = <<>> /\ rx = <<>> /\ Answered(phase) = Base + SP!NextIndex
<1>1. /\ SP!Running /\ pending > 0 /\ ~crashed
      /\ exec.seqState = "EXECUTING"
      /\ exec.stepActive => exec.stepState = "READY"
      /\ UNCHANGED <<curSeq, allocs, crashed>>
      /\ started' = Append(started, SP!NextIndex)
  BY DEF SP!RunStepEvent, SP!heapVars
<1>2. SP!Running' /\ Base' = Base
  BY <1>1 DEF SP!Running, Base
<1>3. /\ Base \in {1, 2, 4, 7}
      /\ exec.stepIndex \in 0..2
      /\ exec.stepIndex < StepCount[curSeq]
      /\ StepCount[curSeq] \in 1..3
      /\ LastPlace(phase) = IF started = <<>> THEN Base - 1 ELSE Base + exec.stepIndex
  BY <1>1, WhileRunning
<1>4. SP!NextIndex = IF exec.stepActive THEN exec.stepIndex ELSE exec.stepIndex + 1
  BY DEF SP!NextIndex
<1>5. SP!NextIndex \in Nat /\ SP!NextIndex < StepCount[curSeq]
  BY <1>3, <1>4 DEF SP!RunStepEvent, SP!PastEnd
<1>6. /\ exec'.stepIndex = SP!NextIndex
      /\ exec'.stepState \in {"WAITRSP", "ERROR"}
  BY DEF SP!RunStepEvent, SP!Readied, CoreInv, SP!TypeOK, SP!Executions
<1>7. started' # <<>>
  BY <1>1, <1>5 DEF CoreInv, SP!TypeOK
<1>8. started # <<>> => SP!NextIndex = exec.stepIndex + 1
  BY <1>1, <1>4 DEF ProgramInv, SP!OrderInv, SP!StepOrder
<1>9. /\ LastPlace(phase)' = Base + SP!NextIndex
      /\ Tried(phase)' = Base + SP!NextIndex + 1
      /\ Answered(phase)' = Base + SP!NextIndex
  BY <1>2, <1>6, <1>7 DEF LastPlace, Tried, Answered, SP!Blocked
<1>10. Tried(phase) = Base + exec.stepIndex + 1
  BY <1>1 DEF Tried
<1>11. ASSUME Surplus = 0
       PROVE  orders = <<>> /\ rx = <<>> /\ Answered(phase) = Base + SP!NextIndex
  <2>1. orders = <<>> /\ rx = <<>> /\ ~SP!Blocked
    BY <1>1, <1>11, OneByOne
  <2>2. unsolicited = 0
    BY <1>11 DEF ProgramInv
  <2>3. started = <<>> => exec.stepIndex = 0 /\ exec.stepActive
    BY <1>1, <2>2 DEF ProgramInv, SP!OrderInv, SP!StepOrder
  <2> QED
    BY <1>1, <1>3, <1>4, <1>8, <2>1, <2>3 DEF Answered
<1> QED
  BY <1>1, <1>2, <1>3, <1>4, <1>5, <1>6, <1>7, <1>8, <1>9, <1>10, <1>11, SMTT(30)

(* What a step changes of the starts: nothing.                              *)
LEMMA StartsStay ==
  ASSUME NEW phase, ParamsInv(phase), StartsInv(phase),
         UNCHANGED <<increment, params, wanted, curSeq, allocs, completed, refusals, crashed>>
  PROVE  ParamsInv(phase)' /\ StartsInv(phase)'
<1>1. (SP!Running' <=> SP!Running) /\ Base' = Base
  BY DEF SP!Running, Base
<1> QED
  BY <1>1 DEF ParamsInv, StartsInv

(* The step cannot send its order.                                          *)
LEMMA StepFails ==
  ASSUME CoreInv, MotionTypes, ProgramInv, NEW phase \in Phases, PhaseInv(phase),
         SP!RunStepEvent(FALSE),
         UNCHANGED <<increment, params, wanted, completed, refusals,
                     orders, executed, rx, link, socket>>,
         Surplus' = Surplus,
         CanSend => Unheard' > 0
  PROVE  PhaseInv(phase)'
<1>1. /\ Done' = Done /\ UnderWay' = UnderWay /\ Sent' = Sent
      /\ Moved' <=> Moved
  BY PlacesStay
<1>2. CanSend' <=> CanSend
  BY DEF CanSend
<1>3. FALSE \in BOOLEAN
  OBVIOUS
<1>4. ParamsInv(phase)' /\ StartsInv(phase)'
  BY <1>3, StepRuns, StartsStay DEF PhaseInv
<1>5. PlacesInv(phase)'
  <2>1. LastPlace(phase) \in Int /\ Sent \subseteq Int
    BY LastPlaces
  <2>2. /\ SP!Running /\ SP!NextIndex \in Nat
        /\ LastPlace(phase) < Base + SP!NextIndex /\ LastPlace(phase)' = Base + SP!NextIndex
    BY <1>3, StepRuns
  <2>3. Base \in {1, 2, 4, 7}
    BY <2>2, WhileRunning
  <2>4. LastPlace(phase)' \in Int /\ LastPlace(phase) <= LastPlace(phase)'
    BY <2>1, <2>2, <2>3
  <2> QED
    BY <1>2, <2>1, <2>4, PlacesKept DEF PhaseInv
<1>6. Lockstep(phase)'
  <2> SUFFICES ASSUME Surplus = 0
               PROVE  /\ orders = <<>> /\ rx = <<>>
                      /\ \A r \in 1..7 :
                           /\ r < Answered(phase)
                           /\ \/ allocs = Starts(phase)
                              \/ r \in 4..6 /\ Moved
                              \/ SP!Running /\ r >= Base
                           => r \in Done
    BY <1>1, <1>3, StepRuns DEF Lockstep
  <2> QED
    BY <1>3, StepRuns DEF PhaseInv, Lockstep
<1>7. NothingLost(phase)'
  <2>1. Unheard' = 0 /\ CanSend' => FALSE
    BY <1>2
  <2> QED
    BY <2>1 DEF NothingLost
<1> QED
  BY <1>4, <1>5, <1>6, <1>7 DEF PhaseInv

(* One more order under way.                                                *)
LEMMA OrderAppended ==
  ASSUME orders \in Seq(Orders), NEW o \in Orders, orders' = Append(orders, o)
  PROVE  /\ orders' \in Seq(Orders) /\ Len(orders') = Len(orders) + 1
         /\ \A i \in DOMAIN orders : i \in DOMAIN orders' /\ orders'[i] = orders[i]
                                     /\ i < Len(orders')
         /\ Len(orders') \in DOMAIN orders' /\ orders'[Len(orders')] = o
         /\ \A i \in DOMAIN orders' : i \in DOMAIN orders \/ i = Len(orders')
         /\ UnderWay' = UnderWay \cup {Place(o)}
         /\ orders = <<>> => orders'[1] = o
<1>1. /\ orders' \in Seq(Orders) /\ Len(orders') = Len(orders) + 1 /\ Len(orders) \in Nat
      /\ DOMAIN orders = 1..Len(orders) /\ DOMAIN orders' = 1..Len(orders')
      /\ \A i \in 1..Len(orders) : orders'[i] = orders[i]
      /\ orders'[Len(orders) + 1] = o
  BY AppendProperties
<1>2. UnderWay' = UnderWay \cup {Place(o)}
  <2>1. UnderWay' = {Place(orders'[i]) : i \in DOMAIN orders'}
    BY DEF UnderWay
  <2> QED
    BY <1>1, <2>1 DEF UnderWay
<1>3. orders = <<>> => orders'[1] = o
  BY <1>1
<1> QED
  BY <1>1, <1>2, <1>3

(* The step sends its order: its place is beyond all others.                *)
LEMMA StepSends ==
  ASSUME CoreInv, MotionTypes, ProgramInv, NEW phase \in Phases, PhaseInv(phase),
         SP!RunStepEvent(TRUE), CanSend,
         UNCHANGED <<increment, params, wanted, completed, refusals,
                     executed, rx, faults, link, socket>>,
         orders' = Append(orders, Order(SP!NextIndex))
  PROVE  PhaseInv(phase)' /\ Order(SP!NextIndex) \in Orders
<1> DEFINE o == Order(SP!NextIndex)
           p == Base + SP!NextIndex
<1>0. TRUE \in BOOLEAN
  OBVIOUS
<1>1. /\ SP!Running /\ SP!Running' /\ Base' = Base /\ ~crashed
      /\ UNCHANGED <<curSeq, allocs, crashed>>
      /\ SP!NextIndex \in Nat /\ SP!NextIndex < StepCount[curSeq]
      /\ exec'.stepIndex = SP!NextIndex /\ started' # <<>>
      /\ SP!NextIndex \in {exec.stepIndex, exec.stepIndex + 1}
      /\ LastPlace(phase) < p
      /\ LastPlace(phase)' = p
      /\ Tried(phase) = Base + exec.stepIndex + 1
      /\ Tried(phase)' = p + 1
      /\ Answered(phase)' = p
      /\ Surplus = 0 => orders = <<>> /\ rx = <<>> /\ Answered(phase) = p
  BY <1>0, StepRuns
<1>2. o \in Orders /\ Place(o) = p /\ OrderOK(o)
  BY <1>1, OrderSent
<1>3. /\ Base \in {1, 2, 4, 7} /\ StepCount[curSeq] \in 1..3
      /\ Base + StepCount[curSeq] \in {2, 4, 7, 8}
      /\ exec.stepIndex \in 0..2
  BY <1>1, WhileRunning
<1>4. p \in 1..7 /\ (p \in 4..6 => Base = 4)
  BY <1>1, <1>3, <1>2, Places
<1>5. orders \in Seq(Orders)
  BY DEF MotionTypes
<1> HIDE DEF o
<1>a. orders' = Append(orders, o)
  BY DEF o
<1>6. Done' = Done /\ UnderWay' = UnderWay \cup {p} /\ Sent' = Sent \cup {p}
  <2>1. UnderWay' = UnderWay \cup {p}
    BY <1>2, <1>5, <1>a, OrderAppended
  <2> QED
    BY <2>1 DEF Done, Sent
<1>7. Surplus' = Surplus /\ Unheard' = Unheard /\ CanSend'
  BY DEF Surplus, Unheard, CanSend
<1>8. Moved' <=> Moved \/ p \in 4..6
  BY <1>6 DEF Moved
<1>9. ParamsInv(phase)' /\ StartsInv(phase)'
  BY <1>1, StartsStay DEF PhaseInv
<1>10. PlacesInv(phase)'
  <2>1. \A r \in Sent : r < p /\ r \in Int
    <3>1. \A r \in Sent : r <= LastPlace(phase)
      BY Zenon DEF PhaseInv, PlacesInv
    <3>2. LastPlace(phase) \in Int /\ Sent \subseteq 1..7
      BY LastPlaces, Zenon
    <3>3. LastPlace(phase) < p
      BY <1>1, Zenon
    <3> HIDE DEF p
    <3> QED
      BY <1>4, <3>1, <3>2, <3>3
  <2>2. /\ \A i \in DOMAIN orders : i \in DOMAIN orders' /\ orders'[i] = orders[i]
                                    /\ i < Len(orders')
        /\ orders'[Len(orders')] = o
        /\ \A i \in DOMAIN orders' : i \in DOMAIN orders \/ i = Len(orders')
        /\ \A i \in DOMAIN orders' : i \in Nat
        /\ Len(orders') \in Nat
    BY <1>2, <1>5, <1>a, OrderAppended
  <2>3. \A i \in DOMAIN orders : Place(orders[i]) \in Sent
    BY DEF Sent, UnderWay
  <2>4. /\ \A i, j \in DOMAIN orders : i < j => Place(orders[i]) < Place(orders[j])
        /\ \A i \in DOMAIN orders : OrderOK(orders[i])
        /\ \A e \in executed : OrderOK(e.order)
        /\ \A r \in Done, q \in UnderWay : r < q
    BY DEF PhaseInv, PlacesInv
  <2>5. \A i, j \in DOMAIN orders' : i < j => Place(orders'[i]) < Place(orders'[j])
    BY <1>2, <2>1, <2>2, <2>3, <2>4
  <2>6. \A i \in DOMAIN orders' : OrderOK(orders'[i])
    BY <1>2, <2>2, <2>4
  <2>7. \A r \in Done', q \in UnderWay' : r < q
    BY <1>6, <2>1, <2>4 DEF Sent
  <2>8. \A r \in Sent' : r <= LastPlace(phase)'
    BY <1>1, <1>4, <1>6, <2>1
  <2>9. (\A i \in DOMAIN orders : OrderOK(orders[i]))' /\ (\A e \in executed : OrderOK(e.order))'
    BY <2>4, <2>6 DEF OrderOK
  <2> QED
    BY <1>7, <2>5, <2>7, <2>8, <2>9 DEF PlacesInv
<1>11. Lockstep(phase)'
  <2> SUFFICES ASSUME Surplus = 0
               PROVE  /\ Place(orders'[1]) = p
                      /\ rx = <<>>
                      /\ \A r \in 1..7 :
                           /\ r < p
                           /\ \/ allocs = Starts(phase)
                              \/ r \in 4..6 /\ Moved'
                              \/ r >= Base
                           => r \in Done
    BY <1>1, <1>6, <1>7 DEF Lockstep
  <2>1. orders = <<>> /\ rx = <<>> /\ Answered(phase) = p
    BY <1>1
  <2>2. Place(orders'[1]) = p
    BY <1>2, <1>5, <1>a, <2>1, OrderAppended
  <2>3. \A r \in 1..7 :
          /\ r < p
          /\ \/ allocs = Starts(phase)
             \/ r \in 4..6 /\ Moved
             \/ r >= Base
          => r \in Done
    BY <1>1, <2>1 DEF PhaseInv, Lockstep
  <2> QED
    BY <1>4, <1>8, <2>1, <2>2, <2>3
<1>12. NothingLost(phase)'
  <2> SUFFICES ASSUME Unheard = 0
               PROVE  /\ 3 < p + 1 /\ allocs = Starts(phase) => 3 \in Sent \cup {p}
                      /\ 6 < p + 1 /\ Moved' => 6 \in Sent \cup {p}
    BY <1>1, <1>6, <1>7 DEF NothingLost
  <2>1. /\ 3 < Base + exec.stepIndex + 1 /\ allocs = Starts(phase) => 3 \in Sent
        /\ 6 < Base + exec.stepIndex + 1 /\ Moved => 6 \in Sent
    BY <1>1 DEF PhaseInv, NothingLost
  <2>2. p \in {Base + exec.stepIndex, Base + exec.stepIndex + 1}
    BY <1>1, <1>3
  <2> QED
    BY <1>3, <1>4, <1>8, <2>1, <2>2
<1> QED
  BY <1>2, <1>9, <1>10, <1>11, <1>12 DEF PhaseInv, o

-----------------------------------------------------------------------------
(* The controller.                                                          *)

Behind == {Place(orders[i]) : i \in 2..Len(orders)}

(* The oldest order and those behind it.                                    *)
LEMMA OldestOrder ==
  ASSUME MotionTypes, NEW phase, PlacesInv(phase), orders # <<>>
  PROVE  /\ orders[1] \in Orders /\ Head(orders) = orders[1] /\ OrderOK(orders[1])
         /\ UnderWay = Behind \cup {Place(orders[1])}
         /\ \A q \in Behind : Place(orders[1]) < q
         /\ \A r \in Done : r < Place(orders[1])
         /\ Tail(orders) \in Seq(Orders) /\ Len(Tail(orders)) = Len(orders) - 1
         /\ \A i \in DOMAIN Tail(orders) :
              i + 1 \in DOMAIN orders /\ i \in Nat /\ Tail(orders)[i] = orders[i + 1]
         /\ {Place(Tail(orders)[i]) : i \in DOMAIN Tail(orders)} = Behind
<1>1. /\ orders \in Seq(Orders) /\ Len(orders) \in Nat /\ Len(orders) >= 1
      /\ DOMAIN orders = 1..Len(orders)
  BY DEF MotionTypes
<1>2. /\ Tail(orders) \in Seq(Orders) /\ Len(Tail(orders)) = Len(orders) - 1
      /\ DOMAIN Tail(orders) = 1..(Len(orders) - 1)
      /\ \A i \in 1..(Len(orders) - 1) : Tail(orders)[i] = orders[i + 1]
  BY <1>1
<1>3. {Place(Tail(orders)[i]) : i \in DOMAIN Tail(orders)} = Behind
  <2>1. \A i \in 1..(Len(orders) - 1) : i + 1 \in 2..Len(orders) /\ Tail(orders)[i] = orders[i + 1]
    BY <1>1, <1>2
  <2>2. \A k \in 2..Len(orders) : k - 1 \in 1..(Len(orders) - 1) /\ Tail(orders)[k - 1] = orders[k]
    BY <1>1, <1>2
  <2> QED
    BY <1>2, <2>1, <2>2 DEF Behind
<1>4. UnderWay = Behind \cup {Place(orders[1])}
  <2>1. 1..Len(orders) = {1} \cup 2..Len(orders)
    BY <1>1
  <2> QED
    BY <1>1, <2>1 DEF UnderWay, Behind
<1>5. \A q \in Behind : Place(orders[1]) < q
  BY <1>1 DEF PlacesInv, Behind
<1>6. \A r \in Done : r < Place(orders[1])
  BY <1>4 DEF PlacesInv
<1>7. orders[1] \in Orders /\ Head(orders) = orders[1] /\ OrderOK(orders[1])
  BY <1>1 DEF PlacesInv
<1>8. \A i \in DOMAIN Tail(orders) :
        i + 1 \in DOMAIN orders /\ i \in Nat /\ Tail(orders)[i] = orders[i + 1]
  BY <1>1, <1>2
<1> QED
  BY <1>2, <1>3, <1>4, <1>5, <1>6, <1>7, <1>8

\* The oldest order has left tx: executed, or lost.
OldestLeaves ==
  /\ orders # <<>>
  /\ orders' = Tail(orders)
  /\ \/ Executes(Head(orders))
     \/ UNCHANGED <<motor, executed>> /\ rx' = rx /\ Unheard' > 0

(* What has been executed since.                                            *)
LEMMA OldestGoes ==
  ASSUME MotionTypes, NEW phase, PlacesInv(phase), OldestLeaves
  PROVE  /\ Done' = Done \cup {Place(orders[1])} \/ Done' = Done
         /\ Executes(Head(orders)) => Done' = Done \cup {Place(orders[1])}
         /\ UnderWay' = Behind
         /\ Sent' \subseteq Sent
         /\ Executes(Head(orders)) => Sent' = Sent
         /\ Moved' => Moved
<1>1. /\ Head(orders) = orders[1] /\ UnderWay = Behind \cup {Place(orders[1])}
      /\ {Place(Tail(orders)[i]) : i \in DOMAIN Tail(orders)} = Behind
  BY OldestOrder DEF OldestLeaves
<1>2. UnderWay' = Behind
  BY <1>1 DEF OldestLeaves, UnderWay
<1>3. ASSUME Executes(Head(orders)) PROVE Done' = Done \cup {Place(orders[1])}
  <2> DEFINE new == [order |-> orders[1], motor |-> motor]
  <2>1. executed' = executed \cup {new} /\ new.order = orders[1]
    BY <1>1, <1>3 DEF Executes
  <2> HIDE DEF new
  <2>2. Done' = {Place(e.order) : e \in executed'}
    BY DEF Done
  <2> QED
    BY <2>1, <2>2 DEF Done
<1>4. executed' = executed => Done' = Done
  BY DEF Done
<1>5. Done' = Done \cup {Place(orders[1])} \/ Done' = Done
  BY <1>3, <1>4 DEF OldestLeaves
<1> QED
  BY <1>1, <1>2, <1>3, <1>5 DEF Sent, Moved

(* The places keep their order when the oldest one leaves.                  *)
LEMMA PlacesAfterLeaving ==
  ASSUME CoreInv, MotionTypes, ProgramInv, NEW phase \in Phases, PhaseInv(phase),
         OldestLeaves,
         UNCHANGED <<increment, refusals>>,
         LastPlace(phase)' = LastPlace(phase),
         CanSend' <=> CanSend
  PROVE  PlacesInv(phase)'
<1>0. PlacesInv(phase) /\ orders # <<>> /\ orders' = Tail(orders)
  BY DEF PhaseInv, OldestLeaves
<1>1. /\ orders[1] \in Orders /\ Head(orders) = orders[1] /\ OrderOK(orders[1])
      /\ \A q \in Behind : Place(orders[1]) < q
      /\ \A r \in Done : r < Place(orders[1])
      /\ \A i \in DOMAIN Tail(orders) :
           i + 1 \in DOMAIN orders /\ i \in Nat /\ Tail(orders)[i] = orders[i + 1]
      /\ UnderWay = Behind \cup {Place(orders[1])}
  BY <1>0, OldestOrder
<1>2. /\ Done' = Done \cup {Place(orders[1])} \/ Done' = Done
      /\ UnderWay' = Behind
      /\ Sent' \subseteq Sent
  BY <1>0, OldestGoes
<1>3. /\ \A i, j \in DOMAIN orders : i < j => Place(orders[i]) < Place(orders[j])
      /\ \A i \in DOMAIN orders : OrderOK(orders[i])
      /\ \A e \in executed : OrderOK(e.order)
      /\ \A r \in Done, q \in UnderWay : r < q
      /\ \A r \in Sent : r <= LastPlace(phase)
      /\ Sent # {} => CanSend
  BY <1>0 DEF PlacesInv
<1>4. \A i, j \in DOMAIN orders' : i < j => Place(orders'[i]) < Place(orders'[j])
  <2> SUFFICES ASSUME NEW i \in DOMAIN Tail(orders), NEW j \in DOMAIN Tail(orders), i < j
               PROVE  Place(Tail(orders)[i]) < Place(Tail(orders)[j])
    BY <1>0
  <2>1. i + 1 \in DOMAIN orders /\ j + 1 \in DOMAIN orders /\ i + 1 < j + 1
    BY <1>1
  <2> QED
    BY <1>1, <1>3, <2>1
<1>5. \A i \in DOMAIN orders' : OrderOK(orders'[i])
  BY <1>0, <1>1, <1>3
<1>6. \A e \in executed' : OrderOK(e.order)
  BY <1>1, <1>3 DEF OldestLeaves, Executes
<1>7. (\A i \in DOMAIN orders : OrderOK(orders[i]))' /\ (\A e \in executed : OrderOK(e.order))'
  BY <1>5, <1>6 DEF OrderOK
<1>8. \A r \in Done', q \in UnderWay' : r < q
  BY <1>1, <1>2, <1>3
<1>9. /\ \A r \in Sent' : r <= LastPlace(phase)
      /\ Sent' # {} => CanSend
  BY <1>2, <1>3
<1> QED
  BY <1>4, <1>7, <1>8, <1>9 DEF PlacesInv

(* The phase when the oldest order leaves.                                  *)
LEMMA OrderLeaves ==
  ASSUME CoreInv, MotionTypes, ProgramInv, NEW phase \in Phases, PhaseInv(phase),
         OldestLeaves,
         UNCHANGED <<increment, params, wanted, curSeq, exec, started, allocs, refusals,
                     completed, crashed, link, socket>>,
         Surplus' \in Nat, Unheard' \in Nat, Surplus' >= Surplus, Unheard' >= Unheard
  PROVE  PhaseInv(phase)'
<1>0. PlacesInv(phase) /\ orders # <<>> /\ orders' = Tail(orders)
  BY DEF PhaseInv, OldestLeaves
<1>1. /\ SP!Running' <=> SP!Running
      /\ Base' = Base /\ LastPlace(phase)' = LastPlace(phase) /\ Tried(phase)' = Tried(phase)
      /\ Answered(phase)' = Answered(phase)
      /\ CanSend' <=> CanSend
  BY DEF SP!Running, SP!Blocked, Base, LastPlace, Tried, Answered, CanSend
<1>2. /\ Done' = Done \cup {Place(orders[1])} \/ Done' = Done
      /\ Executes(Head(orders)) => Done' = Done \cup {Place(orders[1])} /\ Sent' = Sent
      /\ Moved' => Moved
  BY <1>0, OldestGoes
<1>3. ParamsInv(phase)' /\ StartsInv(phase)'
  BY StartsStay DEF PhaseInv
<1>4. PlacesInv(phase)'
  BY <1>1, PlacesAfterLeaving
<1>5. Lockstep(phase)'
  <2> SUFFICES ASSUME Surplus' = 0
               PROVE  /\ orders' = <<>>
                      /\ rx' # <<>> => Base + exec.stepIndex \in Done'
                      /\ \A r \in 1..7 :
                           /\ r < Answered(phase)
                           /\ \/ allocs = Starts(phase)
                              \/ r \in 4..6 /\ Moved
                              \/ SP!Running /\ r >= Base
                           => r \in Done
    BY <1>1, <1>2 DEF Lockstep
  <2>1. Surplus = 0
    BY StateNumbers
  <2>2. Len(orders) <= 1 /\ rx = <<>>
    BY <1>0, <2>1, OneByOne
  <2>3. orders' = <<>>
    <3>1. Tail(orders) \in Seq(Orders) /\ Len(Tail(orders)) = Len(orders) - 1
          /\ Len(orders) \in Nat
      BY <1>0, OldestOrder DEF MotionTypes
    <3> QED
      BY <1>0, <2>2, <3>1
  <2>4. Place(orders[1]) = Base + exec.stepIndex
    BY <1>0, <2>1 DEF PhaseInv, Lockstep
  <2> QED
    BY <1>2, <2>1, <2>2, <2>3, <2>4 DEF PhaseInv, Lockstep, OldestLeaves
<1>6. NothingLost(phase)'
  <2> SUFFICES ASSUME Unheard' = 0, CanSend
               PROVE  /\ 3 < Tried(phase) /\ allocs = Starts(phase) => 3 \in Sent'
                      /\ 6 < Tried(phase) /\ Moved => 6 \in Sent'
    BY <1>1, <1>2 DEF NothingLost
  <2>1. Unheard = 0 /\ Sent' = Sent
    BY <1>2, StateNumbers DEF OldestLeaves
  <2> QED
    BY <2>1 DEF PhaseInv, NothingLost
<1> QED
  BY <1>3, <1>4, <1>5, <1>6 DEF PhaseInv

-----------------------------------------------------------------------------
(* The motor.                                                               *)

\* An order finds the motor as the properties ask for.
Due(order, m) ==
  /\ (order.cmd = BeginMotion /\ refusals = {}) =>
       /\ m.driver \/ Surplus > 0
       /\ m.target = increment \/ Surplus > 0
       /\ m.speed = 1000 \/ (Surplus > 0 /\ Unheard > 0)
  /\ (order.cmd = MDEnable /\ order.data = 0 /\ m.moving) => Surplus > 0 /\ Unheard > 0

(* So does the oldest order.                                                *)
LEMMA OldestIsDue ==
  ASSUME CoreInv, MotionTypes, ProgramInv, MotorInv, NEW phase \in Phases, PhaseInv(phase),
         orders # <<>>, ~crashed
  PROVE  Due(orders[1], motor)
<1> DEFINE p == Place(orders[1])
<1>1. /\ orders[1] \in Orders
      /\ UnderWay = Behind \cup {p}
      /\ \A q \in Behind : p < q
      /\ \A r \in Done : r < p
  BY OldestOrder DEF PhaseInv
<1>2. /\ p \in 1..7
      /\ orders[1].cmd = BeginMotion => p = 4
      /\ orders[1].cmd = MDEnable => p \in {1, 7}
  BY <1>1, Places
<1> HIDE DEF p
<1>3. /\ p \in Sent
      /\ \A r \in Sent : r < p => r \in Done
      /\ Done \subseteq Sent /\ Done \subseteq 1..7 /\ Sent \subseteq 1..7
  BY <1>1, <1>2, LastPlaces, StateNumbers, SMTT(30) DEF Sent
<1>4. p < Tried(phase) /\ CanSend /\ Tried(phase) \in Int
  <2>1. p <= LastPlace(phase) /\ CanSend
    BY <1>3 DEF PhaseInv, PlacesInv
  <2> QED
    BY <1>2, <2>1, LastPlaces
<1>5. Surplus = 0 \/ Surplus > 0
  BY StateNumbers
<1>6. Unheard = 0 \/ Unheard > 0
  BY StateNumbers
<1>7. refusals = {} => allocs = Starts(phase)
  BY DEF PhaseInv, StartsInv
<1>8. ASSUME Surplus = 0
      PROVE  \A r \in 1..7 : r < p /\ (allocs = Starts(phase) \/ (r \in 4..6 /\ Moved)) => r \in Done
  <2>1. SP!Running /\ started # <<>> /\ p = Base + exec.stepIndex
    BY <1>8 DEF PhaseInv, Lockstep, p
  <2>2. Answered(phase) >= p
    BY <2>1, WhileRunning DEF Answered
  <2>3. \A r \in 1..7 : r < p => r < Answered(phase)
    BY <1>2, <2>2, LastPlaces
  <2> QED
    BY <1>8, <2>3 DEF PhaseInv, Lockstep
<1>9. ASSUME Unheard = 0
      PROVE  /\ 3 < p /\ allocs = Starts(phase) => 3 \in Done
             /\ 6 < p /\ Moved => 6 \in Done
  <2>1. /\ 3 < Tried(phase) /\ allocs = Starts(phase) => 3 \in Sent
        /\ 6 < Tried(phase) /\ Moved => 6 \in Sent
    BY <1>4, <1>9 DEF PhaseInv, NothingLost
  <2> QED
    BY <1>2, <1>3, <1>4, <2>1
<1>10. ASSUME orders[1].cmd = BeginMotion, refusals = {}
       PROVE  /\ motor.driver \/ Surplus > 0
              /\ motor.target = increment \/ Surplus > 0
              /\ motor.speed = 1000 \/ (Surplus > 0 /\ Unheard > 0)
  <2>1. p = 4 /\ 7 \notin Done /\ allocs = Starts(phase)
    BY <1>1, <1>2, <1>7, <1>10
  <2>2. Surplus = 0 => 1 \in Done /\ 2 \in Done /\ 3 \in Done
    BY <1>8, <2>1
  <2>3. Unheard = 0 => 3 \in Done
    BY <1>9, <2>1
  <2> QED
    BY <1>5, <1>6, <1>10, <2>1, <2>2, <2>3 DEF MotorInv
<1>11. ASSUME orders[1].cmd = MDEnable, orders[1].data = 0, motor.moving
       PROVE  Surplus > 0 /\ Unheard > 0
  <2>1. 4 \in Done /\ 6 \notin Done
    BY <1>11 DEF MotorInv
  <2>2. p = 7
    BY <1>1, <1>2, <1>11, <2>1
  <2>3. Moved
    BY <1>3, <2>1 DEF Moved
  <2>4. Surplus = 0 => 6 \in Done
    BY <1>8, <2>2, <2>3
  <2>5. Unheard = 0 => 6 \in Done
    BY <1>9, <2>2, <2>3
  <2> QED
    BY <1>5, <1>6, <2>1, <2>4, <2>5
<1> QED
  BY <1>10, <1>11 DEF Due

(* What the orders executed have made of the motor, after one more.         *)
LEMMA MotorMoves ==
  ASSUME MotionTypes, MotorInv, NEW phase, PlacesInv(phase), orders # <<>>,
         Executes(Head(orders)), orders' = Tail(orders), UNCHANGED <<increment, refusals>>
  PROVE  MotorInv' /\ motor' \in Motors
<1> DEFINE p == Place(orders[1])
           o == orders[1]
<1>1. /\ o \in Orders /\ OrderOK(o) /\ Head(orders) = o
      /\ \A r \in Done : r < p
  BY OldestOrder
<1>2. motor \in Motors
  BY DEF MotionTypes
<1>3. motor' = After(o, motor)
  BY <1>1 DEF Executes
<1>4. Done' = Done \cup {p}
  BY OldestGoes DEF OldestLeaves
<1>5. p \in 1..7
  BY <1>1, Places
<1> HIDE DEF o
<1>6. /\ motor' \in Motors
      /\ p = 1 => /\ refusals = {} => motor'.driver
                  /\ motor'.moving => motor.moving
      /\ p = 7 => ~motor'.driver /\ ~motor'.moving
      /\ p \notin {1, 7} => motor'.driver = motor.driver
      /\ motor'.target = IF p = 2 THEN increment ELSE motor.target
      /\ motor'.speed = IF p = 3 THEN 1000 ELSE motor.speed
      /\ p \in {2, 3, 5} => motor'.moving = motor.moving
      /\ p = 6 => ~motor'.moving
  BY <1>1, <1>2, <1>3, OrderWorks DEF o
<1> HIDE DEF p
<1>7. motor.driver \in BOOLEAN /\ motor'.driver \in BOOLEAN
  BY <1>2, <1>6 DEF Motors
<1>8. 1 \in Done' /\ 7 \notin Done' /\ refusals = {} => motor'.driver
  <2>1. CASE p = 1
    BY <1>6, <2>1
  <2>2. CASE p = 7
    BY <1>4, <2>2
  <2>3. CASE p \notin {1, 7}
    BY <1>4, <1>6, <2>3 DEF MotorInv
  <2> QED
    BY <2>1, <2>2, <2>3
<1>9. 2 \in Done' => motor'.target = increment
  BY <1>4, <1>6 DEF MotorInv
<1>10. 3 \in Done' => motor'.speed = 1000
  BY <1>4, <1>6 DEF MotorInv
<1>11. motor'.moving => 4 \in Done' /\ 6 \notin Done' /\ 7 \notin Done'
  <2>1. CASE p = 4
    BY <1>1, <1>4, <2>1 DEF p
  <2>2. CASE p \in {6, 7}
    BY <1>6, <2>2
  <2>3. CASE p \in {1, 2, 3, 5}
    <3>1. motor'.moving => motor.moving
      BY <1>6, <2>3
    <3> QED
      BY <1>4, <2>3, <3>1 DEF MotorInv
  <2> QED
    BY <1>5, <2>1, <2>2, <2>3
<1>12. 7 \in Done' => ~motor'.driver
  <2>1. 7 \in Done => FALSE
    BY <1>1, <1>5 DEF p
  <2> QED
    BY <1>4, <1>6, <2>1
<1> QED
  BY <1>6, <1>8, <1>9, <1>10, <1>11, <1>12 DEF MotorInv

(* The motor while no order is executed.                                    *)
LEMMA MotorKept ==
  ASSUME MotorInv, Done' = Done, increment' = increment,
         motor' = motor \/ motor' = [motor EXCEPT !.moving = FALSE],
         motor \in Motors, refusals \subseteq refusals'
  PROVE  MotorInv' /\ motor' \in Motors
<1>1. /\ motor' \in Motors
      /\ motor'.driver = motor.driver /\ motor'.target = motor.target
      /\ motor'.speed = motor.speed
      /\ motor'.moving => motor.moving
  BY DEF Motors
<1> QED
  BY <1>1 DEF MotorInv

-----------------------------------------------------------------------------
(* The steps of the program and of the controller, one by one.              *)

(* Faults are only added.                                                   *)
LEMMA CountsGrow ==
  ASSUME CoreInv, [Next]_vars
  PROVE  /\ Surplus \in Nat /\ Surplus' \in Nat /\ Surplus' >= Surplus
         /\ Unheard \in Nat /\ Unheard' \in Nat /\ Unheard' >= Unheard
<1>1. \A k \in AllFaults : faults'[k] \in Nat /\ faults[k] \in Nat /\ faults'[k] >= faults[k]
  BY FaultsGrow
<1>2. {"stray", "duplicate", "lose", "sendFail"} \subseteq AllFaults
  BY FaultsAre
<1> QED
  BY <1>1, <1>2 DEF Surplus, Unheard

(* What an order found when it was executed stays excused.                  *)
LEMMA DueStays ==
  ASSUME CoreInv, [Next]_vars, increment' = increment, refusals \subseteq refusals',
         NEW order, NEW m, Due(order, m)
  PROVE  Due(order, m)'
  BY CountsGrow DEF Due

(* The properties look at one execution after the other.                    *)
LEMMA DueIs ==
  MotionPrepared /\ StoppedBeforeOff <=> \A e \in executed : Due(e.order, e.motor)
  BY DEF MotionPrepared, StoppedBeforeOff, Due

(* The executions so far, and perhaps one more.                             *)
LEMMA ExecutionsDue ==
  ASSUME CoreInv, [Next]_vars, MotionPrepared, StoppedBeforeOff,
         increment' = increment, refusals \subseteq refusals',
         \A e \in executed' : e \in executed \/ Due(e.order, e.motor)
  PROVE  MotionPrepared' /\ StoppedBeforeOff'
<1>1. \A e \in executed' : Due(e.order, e.motor)
  BY DueIs
<1>2. \A e \in executed' : Due(e.order, e.motor)'
  BY <1>1, DueStays
<1> QED
  BY <1>2 DEF MotionPrepared, StoppedBeforeOff, Due

(* What remains of the invariant when the orders stay.                      *)
LEMMA OrdersStay ==
  ASSUME CoreInv, MoveInv, [Next]_vars,
         UNCHANGED <<increment, orders, executed, tx>>, refusals \subseteq refusals',
         motor' = motor \/ motor' = [motor EXCEPT !.moving = FALSE],
         NEW phase \in Phases, NEW plan \in RunPlans, At(phase, plan)', PhaseInv(phase)'
  PROVE  MoveInv'
<1>1. MotorInv' /\ motor' \in Motors
  BY PlacesStay, MotorKept DEF MoveInv, MotionTypes
<1>2. MotionTypes'
  BY <1>1 DEF MoveInv, MotionTypes
<1>3. MotionPrepared' /\ StoppedBeforeOff'
  BY ExecutionsDue DEF MoveInv
<1> QED
  BY <1>1, <1>2, <1>3 DEF MoveInv

(* Steps that leave the execution of the sequence alone as well.            *)
LEMMA QuietStep ==
  ASSUME CoreInv, ProgramInv, MoveInv, [Next]_vars,
         NEW phase \in Phases, NEW plan \in RunPlans, At(phase, plan)', PhaseInv(phase),
         UNCHANGED <<increment, params, wanted, curSeq, started, allocs, refusals, completed,
                     orders, executed, tx>>,
         crashed => crashed',
         exec'.stepIndex = exec.stepIndex,
         motor' = motor \/ motor' = [motor EXCEPT !.moving = FALSE],
         rx' # <<>> => rx # <<>> \/ Surplus' > 0,
         (CanSend' <=> CanSend) \/ phase = 0,
         Surplus' = 0 => \A r \in 1..7 : r < Answered(phase)' => r < Answered(phase) \/ r \in Done
  PROVE  MoveInv'
<1>1. PhaseInv(phase)'
  BY CountsGrow, Unmoved DEF MoveInv
<1> QED
  BY <1>1, OrdersStay

(* Calls of setValue; nothing of the program moves.                         *)
LEMMA SetValueKeeps ==
  ASSUME CoreInv, ProgramInv, MoveInv, SetValueCall
  PROVE  MoveInv'
<1>1. PICK phase \in Phases, plan \in RunPlans : At(phase, plan) /\ PhaseInv(phase)
  BY DEF MoveInv
<1>2. /\ todo # <<>> /\ todo' = Tail(todo) /\ Head(todo)[1] = "setValue"
      /\ params' = SetValue(params, Head(todo)[2], Head(todo)[3])
      /\ UNCHANGED <<increment, wanted, orders, motor, executed>>
      /\ UNCHANGED <<curSeq, exec, started, allocs, completed, refusals, crashed, tx, rx, faults,
                     link, socket>>
  BY DEF SetValueCall, Calling, seqVars, histVars, busVars, openVars
<1>3. increment \in Increments /\ MotionTypes
  BY DEF MoveInv, MotionTypes
<1>4. Leads(phase, Head(todo), plan)
  BY <1>1, <1>2, <1>3, CallLeads
<1>5. \/ phase = 0 /\ At(0, plan)'
      \/ /\ phase = 0 /\ At(1, plan)'
         /\ Has(params, "increment", increment) /\ Has(params, "speed", 1000)
         /\ params' = SetValue(params, "md_enable", "on")
      \/ /\ phase = 4 /\ At(5, plan)'
         /\ params' = SetValue(params, "md_enable", "off")
  BY <1>2, <1>4 DEF Leads
<1>6. ASSUME NEW phase2 \in Phases, At(phase2, plan)', PhaseInv(phase2)' PROVE MoveInv'
  <2>1. Surplus' = Surplus /\ Unheard' = Unheard
    BY <1>2 DEF Surplus, Unheard
  <2>2. MotorInv' /\ motor' \in Motors
    BY <1>2, <1>3, PlacesStay, MotorKept DEF MoveInv, MotionTypes
  <2>3. MotionTypes'
    BY <1>2, <2>2 DEF MoveInv, MotionTypes
  <2>4. MotionPrepared' /\ StoppedBeforeOff'
    BY <1>2, <2>1 DEF MoveInv, MotionPrepared, StoppedBeforeOff
  <2> QED
    BY <1>6, <2>2, <2>3, <2>4 DEF MoveInv
<1>7. CASE phase = 0 /\ At(0, plan)'
  <2>1. PhaseInv(0)'
    BY <1>1, <1>2, <1>3, <1>7, ParametersSet
  <2> QED
    BY <1>6, <1>7, <2>1 DEF Phases
<1>8. CASE /\ phase = 0 /\ At(1, plan)'
           /\ Has(params, "increment", increment) /\ Has(params, "speed", 1000)
           /\ params' = SetValue(params, "md_enable", "on")
  <2>1. /\ Has(params', "increment", increment) /\ Has(params', "speed", 1000)
        /\ IsSetOn(params', "md_enable")
    BY <1>8, SetValues DEF IsSetOn, Has
  <2>2. PhaseInv(1)'
    BY <1>1, <1>2, <1>3, <1>8, <2>1, ParametersSet
  <2> QED
    BY <1>6, <1>8, <2>2 DEF Phases
<1>9. CASE /\ phase = 4 /\ At(5, plan)'
           /\ params' = SetValue(params, "md_enable", "off")
  <2>1. /\ Has(params, "increment", increment) => Has(params', "increment", increment)
        /\ Has(params, "speed", 1000) => Has(params', "speed", 1000)
        /\ ~IsSetOn(params', "md_enable")
    BY <1>9, SetValues DEF IsSetOn
  <2>2. PhaseInv(5)'
    BY <1>1, <1>2, <1>3, <1>9, <2>1, ParametersSet
  <2> QED
    BY <1>6, <1>9, <2>2 DEF Phases
<1> QED
  BY <1>5, <1>7, <1>8, <1>9

(* Calls of startSequence.                                                  *)
LEMMA StartKeeps ==
  ASSUME CoreInv, ProgramInv, MoveInv, StartMotionCall
  PROVE  MoveInv'
<1>1. PICK phase \in Phases, plan \in RunPlans : At(phase, plan) /\ PhaseInv(phase)
  BY DEF MoveInv
<1>2. /\ todo # <<>> /\ todo' = Tail(todo) /\ Head(todo)[1] = "startSequence" /\ ~crashed
      /\ wanted' = IF curSeq = NoSeq THEN params ELSE wanted
      /\ UNCHANGED <<increment, params, orders, motor, executed>>
      /\ UNCHANGED <<completed, tx, rx, faults, link, socket>>
  BY DEF StartMotionCall, StartCall, Calling, busVars, openVars
<1>3. increment \in Increments /\ MotionTypes
  BY DEF MoveInv, MotionTypes
<1>4. Leads(phase, Head(todo), plan)
  BY <1>1, <1>2, <1>3, CallLeads
<1>5. PICK phase2 : /\ NextPhase(phase, phase2) /\ At(phase2, plan)'
                    /\ Head(todo)[2] = CASE phase = 2 -> "setupMotion"
                                         [] phase = 3 -> "execMotion"
                                         [] OTHER -> "mdEnable"
  <2>1. \/ phase = 1 /\ Head(todo)[2] = "mdEnable" /\ At(2, plan)'
        \/ phase = 2 /\ Head(todo)[2] = "setupMotion" /\ At(3, plan)'
        \/ phase = 3 /\ Head(todo)[2] = "execMotion" /\ At(4, plan)'
        \/ phase = 5 /\ Head(todo)[2] = "mdEnable" /\ At(6, plan)'
    BY <1>2, <1>4 DEF Leads
  <2> QED
    BY <2>1 DEF NextPhase
<1>6. phase2 \in Phases
  BY <1>5, PhasesFollow
<1>7. [Next]_vars
  BY DEF StartMotionCall, Next, MainStep
<1>8. curSeq = NoSeq => ~SP!Running
  BY AppAssumption DEF SP!Running
<1>9. CASE Sequencer!StartSequence(Head(todo)[2]) /\ UNCHANGED refusals
  <2>1. /\ curSeq = NoSeq /\ curSeq' = Head(todo)[2] /\ started' = <<>> /\ allocs' = allocs + 1
        /\ exec'.stepIndex = 0 /\ crashed' = crashed
    BY <1>9 DEF Sequencer!StartSequence, Sequencer!FreshExec
  <2>2. PhaseInv(phase2)'
    BY <1>1, <1>2, <1>3, <1>5, <1>8, <1>9, <2>1, StartAccepted
  <2> QED
    BY <1>2, <1>5, <1>6, <1>7, <1>9, <2>2, OrdersStay
<1>10. CASE /\ refusals \subseteq refusals' /\ (refusals' # {} \/ crashed')
            /\ curSeq = NoSeq \/ wanted' = wanted
            /\ UNCHANGED <<curSeq, exec, started, allocs>>
  <2>1. PhaseInv(phase2)'
    BY <1>1, <1>2, <1>3, <1>5, <1>8, <1>10, StartMissed
  <2> QED
    BY <1>2, <1>5, <1>6, <1>7, <1>10, <2>1, OrdersStay
<1> QED
  BY <1>2, <1>9, <1>10 DEF StartMotionCall, StartCall, seqVars

(* Wake-ups.                                                                *)
LEMMA SendKeeps ==
  ASSUME CoreInv, ProgramInv, MoveInv, SendOrder
  PROVE  MoveInv'
<1>1. PICK phase \in Phases, plan \in RunPlans : At(phase, plan) /\ PhaseInv(phase)
  BY DEF MoveInv
<1>2. /\ UNCHANGED <<increment, params, wanted, motor, executed>>
      /\ UNCHANGED <<todo, link, socket, rx, answers, refusals>>
      /\ orders' = IF tx' = tx THEN orders ELSE Append(orders, Order(SP!NextIndex))
  BY DEF SendOrder, SequencerEvent, openVars, Sequencer!NextIndex, SP!NextIndex
<1>3. MotionTypes
  BY DEF MoveInv
<1>4. [Next]_vars
  BY DEF SendOrder, Next, LoopStep
<1>5. At(phase, plan)'
  BY <1>1, <1>2, PhaseStays
<1>6. CanSend' <=> CanSend
  BY <1>2 DEF CanSend
<1>a. exec \in SP!Executions /\ tx \in Seq(Nat) /\ completed \in Seq(SeqIDs)
  BY DEF CoreInv, RestTypes, SP!TypeOK
<1>7. CASE Sequencer!IdleEvent /\ UNCHANGED <<tx, completed>>
  <2>1. UNCHANGED <<curSeq, exec, crashed, started, allocs>>
    BY <1>7 DEF Sequencer!IdleEvent, Sequencer!heapVars
  <2>2. Answered(phase)' = Answered(phase)
    BY <1>2, <2>1 DEF Answered, SP!Running, SP!Blocked, Base
  <2> QED
    BY <1>1, <1>2, <1>4, <1>5, <1>6, <1>7, <2>1, <2>2, QuietStep
<1>8. CASE Sequencer!InitEvent /\ UNCHANGED <<tx, completed>>
  <2>1. /\ UNCHANGED <<curSeq, crashed, started, allocs>>
        /\ SP!Running /\ exec.seqState = "INIT" /\ exec'.stepIndex = 0
    BY <1>8, <1>a DEF Sequencer!InitEvent, Sequencer!heapVars, Sequencer!Readied, SP!Executions,
                      Sequencer!Running, SP!Running
  <2>2. started = <<>> /\ exec.stepIndex = 0
    BY <2>1 DEF ProgramInv, SP!OrderInv, SP!StepOrder
  <2>3. Answered(phase)' = Answered(phase)
    BY <1>2, <2>1, <2>2 DEF Answered, SP!Running, Base
  <2> QED
    BY <1>1, <1>2, <1>4, <1>5, <1>6, <1>8, <2>1, <2>2, <2>3, QuietStep
<1>9. CASE Sequencer!FinishEvent /\ completed' = Append(completed, curSeq) /\ UNCHANGED <<tx, faults>>
  <2>1. SP!FinishEvent /\ crashed' = crashed /\ SP!Running
    BY <1>9, SameActions DEF Sequencer!FinishEvent, SP!FinishEvent
  <2>2. Len(completed') = Len(completed) + 1
    BY <1>9, <1>a, <2>1 DEF SP!Running
  <2>3. PhaseInv(phase)'
    BY <1>1, <1>2, <1>3, <1>9, <2>1, <2>2, SequenceFinishes
  <2> QED
    BY <1>2, <1>4, <1>5, <1>9, <2>3, OrdersStay
<1>10. CASE CanSend /\ Sequencer!RunStepEvent(TRUE) /\ tx' = Append(tx, Sequencer!NextIndex)
            /\ UNCHANGED <<completed, faults>>
  <2>1. SP!RunStepEvent(TRUE) /\ TRUE \in BOOLEAN
    BY <1>10, SameActions
  <2>2. SP!NextIndex \in Nat /\ crashed' = crashed
    BY <1>1, <1>2, <1>3, <2>1, StepRuns
  <2>3. tx' = Append(tx, SP!NextIndex)
    BY <1>10 DEF Sequencer!NextIndex, SP!NextIndex
  <2>4. tx' \in Seq(Nat) /\ Len(tx') = Len(tx) + 1 /\ Len(tx) \in Nat
    BY <1>a, <2>2, <2>3
  <2>5. orders' = Append(orders, Order(SP!NextIndex))
    BY <1>2, <2>4
  <2>6. PhaseInv(phase)' /\ Order(SP!NextIndex) \in Orders
    BY <1>1, <1>2, <1>3, <1>10, <2>1, <2>5, StepSends
  <2>7. orders' \in Seq(Orders) /\ Len(orders') = Len(orders) + 1
    BY <1>3, <2>5, <2>6, OrderAppended DEF MotionTypes
  <2>8. MotionTypes'
    BY <1>2, <1>3, <2>4, <2>7 DEF MotionTypes
  <2>9. MotionPrepared' /\ StoppedBeforeOff'
    BY <1>2, <1>4, ExecutionsDue DEF MoveInv
  <2>10. MotorInv'
    BY <1>2, <1>3, MotorKept DEF MoveInv, MotionTypes, Done
  <2> QED
    BY <1>5, <2>6, <2>8, <2>9, <2>10 DEF MoveInv
<1>11. CASE (IF CanSend THEN Fault("sendFail") ELSE UNCHANGED faults)
            /\ Sequencer!RunStepEvent(FALSE) /\ UNCHANGED <<tx, completed>>
  <2>1. SP!RunStepEvent(FALSE)
    BY <1>11, SameActions
  <2>2. Surplus' = Surplus /\ (CanSend => Unheard' > 0)
    <3>1. CASE CanSend
      <4>1. /\ "sendFail" \in AllFaults /\ "lose" \in AllFaults
            /\ "stray" \in AllFaults /\ "duplicate" \in AllFaults
        BY FaultsAre
      <4>2. faults \in [AllFaults -> Nat]
        BY DEF CoreInv, RestTypes
      <4>3. /\ faults'["sendFail"] = faults["sendFail"] + 1
            /\ \A j \in AllFaults : j # "sendFail" => faults'[j] = faults[j]
        BY <1>11, <3>1, <4>1, <4>2, FaultTypes
      <4> QED
        BY <4>1, <4>2, <4>3 DEF Surplus, Unheard
    <3>2. CASE ~CanSend
      BY <1>11, <3>2 DEF Surplus
    <3> QED
      BY <3>1, <3>2
  <2>3. PhaseInv(phase)'
    BY <1>1, <1>2, <1>3, <1>11, <2>1, <2>2, StepFails
  <2> QED
    BY <1>2, <1>4, <1>5, <1>11, <2>3, OrdersStay
<1>12. CASE Sequencer!StepDoneEvent /\ UNCHANGED <<tx, completed, faults>>
  <2>1. /\ UNCHANGED <<curSeq, crashed, started, allocs>>
        /\ SP!Running /\ pending > 0
        /\ exec'.stepIndex = exec.stepIndex /\ exec'.stepState = "NOTSET"
    BY <1>12, <1>a DEF Sequencer!StepDoneEvent, Sequencer!heapVars, Sequencer!ClearedStep,
                       SP!Executions, Sequencer!Running, SP!Running
  <2>2. ASSUME Surplus' = 0 PROVE Answered(phase)' = Answered(phase)
    <3>1. Surplus = 0
      BY <1>12, <2>2 DEF Surplus
    <3>2. ~SP!Blocked
      BY <1>3, <2>1, <3>1, OneByOne
    <3> QED
      BY <1>2, <2>1, <3>2 DEF Answered, SP!Running, SP!Blocked, Base
  <2> QED
    BY <1>1, <1>2, <1>4, <1>5, <1>6, <1>12, <2>1, <2>2, QuietStep
<1> QED
  BY <1>7, <1>8, <1>9, <1>10, <1>11, <1>12 DEF SendOrder, SequencerEvent

(* Frames that are read.                                                    *)
LEMMA ReadKeeps ==
  ASSUME CoreInv, ProgramInv, MoveInv, BusEvent, UNCHANGED motionVars
  PROVE  MoveInv'
<1>1. PICK phase \in Phases, plan \in RunPlans : At(phase, plan) /\ PhaseInv(phase)
  BY DEF MoveInv
<1>2. /\ UNCHANGED <<increment, params, wanted, orders, motor, executed>>
      /\ UNCHANGED <<todo, link, socket, tx, completed, refusals, faults>>
      /\ rx # <<>> /\ ~crashed
  BY DEF BusEvent, motionVars, openVars
<1>3. MotionTypes
  BY DEF MoveInv
<1>4. [Next]_vars
  BY DEF Next, LoopStep
<1>5. At(phase, plan)'
  BY <1>1, <1>2, PhaseStays
<1>6. (CanSend' <=> CanSend) /\ Surplus' = Surplus
  BY <1>2 DEF CanSend, Surplus
<1>7. CASE UNCHANGED seqVars \/ Sequencer!WildFrame
  <2>1. UNCHANGED <<curSeq, exec, started, allocs>>
    BY <1>7 DEF seqVars, Sequencer!WildFrame, Sequencer!heapVars
  <2>2. Answered(phase)' = Answered(phase)
    BY <1>2, <2>1 DEF Answered, SP!Running, SP!Blocked, Base
  <2> QED
    BY <1>1, <1>2, <1>4, <1>5, <1>6, <2>1, <2>2, QuietStep
<1>8. CASE Sequencer!ProcessFrame(TRUE)
  <2>1. /\ UNCHANGED <<curSeq, crashed, started, allocs>>
        /\ SP!Running /\ exec'.stepIndex = exec.stepIndex /\ exec'.stepState = "DONE"
    BY <1>8 DEF Sequencer!ProcessFrame, Sequencer!heapVars, SP!Executions, CoreInv, SP!TypeOK,
                Sequencer!Running, SP!Running
  <2>2. ASSUME Surplus' = 0, NEW r \in 1..7, r < Answered(phase)'
        PROVE  r < Answered(phase) \/ r \in Done
    <3>1. Base + exec.stepIndex \in Done
      BY <1>1, <1>2, <1>6, <2>2 DEF PhaseInv, Lockstep
    <3>2. Answered(phase)' = Base + (IF started = <<>> THEN 0 ELSE exec.stepIndex + 1)
      BY <1>2, <2>1 DEF Answered, SP!Running, SP!Blocked, Base
    <3>3. /\ started = <<>> => Answered(phase) = Base
          /\ started # <<>> => Answered(phase) \in {Base + exec.stepIndex, Base + exec.stepIndex + 1}
      BY <2>1, WhileRunning, <1>1, <1>3 DEF Answered
    <3>4. Base \in {1, 2, 4, 7} /\ exec.stepIndex \in 0..2
      BY <1>1, <1>3, <2>1, WhileRunning
    <3> QED
      BY <2>2, <3>1, <3>2, <3>3, <3>4
  <2> QED
    BY <1>1, <1>2, <1>4, <1>5, <1>6, <2>1, <2>2, QuietStep
<1> QED
  BY <1>7, <1>8 DEF BusEvent

(* The oldest order leaves tx.                                              *)
LEMMA LeavingKeeps ==
  ASSUME CoreInv, ProgramInv, MoveInv, [Next]_vars, ~crashed, OldestLeaves,
         tx # <<>>, tx' = Tail(tx),
         UNCHANGED <<increment, params, wanted, todo, curSeq, exec, started, allocs, refusals,
                     completed, crashed, link, socket>>
  PROVE  MoveInv'
<1>1. PICK phase \in Phases, plan \in RunPlans : At(phase, plan) /\ PhaseInv(phase)
  BY DEF MoveInv
<1>2. MotionTypes /\ MotorInv
  BY DEF MoveInv
<1>3. At(phase, plan)'
  BY <1>1, PhaseStays
<1>4. PhaseInv(phase)'
  BY <1>1, <1>2, CountsGrow, OrderLeaves
<1>5. orders # <<>> /\ orders' = Tail(orders) /\ PlacesInv(phase)
  BY <1>1 DEF OldestLeaves, PhaseInv
<1>6. Head(orders) = orders[1] /\ orders[1] \in Orders
  BY <1>2, <1>5, OldestOrder
<1>7. MotorInv' /\ motor' \in Motors
  <2>1. CASE Executes(Head(orders))
    BY <1>2, <1>5, <2>1, MotorMoves
  <2>2. CASE UNCHANGED <<motor, executed>>
    BY <1>2, <2>2, MotorKept DEF MotionTypes, Done
  <2> QED
    BY <2>1, <2>2 DEF OldestLeaves
<1>8. \A e \in executed' :
        e \in executed \/ (e.order = orders[1] /\ e.motor = motor
                           /\ e \in [order: Orders, motor: Motors])
  BY <1>2, <1>6 DEF OldestLeaves, Executes, MotionTypes
<1>9. MotionTypes'
  <2>1. orders' \in Seq(Orders) /\ Len(orders') = Len(orders) - 1
    BY <1>2, <1>5, OldestOrder
  <2>2. Len(tx') = Len(tx) - 1
    BY DEF CoreInv, RestTypes
  <2>3. executed' \subseteq [order: Orders, motor: Motors]
    BY <1>2, <1>8 DEF MotionTypes
  <2> QED
    BY <1>2, <1>7, <2>1, <2>2, <2>3 DEF MotionTypes
<1>10. MotionPrepared' /\ StoppedBeforeOff'
  <2>1. Due(orders[1], motor)
    BY <1>1, <1>2, <1>5, OldestIsDue
  <2>2. \A e \in executed' : e \in executed \/ Due(e.order, e.motor)
    BY <1>8, <2>1
  <2> QED
    BY <2>2, ExecutionsDue DEF MoveInv
<1> QED
  BY <1>3, <1>4, <1>7, <1>9, <1>10 DEF MoveInv

(* There are orders under way where there are requests.                     *)
LEMMA OrdersAreRequests ==
  ASSUME CoreInv, MotionTypes
  PROVE  orders # <<>> <=> tx # <<>>
  BY DEF CoreInv, RestTypes, MotionTypes

(* The controller executes its oldest order.                                *)
LEMMA ExecuteKeeps ==
  ASSUME CoreInv, ProgramInv, MoveInv, ExecuteOrder
  PROVE  MoveInv'
<1>1. /\ tx # <<>> /\ tx' = Tail(tx) /\ orders' = Tail(orders) /\ Executes(Head(orders))
      /\ ~crashed
      /\ UNCHANGED <<increment, params, wanted, todo, curSeq, exec, started, allocs, refusals,
                     completed, crashed, link, socket>>
  BY DEF ExecuteOrder, Answer, Exited, seqVars, histVars, openVars
<1>2. OldestLeaves
  BY <1>1, OrdersAreRequests DEF OldestLeaves, MoveInv
<1>3. [Next]_vars
  BY DEF ExecuteOrder, Next
<1> QED
  BY <1>1, <1>2, <1>3, LeavingKeeps

(* Faults of the bus.                                                       *)
LEMMA FaultKeeps ==
  ASSUME CoreInv, ProgramInv, MoveInv, OrderFault
  PROVE  MoveInv'
<1>1. /\ UNCHANGED <<increment, params, wanted, todo, curSeq, exec, started, allocs, refusals,
                     completed, crashed, link, socket>>
      /\ ~crashed
  BY DEF OrderFault, BusFault, Exited, seqVars, histVars, openVars
<1>2. [Next]_vars
  BY DEF OrderFault, Next
<1>3. tx \in Seq(Nat) /\ rx \in Seq(Nat \cup {NoRequest}) /\ faults \in [AllFaults -> Nat]
  BY DEF CoreInv, RestTypes
<1>4. tx # <<>> => Tail(tx) # tx
  <2>1. tx # <<>> => Len(Tail(tx)) = Len(tx) - 1 /\ Len(tx) \in Nat
    BY <1>3
  <2> QED
    BY <2>1
<1>5. orders # <<>> <=> tx # <<>>
  BY OrdersAreRequests DEF MoveInv
<1>6. /\ {"lose", "stray", "duplicate"} \subseteq AllFaults
      /\ "sendFail" \in AllFaults
  BY FaultsAre
<1>7. CASE tx # <<>> /\ Fault("lose") /\ tx' = Tail(tx) /\ rx' = rx
  <2>1. Unheard' > 0
    <3>1. /\ faults'["lose"] = faults["lose"] + 1 /\ faults'["sendFail"] = faults["sendFail"]
          /\ faults["lose"] \in Nat /\ faults["sendFail"] \in Nat
      BY <1>3, <1>6, <1>7, FaultTypes
    <3> QED
      BY <3>1 DEF Unheard
  <2>2. OldestLeaves
    BY <1>4, <1>5, <1>7, <2>1 DEF OrderFault, OldestLeaves
  <2> QED
    BY <1>1, <1>2, <1>7, <2>2, LeavingKeeps
<1>8. CASE tx # <<>> /\ tx' = Tail(tx) /\ rx' = rx \o <<Head(tx), Head(tx)>>
  <2>1. rx' # rx
    <3>1. Head(tx) \in Nat \cup {NoRequest}
      BY <1>3, <1>8
    <3>2. Len(rx') = Len(rx) + 2 /\ Len(rx) \in Nat
      BY <1>3, <1>8, <3>1, IndicesOfTwo
    <3> QED
      BY <3>2
  <2>2. OldestLeaves
    BY <1>4, <1>5, <1>8, <2>1 DEF OrderFault, OldestLeaves
  <2> QED
    BY <1>1, <1>2, <1>8, <2>2, LeavingKeeps
<1>9. CASE Fault("stray") /\ tx' = tx
  <2>1. UNCHANGED <<orders, motor, executed>>
    BY <1>9 DEF OrderFault
  <2>2. Surplus' > 0
    <3>1. /\ faults'["stray"] = faults["stray"] + 1 /\ faults'["duplicate"] = faults["duplicate"]
          /\ faults["stray"] \in Nat /\ faults["duplicate"] \in Nat
      BY <1>3, <1>6, <1>9, FaultTypes
    <3> QED
      BY <3>1 DEF Surplus
  <2>3. PICK phase \in Phases, plan \in RunPlans : At(phase, plan) /\ PhaseInv(phase)
    BY DEF MoveInv
  <2>4. At(phase, plan)'
    BY <1>1, <2>3, PhaseStays
  <2>5. CanSend' <=> CanSend
    BY <1>1 DEF CanSend
  <2> QED
    BY <1>1, <1>2, <1>9, <2>1, <2>2, <2>3, <2>4, <2>5, QuietStep
<1> QED
  BY <1>7, <1>8, <1>9 DEF OrderFault, BusFault

(* Steps of the program that touch no sequence.                             *)
LEMMA StillKeeps ==
  ASSUME CoreInv, ProgramInv, MoveInv, [Next]_vars,
         NEW phase \in Phases, NEW plan \in RunPlans, At(phase, plan)', PhaseInv(phase),
         UNCHANGED <<increment, params, wanted, orders, executed>>,
         motor' = motor \/ motor' = [motor EXCEPT !.moving = FALSE],
         UNCHANGED seqVars, UNCHANGED busVars, UNCHANGED histVars,
         (CanSend' <=> CanSend) \/ phase = 0
  PROVE  MoveInv'
<1>1. UNCHANGED <<curSeq, exec, started, allocs, refusals, completed, crashed, tx, rx>>
  BY DEF seqVars, busVars, histVars
<1>2. Answered(phase)' = Answered(phase)
  BY <1>1 DEF Answered, SP!Running, SP!Blocked, Base
<1> QED
  BY <1>1, <1>2, QuietStep

(* Calls that start nothing, the event loop, and the end of a motion.       *)
LEMMA OthersKeep ==
  ASSUME CoreInv, ProgramInv, MoveInv,
         \/ MotionEnds
         \/ /\ ConfigureCall \/ InitCall \/ RegisterPendingCall \/ RegisterBusCall \/ RunCall
                 \/ Wait \/ Interrupted \/ Quit \/ Halted \/ UNCHANGED vars
            /\ UNCHANGED motionVars
  PROVE  MoveInv'
<1>1. PICK phase \in Phases, plan \in RunPlans : At(phase, plan) /\ PhaseInv(phase)
  BY DEF MoveInv
<1>2. /\ UNCHANGED <<increment, params, wanted, orders, executed>>
      /\ motor' = motor \/ motor' = [motor EXCEPT !.moving = FALSE]
  BY DEF MotionEnds, motionVars
<1>3. increment \in Increments
  BY DEF MoveInv, MotionTypes
<1>4. CASE ConfigureCall \/ InitCall \/ RegisterPendingCall \/ RegisterBusCall
  <2>1. /\ todo # <<>> /\ todo' = Tail(todo)
        /\ Head(todo)[1] \in {"configure", "init", "register"}
        /\ UNCHANGED seqVars /\ UNCHANGED busVars /\ UNCHANGED histVars
    BY <1>4 DEF ConfigureCall, InitCall, RegisterPendingCall, RegisterBusCall, Calling
  <2>2. Leads(phase, Head(todo), plan)
    BY <1>1, <1>2, <1>3, <2>1, CallLeads
  <2>3. phase = 0 /\ At(0, plan)'
    BY <1>2, <2>1, <2>2 DEF Leads
  <2>4. [Next]_vars
    BY <1>4 DEF Next, MainStep
  <2> QED
    BY <1>1, <1>2, <2>1, <2>3, <2>4, StillKeeps
<1>5. CASE RunCall
  <2>1. /\ todo # <<>> /\ todo' = Tail(todo) /\ Head(todo)[1] = "run"
        /\ UNCHANGED seqVars /\ UNCHANGED busVars /\ UNCHANGED histVars /\ UNCHANGED openVars
    BY <1>5 DEF RunCall, Calling
  <2>2. Leads(phase, Head(todo), plan)
    BY <1>1, <1>2, <1>3, <2>1, CallLeads
  <2>3. At(phase, plan)'
    BY <1>2, <2>1, <2>2 DEF Leads
  <2>4. [Next]_vars
    BY <1>5 DEF Next, MainStep
  <2>5. CanSend' <=> CanSend
    BY <2>1 DEF CanSend, openVars
  <2> QED
    BY <1>1, <1>2, <2>1, <2>3, <2>4, <2>5, StillKeeps
<1>6. CASE MotionEnds \/ Wait \/ Interrupted \/ Quit \/ Halted \/ UNCHANGED vars
  <2>1. /\ todo' = todo
        /\ UNCHANGED seqVars /\ UNCHANGED busVars /\ UNCHANGED histVars /\ UNCHANGED openVars
    BY <1>6 DEF MotionEnds, Wait, Interrupted, Quit, Halted, vars
  <2>2. At(phase, plan)'
    BY <1>1, <1>2, <2>1, PhaseStays
  <2>3. [Next]_vars
    BY <1>6 DEF Next, LoopStep, MotionEnds
  <2>4. CanSend' <=> CanSend
    BY <2>1 DEF CanSend, openVars
  <2> QED
    BY <1>1, <1>2, <2>1, <2>2, <2>3, <2>4, StillKeeps
<1> QED
  BY <1>4, <1>5, <1>6

-----------------------------------------------------------------------------
(* The invariant.                                                           *)

(* The calls of a move have the types the program takes from them.          *)
LEMMA MoveTyped == MoveInv => HeadTyped
  BY HeadsTyped DEF MoveInv, MotionTypes

(* Frames are refused or unasked for only where some answered nothing.      *)
LEMMA NextUnsolicited ==
  ASSUME CoreInv, ProgramInv, MotionTypes, [Next]_vars
  PROVE  rejected' = 0 /\ (Surplus' = 0 => unsolicited' = 0)
<1>1. /\ rejected = 0 /\ (Surplus = 0 => unsolicited = 0)
      /\ Surplus' = 0 => Surplus = 0
  BY CountsGrow DEF ProgramInv
<1>2. CASE BusEvent
  <2>1. ASSUME Sequencer!ProcessFrame(TRUE)
        PROVE  rejected' = 0 /\ (Surplus' = 0 => unsolicited' = 0)
    <3>1. rejected' = rejected
      BY <2>1 DEF Sequencer!ProcessFrame
    <3>2. Surplus = 0 => exec.stepState = "WAITRSP"
      BY <1>2, OneByOne DEF BusEvent
    <3>3. exec.stepState = "WAITRSP" => unsolicited' = unsolicited
      BY <2>1 DEF Sequencer!ProcessFrame
    <3> QED
      BY <1>1, <3>1, <3>2, <3>3
  <2>2. ASSUME UNCHANGED seqVars \/ Sequencer!WildFrame
        PROVE  UNCHANGED <<rejected, unsolicited>>
    BY <2>2 DEF seqVars, Sequencer!WildFrame, Sequencer!histVars
  <2> QED
    BY <1>1, <1>2, <2>1, <2>2 DEF BusEvent
<1>3. CASE SequencerEvent
  <2>1. UNCHANGED <<rejected, unsolicited>>
    BY <1>3 DEF SequencerEvent, Sequencer!IdleEvent, Sequencer!InitEvent, Sequencer!FinishEvent,
                Sequencer!RunStepEvent, Sequencer!StepDoneEvent, Sequencer!histVars
  <2> QED
    BY <1>1, <2>1
<1>4. CASE StartCall
  <2>1. UNCHANGED <<rejected, unsolicited>>
    BY <1>4 DEF StartCall, Sequencer!StartSequence, seqVars
  <2> QED
    BY <1>1, <2>1
<1>5. CASE ConfigureCall \/ InitCall \/ RegisterPendingCall \/ RegisterBusCall \/ RunCall
           \/ Wait \/ Quit \/ Interrupted \/ Answer \/ BusFault \/ UNCHANGED vars
  <2>1. UNCHANGED <<rejected, unsolicited>>
    BY <1>5 DEF ConfigureCall, InitCall, RegisterPendingCall, RegisterBusCall, RunCall, Wait,
                Quit, Interrupted, Answer, BusFault, vars, seqVars
  <2> QED
    BY <1>1, <2>1
<1> QED
  BY <1>2, <1>3, <1>4, <1>5 DEF Next, MainStep, LoopStep, Halted

(* The facts about the program that the argument uses are kept.             *)
LEMMA NextProgram ==
  ASSUME CoreInv, ProgramInv, MotionTypes, [Next]_vars
  PROVE  ProgramInv' /\ SP!TypeOK' /\ LP!BatchInv' /\ RestTypes'
<1>1. SP!TypeOK' /\ LP!BatchInv' /\ RestTypes'
  BY SequencerTypes, NextBatch, NextRest DEF CoreInv
<1>2. FlightAccount' /\ SP!WakeupInv'
  BY NextFlight, NextWakeups DEF ProgramInv
<1>3. SP!OrderInv'
  <2>1. CASE NullWakeup
    BY <1>1, <2>1 DEF NullWakeup, ProgramInv, SP!OrderInv, SP!StartedInOrder, SP!StepOrder,
                      SP!Running
  <2>2. CASE [SP!Next]_(SP!vars)
    BY <2>2, SeqAssumption, SP!NextOrder DEF ProgramInv
  <2> QED
    BY <2>1, <2>2, SequencerSteps DEF CoreInv
<1> QED
  BY <1>1, <1>2, <1>3, NextUnsolicited DEF ProgramInv

(* A change of the parameters is no step of the program.                    *)
LEMMA SetValueStutters ==
  ASSUME CoreInv, ProgramInv, SetValueCall
  PROVE  ProgramInv' /\ SP!TypeOK' /\ LP!BatchInv' /\ RestTypes'
<1>1. /\ UNCHANGED seqVars /\ UNCHANGED loopVars /\ UNCHANGED openVars /\ UNCHANGED busVars
      /\ UNCHANGED histVars /\ UNCHANGED <<quit, faults>>
  BY DEF SetValueCall
<1>2. SP!TypeOK'
  BY <1>1 DEF CoreInv, SP!TypeOK, seqVars
<1>3. RestTypes'
  BY <1>1 DEF CoreInv, RestTypes, openVars, busVars, histVars
<1>4. LP!BatchInv'
  <2>1. Counts' = Counts
    BY <1>1 DEF Counts, seqVars, busVars
  <2> QED
    BY <1>1, <2>1 DEF CoreInv, LP!BatchInv, LP!TypeOK, LP!NoBlockingRead,
                LP!Ready, loopVars
<1>5. FlightAccount' /\ SP!WakeupInv'
  BY <1>1, <1>2 DEF ProgramInv, FlightAccount, InFlight, Waiting, Surplus, SP!WakeupInv,
                    SP!NoLostWakeup, SP!WakeupAccount, SP!Need, SP!Running, SP!Blocked, seqVars,
                    busVars
<1>6. SP!OrderInv'
  BY <1>1, <1>2 DEF ProgramInv, SP!OrderInv, SP!StartedInOrder, SP!StepOrder, SP!Running, seqVars
<1> QED
  BY <1>1, <1>2, <1>3, <1>4, <1>5, <1>6 DEF ProgramInv, Surplus, seqVars

(* Every step of a move keeps the invariant.                                *)
LEMMA NextMotion ==
  MotionInv /\ [MotionNext]_<<vars, motionVars>> =>
    ProgramInv' /\ MoveInv' /\ SP!TypeOK' /\ LP!BatchInv' /\ RestTypes'
<1> SUFFICES ASSUME CoreInv, ProgramInv, MoveInv, [MotionNext]_<<vars, motionVars>>
             PROVE  ProgramInv' /\ MoveInv' /\ SP!TypeOK' /\ LP!BatchInv' /\ RestTypes'
  BY DEF MotionInv
<1>1. CASE SetValueCall
  BY <1>1, SetValueKeeps, SetValueStutters
<1>2. ASSUME [Next]_vars PROVE ProgramInv' /\ SP!TypeOK' /\ LP!BatchInv' /\ RestTypes'
  BY <1>2, NextProgram DEF MoveInv
<1>3. CASE StartMotionCall
  BY <1>2, <1>3, StartKeeps DEF StartMotionCall, Next, MainStep
<1>4. CASE SendOrder
  BY <1>2, <1>4, SendKeeps DEF SendOrder, Next, LoopStep
<1>5. CASE ExecuteOrder
  BY <1>2, <1>5, ExecuteKeeps DEF ExecuteOrder, Next
<1>6. CASE OrderFault
  BY <1>2, <1>6, FaultKeeps DEF OrderFault, Next
<1>7. CASE BusEvent /\ UNCHANGED motionVars
  BY <1>2, <1>7, ReadKeeps DEF Next, LoopStep
<1>8. CASE \/ MotionEnds
           \/ /\ ConfigureCall \/ InitCall \/ RegisterPendingCall \/ RegisterBusCall \/ RunCall
                   \/ Wait \/ Interrupted \/ Quit \/ Halted \/ UNCHANGED vars
              /\ UNCHANGED motionVars
  <2>1. [Next]_vars
    BY <1>8 DEF MotionEnds, Next, MainStep, LoopStep
  <2> QED
    BY <1>2, <1>8, <2>1, OthersKeep
<1> QED
  BY <1>1, <1>3, <1>4, <1>5, <1>6, <1>7, <1>8 DEF MotionNext

(* The controller is not moving the motor when the program starts.          *)
LEMMA PowerOnStands == \A m \in PowerOn : m \in Motors /\ ~m.moving
<1> SUFFICES ASSUME NEW m \in PowerOn PROVE m \in Motors /\ ~m.moving
  OBVIOUS
<1>1. PowerOn \subseteq [driver: BOOLEAN, target: Int, speed: Int, moving: {FALSE}]
  BY MotionAssumption, Zenon
<1>2. m \in [driver: BOOLEAN, target: Int, speed: Int, moving: {FALSE}]
  BY <1>1, Zenon
<1>3. m.moving \in {FALSE}
  BY <1>2
<1> QED
  BY <1>2, <1>3 DEF Motors

(* Nothing has been asked of the controller at first.                       *)
LEMMA InitMotion ==
  MotionInit => ProgramInv /\ MoveInv /\ SP!TypeOK /\ LP!BatchInv /\ RestTypes
<1> SUFFICES ASSUME MotionInit
             PROVE  ProgramInv /\ MoveInv /\ SP!TypeOK /\ LP!BatchInv /\ RestTypes
  OBVIOUS
<1>1. PICK plan \in RunPlans : InitWith(WithRuns(MotionCalls(increment), plan))
  BY DEF MotionInit
<1>2. Sequencer!Init /\ Loop!Init
  BY <1>1 DEF InitWith
<1>3. SP!TypeOK
  BY <1>2, SameActions, SeqAssumption, SP!InitTypeOK
<1>4. LP!BatchInv
  BY <1>2, SameLoop, LoopAssumption, LP!InitBatch
<1>5. /\ todo = WithRuns(MotionCalls(increment), plan)
      /\ tx = <<>> /\ rx = <<>> /\ completed = <<>> /\ refusals = {} /\ answers = <<>>
      /\ faults = [k \in AllFaults |-> 0]
      /\ link \in {"up", "down"} /\ socket = "closed" /\ quit = 0
  BY <1>1 DEF InitWith
<1>6. RestTypes
  <2>1. /\ <<>> \in Seq(Nat) /\ <<>> \in Seq(Nat \cup {NoRequest}) /\ <<>> \in Seq(SeqIDs)
        /\ <<>> \in Seq(Nat \X (Nat \cup {NoRequest}))
    OBVIOUS
  <2> QED
    BY <1>5, <2>1 DEF RestTypes
<1>7. /\ curSeq \in {NoSeq, Wild} /\ pending = 0 /\ allocs = 0 /\ ~crashed
      /\ rejected = 0 /\ unsolicited = 0
  BY <1>2 DEF Sequencer!Init
<1>8. ~SP!Running
  BY <1>7, AppAssumption DEF SP!Running
<1>9. ProgramInv
  <2>1. SP!WakeupInv /\ SP!OrderInv
    BY <1>2, SameActions, SeqAssumption, SP!InitWakeup, SP!InitOrder
  <2>2. Surplus = 0
    BY <1>5 DEF Surplus, AllFaults, StartFaults
  <2>3. FlightAccount
    BY <1>5, <1>7, <1>8, <2>2 DEF FlightAccount, InFlight, Waiting, SP!Need
  <2> QED
    BY <1>7, <2>1, <2>3 DEF ProgramInv
<1>10. /\ increment \in Increments /\ orders = <<>> /\ executed = {} /\ motor \in PowerOn
  BY DEF MotionInit
<1>11. motor \in Motors /\ ~motor.moving
  BY <1>10, PowerOnStands
<1>12. Done = {} /\ UnderWay = {} /\ Sent = {}
  BY <1>10 DEF Done, UnderWay, Sent
<1>13. MotionTypes
  BY <1>5, <1>10, <1>11 DEF MotionTypes
<1>14. MotorInv
  BY <1>11, <1>12 DEF MotorInv
<1>15. MotionPrepared /\ StoppedBeforeOff
  BY <1>10 DEF MotionPrepared, StoppedBeforeOff
<1>16. At(0, plan)
  BY <1>5, <1>10, MotionCallsChained, AtIs
<1>17. PhaseInv(0)
  <2>1. Tried(0) = 1 /\ Answered(0) = 1 /\ LastPlace(0) = 0
    BY <1>8, PhaseNumbers DEF Tried, Answered, LastPlace
  <2>2. ParamsInv(0)
    BY <1>8 DEF ParamsInv
  <2>3. StartsInv(0)
    BY <1>5, <1>7, <1>8, PhaseNumbers DEF StartsInv
  <2>4. PlacesInv(0)
    BY <1>10, <1>12 DEF PlacesInv
  <2>5. Lockstep(0)
    BY <1>5, <1>10, <2>1 DEF Lockstep
  <2>6. NothingLost(0)
    BY <2>1 DEF NothingLost
  <2> QED
    BY <2>2, <2>3, <2>4, <2>5, <2>6 DEF PhaseInv
<1>18. MoveInv
  BY <1>1, <1>13, <1>14, <1>15, <1>16, <1>17 DEF MoveInv, Phases
<1> QED
  BY <1>3, <1>4, <1>6, <1>9, <1>18

(* The invariant holds in every behaviour.                                  *)
LEMMA AlwaysMotion == MotionSpec => []MotionInv
<1>1. MotionInit => MotionInv
  BY InitMotion, MoveTyped DEF MotionInv, CoreInv
<1>2. MotionInv /\ [MotionNext]_<<vars, motionVars>> => MotionInv'
  <2>1. MoveInv' => HeadTyped'
    BY MoveTyped, PTL
  <2> QED
    BY <2>1, NextMotion DEF MotionInv, CoreInv
<1> QED
  BY <1>1, <1>2, PTL DEF MotionSpec

-----------------------------------------------------------------------------
(* The properties.                                                          *)

(* No call refused, the motor begins to move with its driver on and to the  *)
(* target of this command, however main, the loop and the controller        *)
(* interleave and whatever gets lost, unless a frame came in that nobody    *)
(* asked for; and at its speed, unless a request was lost besides.          *)
THEOREM MovesPrepared == MotionSpec => []MotionPrepared
  BY AlwaysMotion, PTL DEF MotionInv, MoveInv

(* The driver is not switched off under a moving motor, refused calls or    *)
(* not, unless the order to stop was lost and a frame nobody asked for      *)
(* stood in for its answer.                                                 *)
THEOREM StopsBeforeOff == MotionSpec => []StoppedBeforeOff
  BY AlwaysMotion, PTL DEF MotionInv, MoveInv

(* A request carries what its sequence was started with, unless a call was  *)
(* refused in between.                                                      *)
THEOREM CarriesWhatWasAsked == MotionSpec => []ParametersAsAsked
<1>1. MotionInv => ParametersAsAsked
  <2> SUFFICES ASSUME MotionInv PROVE ParametersAsAsked
    OBVIOUS
  <2>1. /\ \A i \in DOMAIN orders : OrderOK(orders[i])
        /\ \A e \in executed : OrderOK(e.order)
    BY DEF MotionInv, MoveInv, PhaseInv, PlacesInv
  <2>2. \A o \in Range(orders) : o.data # o.asked => refusals # {}
    BY <2>1 DEF Range, OrderOK
  <2>3. \A e \in executed : e.order.data # e.order.asked => refusals # {}
    BY <2>1 DEF OrderOK
  <2> QED
    BY <2>2, <2>3 DEF ParametersAsAsked
<1> QED
  BY <1>1, AlwaysMotion, PTL

(* When the four sequences are complete and no frame came in that nobody    *)
(* asked for, the motor is at rest with its driver off and no order is left.*)
THEOREM EndsAtRest == MotionSpec => []RestsWhenComplete
<1>1. MotionInv => RestsWhenComplete
  <2> SUFFICES ASSUME MotionInv, completed = Command, Surplus = 0
               PROVE  ~motor.driver /\ ~motor.moving /\ orders = <<>>
    BY DEF RestsWhenComplete
  <2>1. CoreInv /\ ProgramInv /\ MotionTypes /\ MotorInv
    BY DEF MotionInv, MoveInv
  <2>2. PICK phase \in Phases : PhaseInv(phase)
    BY DEF MotionInv, MoveInv
  <2>3. Len(completed) = 4
    BY CommandIs
  <2>4. /\ allocs <= Starts(phase)
        /\ Len(completed) + (IF SP!Running THEN 1 ELSE 0) = allocs
    BY <2>2 DEF PhaseInv, StartsInv
  <2>5. allocs = 4 /\ Starts(phase) = 4 /\ ~SP!Running
    BY <2>3, <2>4, PhaseRanges
  <2>6. Top(phase) = 7
    BY <2>5, PhaseNumbers DEF Phases
  <2>7. orders = <<>>
    BY <2>1, <2>5, OneByOne
  <2>8. Answered(phase) = 8
    BY <2>5, <2>6 DEF Answered
  <2>9. 7 \in Done
    BY <2>2, <2>5, <2>8 DEF PhaseInv, Lockstep
  <2> QED
    BY <2>1, <2>7, <2>9 DEF MotorInv
<1> QED
  BY <1>1, AlwaysMotion, PTL
=============================================================================
