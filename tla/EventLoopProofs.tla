--------------------------- MODULE EventLoopProofs ---------------------------
(***************************************************************************)
(* Theorems about EventLoop, for any set of descriptors and any size of    *)
(* the event array.                                                        *)
(***************************************************************************)
EXTENDS EventLoop, FiniteSetTheorems, TLAPS

(* NoBlockingRead is not inductive alone: the handler of the head of the    *)
(* batch takes from its descriptor, and the rest of the batch must not name *)
(* that descriptor again.                                                   *)
BatchInv ==
  /\ TypeOK
  /\ NoBlockingRead
  /\ \A m, n \in DOMAIN batch : batch[m] = batch[n] => m = n
  /\ loop # "handling" => batch = <<>>

-----------------------------------------------------------------------------
(* There is no batch at first.                                              *)
LEMMA InitBatch == Init => BatchInv
<1> SUFFICES ASSUME Init PROVE BatchInv
  OBVIOUS
<1>1. batch = <<>> /\ <<>> \in Seq(FDs) /\ DOMAIN <<>> = {}
  BY DEF Init
<1> QED
  BY <1>1, EventLoopAssumption DEF Init, BatchInv, TypeOK, NoBlockingRead

(* epoll_wait reports at least one descriptor when one is ready.            *)
LEMMA BatchSizePositive ==
  ASSUME registered \subseteq FDs, Ready # {}
  PROVE  BatchSize \in Nat \ {0}
<1>1. Ready \subseteq FDs
  BY DEF Ready
<1>2. IsFiniteSet(Ready)
  BY <1>1, EventLoopAssumption, FS_Subset
<1>3. Cardinality(Ready) \in Nat /\ Cardinality(Ready) # 0
  BY <1>2, FS_CardinalityType, FS_EmptySet
<1> QED
  BY <1>3, EventLoopAssumption DEF BatchSize

(* A fresh batch names ready descriptors, each once.                        *)
LEMMA WaitBatch == BatchInv /\ EpollWait => BatchInv'
<1> SUFFICES ASSUME BatchInv, EpollWait PROVE BatchInv'
  OBVIOUS
<1>1. /\ registered \subseteq FDs /\ count \in [FDs -> Nat]
      /\ Ready # {} /\ loop' = "handling"
      /\ UNCHANGED <<registered, count, result>>
      /\ result \in {"NONE", "SUCCESS", "FAILURE"}
  BY DEF BatchInv, TypeOK, EpollWait
<1>2. BatchSize \in Nat \ {0}
  BY <1>1, BatchSizePositive
<1>3. /\ batch' \in [1..BatchSize -> Ready]
      /\ \A m, n \in DOMAIN batch' : batch'[m] = batch'[n] => m = n
  BY DEF EpollWait, Injection, IsInjective
<1>4. Ready \subseteq FDs /\ Ready' = Ready
  BY <1>1 DEF Ready
<1>5. batch' \in Seq(FDs) /\ DOMAIN batch' = 1..BatchSize
  BY <1>2, <1>3, <1>4
<1>6. batch' # <<>>
  BY <1>2, <1>5
<1>7. \A n \in DOMAIN batch' : batch'[n] \in Ready'
  BY <1>3, <1>4
<1> QED
  BY <1>1, <1>3, <1>5, <1>6, <1>7 DEF BatchInv, TypeOK, NoBlockingRead

(* A handler leaves the descriptors still in the batch at least as full.    *)
LEMMA HandleBatch ==
  ASSUME BatchInv, NEW f \in FDs, NEW S \in SUBSET FDs, Handle(f, S)
  PROVE  BatchInv'
<1>1. /\ registered \subseteq FDs /\ count \in [FDs -> Nat] /\ batch \in Seq(FDs)
      /\ result \in {"NONE", "SUCCESS", "FAILURE"}
      /\ batch # <<>> /\ Head(batch) = f
      /\ UNCHANGED <<registered, result>>
  BY DEF BatchInv, TypeOK, NoBlockingRead, Handle
<1>2. /\ count' = [g \in FDs |-> count[g] - (IF g = f THEN 1 ELSE 0)
                                          + (IF g \in S THEN 1 ELSE 0)]
      /\ count[f] > 0
      /\ batch' = Tail(batch)
      /\ loop' = IF batch' = <<>> THEN "waiting" ELSE "handling"
  BY DEF Handle, Served, AfterHandling
<1>3. count' \in [FDs -> Nat]
  BY <1>1, <1>2
<1>4. \A g \in FDs : g # f => count'[g] >= count[g]
  BY <1>1, <1>2
<1>5. /\ batch' \in Seq(FDs)
      /\ Len(batch') = Len(batch) - 1
      /\ \A n \in 1..Len(batch') : batch'[n] = batch[n + 1]
      /\ DOMAIN batch' = 1..Len(batch') /\ DOMAIN batch = 1..Len(batch)
      /\ Len(batch) \in Nat \ {0}
  BY <1>1, <1>2
<1>6. \A m, n \in DOMAIN batch' : batch'[m] = batch'[n] => m = n
  <2> SUFFICES ASSUME NEW m \in DOMAIN batch', NEW n \in DOMAIN batch',
                      batch'[m] = batch'[n]
               PROVE  m = n
    OBVIOUS
  <2>1. m + 1 \in DOMAIN batch /\ n + 1 \in DOMAIN batch /\ m \in Nat /\ n \in Nat
    BY <1>5
  <2>2. batch[m + 1] = batch[n + 1]
    BY <1>5
  <2>3. m + 1 = n + 1
    BY <2>1, <2>2 DEF BatchInv
  <2> QED
    BY <2>1, <2>3
<1>7. \A n \in DOMAIN batch' : batch'[n] \in Ready'
  <2> SUFFICES ASSUME NEW n \in DOMAIN batch' PROVE batch'[n] \in Ready'
    OBVIOUS
  <2>1. n + 1 \in DOMAIN batch /\ 1 \in DOMAIN batch /\ n + 1 # 1
    BY <1>5
  <2>2. batch[n + 1] # batch[1] /\ batch[1] = f
    BY <1>1, <2>1 DEF BatchInv
  <2>3. batch[n + 1] \in Ready
    BY <2>1 DEF BatchInv, NoBlockingRead
  <2>4. batch'[n] = batch[n + 1]
    BY <1>5
  <2>5. batch'[n] \in registered' /\ count'[batch'[n]] > 0
    <3>1. batch'[n] \in FDs /\ count[batch'[n]] > 0 /\ batch'[n] \in registered
      BY <1>1, <2>3, <2>4 DEF Ready
    <3>2. count'[batch'[n]] >= count[batch'[n]]
      BY <1>4, <2>2, <2>4, <3>1
    <3>3. count'[batch'[n]] \in Nat /\ count[batch'[n]] \in Nat
      BY <1>1, <1>3, <3>1
    <3> QED
      BY <1>1, <3>1, <3>2, <3>3
  <2> QED
    BY <2>5 DEF Ready
<1> QED
  BY <1>1, <1>2, <1>3, <1>5, <1>6, <1>7 DEF BatchInv, TypeOK, NoBlockingRead

(* Whatever a handler does, the rest of the batch stays ready.              *)
LEMMA NextBatch == BatchInv /\ [Next]_vars => BatchInv'
<1> SUFFICES ASSUME BatchInv, [Next]_vars PROVE BatchInv'
  OBVIOUS
<1>a. TypeOK /\ NoBlockingRead
  BY DEF BatchInv
<1>1. ASSUME NEW f \in FDs, Register(f) PROVE BatchInv'
  BY <1>1, <1>a DEF Register, BatchInv, TypeOK, NoBlockingRead, Ready
<1>2. ASSUME NEW f \in FDs, Signal(f) PROVE BatchInv'
  <2>1. /\ count' \in [FDs -> Nat]
        /\ \A g \in FDs : count'[g] >= count[g]
        /\ UNCHANGED <<registered, loop, batch, result>>
    BY <1>2, <1>a DEF Signal, TypeOK
  <2>2. \A g \in FDs : g \in Ready => g \in Ready'
    <3> SUFFICES ASSUME NEW g \in FDs, g \in registered, count[g] > 0
                 PROVE  g \in registered' /\ count'[g] > 0
      BY DEF Ready
    <3>1. count[g] \in Nat /\ count'[g] \in Nat /\ count'[g] >= count[g]
      BY <1>a, <2>1 DEF TypeOK
    <3> QED
      BY <2>1, <3>1
  <2>3. \A n \in DOMAIN batch : batch[n] \in FDs
    BY <1>a DEF TypeOK
  <2> QED
    BY <1>a, <2>1, <2>2, <2>3 DEF BatchInv, TypeOK, NoBlockingRead
<1>3. CASE Run
  BY <1>3, <1>a DEF Run, BatchInv, TypeOK, NoBlockingRead, Ready
<1>4. CASE EpollFail
  BY <1>4, <1>a DEF EpollFail, BatchInv, TypeOK, NoBlockingRead, Ready
<1>5. CASE EpollWait
  BY <1>5, WaitBatch
<1>6. CASE HandleQuit
  <2>1. batch' = <<>> /\ <<>> \in Seq(FDs) /\ DOMAIN <<>> = {} /\ loop' = "stopped"
    BY <1>6 DEF HandleQuit
  <2>2. count' \in [FDs -> Nat]
    BY <1>6, <1>a, EventLoopAssumption DEF HandleQuit, QuitTaken, TypeOK
  <2> QED
    BY <1>6, <1>a, <2>1, <2>2 DEF HandleQuit, BatchInv, TypeOK, NoBlockingRead
<1>7. ASSUME NEW f \in FDs, NEW S \in SUBSET FDs, Handle(f, S) PROVE BatchInv'
  BY <1>7, HandleBatch
<1>8. CASE InitLoop
  <2>1. registered' = {QuitFD} /\ registered' \subseteq FDs
    BY <1>8, EventLoopAssumption DEF InitLoop, WatchQuit
  <2>2. batch = <<>> /\ DOMAIN batch = {} /\ loop' = "stopped"
    BY <1>8 DEF InitLoop, BatchInv
  <2> QED
    BY <1>8, <1>a, <2>1, <2>2 DEF InitLoop, BatchInv, TypeOK, NoBlockingRead
<1>9. CASE InitFails
  BY <1>9, <1>a DEF InitFails, BatchInv, TypeOK, NoBlockingRead, Ready
<1>10. CASE RunFails
  BY <1>10, <1>a DEF RunFails, BatchInv, TypeOK, NoBlockingRead, Ready
<1>11. CASE UNCHANGED vars
  BY <1>11, <1>a DEF vars, BatchInv, TypeOK, NoBlockingRead, Ready
<1> QED
  BY <1>1, <1>2, <1>3, <1>4, <1>5, <1>6, <1>7, <1>8, <1>9, <1>10, <1>11
     DEF Next, LoopStep

(* The event loop's variables keep their types, whatever is registered and  *)
(* signalled: in particular no count falls below zero.                      *)
THEOREM TypeCorrect == Spec => []TypeOK
<1>1. Init => BatchInv
  BY InitBatch
<1>2. BatchInv /\ [Next]_vars => BatchInv'
  BY NextBatch
<1>3. BatchInv => TypeOK
  BY DEF BatchInv
<1> QED
  BY <1>1, <1>2, <1>3, PTL DEF Spec

(* The loop and its callbacks never block in a read: what epoll_wait        *)
(* reported is still there when its turn comes, whatever ran before it.     *)
THEOREM ReadsNeverBlock == Spec => []NoBlockingRead
<1>1. Init => BatchInv
  BY InitBatch
<1>2. BatchInv /\ [Next]_vars => BatchInv'
  BY NextBatch
<1>3. BatchInv => NoBlockingRead
  BY DEF BatchInv
<1> QED
  BY <1>1, <1>2, <1>3, PTL DEF Spec

\* What a step takes from a descriptor: one unit, when it handles it.
TakesOne ==
  \A f \in FDs : count'[f] < count[f] =>
    /\ loop = "handling" /\ Head(batch) = f
    /\ count'[f] = count[f] - 1

(* A step takes from a descriptor only by handling it, one unit.            *)
LEMMA StepTakesOne == BatchInv /\ [Next]_vars => TakesOne
<1> SUFFICES ASSUME BatchInv, [Next]_vars,
                    NEW f \in FDs, count'[f] < count[f]
             PROVE  /\ loop = "handling" /\ Head(batch) = f
                    /\ count'[f] = count[f] - 1
  BY DEF TakesOne
<1>1. count \in [FDs -> Nat] /\ count[f] \in Nat
  BY DEF BatchInv, TypeOK
<1>2. CASE UNCHANGED count
  BY <1>1, <1>2
<1>3. ASSUME NEW g \in FDs, Signal(g) PROVE FALSE
  BY <1>1, <1>3 DEF Signal
<1>4. CASE HandleQuit
  BY <1>1, <1>4, EventLoopAssumption DEF HandleQuit, QuitTaken
<1>5. ASSUME NEW g \in FDs, NEW S \in SUBSET FDs, Handle(g, S)
      PROVE  /\ loop = "handling" /\ Head(batch) = f
             /\ count'[f] = count[f] - 1
  BY <1>1, <1>5 DEF Handle, Served
<1> QED
  BY <1>2, <1>3, <1>4, <1>5
     DEF Next, LoopStep, Register, InitLoop, InitFails, Run, RunFails, EpollFail,
         EpollWait, vars

(* Nothing is taken from a descriptor but by its own handling: what a quit  *)
(* drops from the batch is still there for the next run().                  *)
THEOREM NothingIsDropped == Spec => NothingDropped
<1>1. Init => BatchInv
  BY InitBatch
<1>2. BatchInv /\ [Next]_vars => BatchInv'
  BY NextBatch
<1>3. BatchInv /\ [Next]_vars => [TakesOne]_vars
  BY StepTakesOne
<1>4. Spec => [][TakesOne]_vars
  BY <1>1, <1>2, <1>3, PTL DEF Spec
<1> QED
  BY <1>4 DEF NothingDropped, TakesOne
=============================================================================
