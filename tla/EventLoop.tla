------------------------------ MODULE EventLoop ------------------------------
(***************************************************************************)
(* class EventLoop (EventLoop.cpp): an epoll loop over the quit eventfd,   *)
(* the event descriptors made by createEventFD and the descriptors given   *)
(* to registerFD.                                                          *)
(*                                                                         *)
(* A descriptor is what the loop can tell of it: how many reads it can     *)
(* still serve without blocking.  That is the value of an EFD_SEMAPHORE    *)
(* eventfd, each read of which takes one, and the number of frames queued  *)
(* in the CAN socket.  Every descriptor is in blocking mode: a read of one *)
(* that has nothing to give stops the only thread of the program.          *)
(***************************************************************************)
EXTENDS Naturals, Sequences, FiniteSets, Functions

CONSTANTS
  FDs,       \* every descriptor the loop may come to watch
  QuitFD,    \* m_quitFD
  MaxEvents, \* MAX_EVENTS, the size of the array given to epoll_wait
  MaxCount   \* bound: reads a descriptor can hold

ASSUME EventLoopAssumption ==
  /\ IsFiniteSet(FDs)
  /\ QuitFD \in FDs
  /\ MaxEvents \in Nat \ {0}
  /\ MaxCount \in Nat

(* Operators named Wrong... are slips one could make in the definition that *)
(* follows them; no definition uses them.  With one of them in its place    *)
(* the properties must fail.                                                *)

VARIABLES
  registered, \* descriptors added to the epoll set
  count,      \* count[f]: reads f can serve without blocking
  loop,       \* "none" while there is no epoll set, "stopped" outside run(),
              \* "waiting" in epoll_wait, "handling" a batch
  batch,      \* events[n..nfds-1]: what is left of the last epoll_wait
  result      \* what the last run() returned

vars == <<registered, count, loop, batch, result>>

TypeOK ==
  /\ registered \subseteq FDs
  /\ count \in [FDs -> Nat]
  /\ loop \in {"none", "stopped", "waiting", "handling"}
  /\ batch \in Seq(FDs)
  /\ result \in {"NONE", "SUCCESS", "FAILURE"}

(* The object has been constructed: there is no epoll set yet.              *)
Init ==
  /\ registered = {}
  /\ count = [f \in FDs |-> 0]
  /\ loop = "none"
  /\ batch = <<>>
  /\ result = "NONE"

-----------------------------------------------------------------------------
WrongInitForgetsQuit == registered' = {}

\* init()'s EPOLL_CTL_ADD of the quit descriptor.
WatchQuit == registered' = {QuitFD}

(* init(): the epoll set is created, with the quit descriptor in it.        *)
InitLoop ==
  /\ loop = "none"
  /\ loop' = "stopped"
  /\ WatchQuit
  /\ UNCHANGED <<count, batch, result>>

(* init() fails: without an epoll set, or with one that does not have the   *)
(* quit descriptor, because eventfd or epoll_ctl failed.                    *)
InitFails ==
  /\ loop = "none"
  /\ loop' \in {"none", "stopped"}
  /\ UNCHANGED <<registered, count, batch, result>>

(* registerFD and createEventFD, called before the loop runs.  Without an   *)
(* epoll set they fail and change nothing.                                  *)
Register(f) ==
  /\ loop = "stopped"
  /\ f \notin registered \cup {QuitFD}
  /\ registered' = registered \cup {f}
  /\ UNCHANGED <<count, loop, batch, result>>

(* signalEvent, signalQuit or a frame reaching the socket, from outside a   *)
(* handler.                                                                 *)
Signal(f) ==
  /\ count[f] < MaxCount
  /\ count' = [count EXCEPT ![f] = @ + 1]
  /\ UNCHANGED <<registered, loop, batch, result>>

(* run() is called.                                                         *)
Run ==
  /\ loop = "stopped"
  /\ loop' = "waiting"
  /\ UNCHANGED <<registered, count, batch, result>>

(* run() without an epoll set: epoll_wait fails at once.                    *)
RunFails ==
  /\ loop = "none"
  /\ result' = "FAILURE"
  /\ UNCHANGED <<registered, count, loop, batch>>

Ready == {f \in registered : count[f] > 0}

WrongBatchOfOne == 1

BatchSize == IF Cardinality(Ready) < MaxEvents THEN Cardinality(Ready) ELSE MaxEvents

(* epoll_wait returns up to MAX_EVENTS descriptors, each once, in an order  *)
(* the kernel chooses.  Descriptors are level-triggered: what is not        *)
(* reported or not handled now is reported again.                           *)
EpollWait ==
  /\ loop = "waiting"
  /\ Ready # {}
  /\ batch' \in Injection(1..BatchSize, Ready)
  /\ loop' = "handling"
  /\ UNCHANGED <<registered, count, result>>

(* epoll_wait returns -1, which includes EINTR: run() gives up.             *)
EpollFail ==
  /\ loop = "waiting"
  /\ loop' = "stopped"
  /\ result' = "FAILURE"
  /\ UNCHANGED <<registered, count, batch>>

WrongQuitTakesAll == [count EXCEPT ![QuitFD] = 0]

\* clearQuit.
QuitTaken == [count EXCEPT ![QuitFD] = @ - 1]

(* The quit descriptor: run() reads it once and returns at once; the rest   *)
(* of the batch is forgotten.                                               *)
HandleQuit ==
  /\ loop = "handling"
  /\ Head(batch) = QuitFD
  /\ count[QuitFD] > 0
  /\ count' = QuitTaken
  /\ batch' = <<>>
  /\ loop' = "stopped"
  /\ result' = "SUCCESS"
  /\ UNCHANGED registered

WrongServedReadsTwice(f, S) ==
  [g \in FDs |-> count[g] - (IF g = f THEN 2 ELSE 0) + (IF g \in S THEN 1 ELSE 0)]

WrongServedReadsOthers(f, S) ==
  [g \in FDs |-> count[g] - (IF count[g] > 0 THEN 1 ELSE 0) + (IF g \in S THEN 1 ELSE 0)]

\* One read of f and one signal to each descriptor in S.
Served(f, S) ==
  [g \in FDs |-> count[g] - (IF g = f THEN 1 ELSE 0) + (IF g \in S THEN 1 ELSE 0)]

WrongRestOfBatchDropped == "waiting"
WrongOneEventTooMany == "handling"

\* The for loop goes on to the next event, or the for(;;) to epoll_wait.
AfterHandling == IF batch' = <<>> THEN "waiting" ELSE "handling"

(* Any other descriptor: one unit is read, by the loop or by the callback,  *)
(* and the callback signals the descriptors in S, once each, possibly its   *)
(* own.  The read comes first and blocks while there is nothing to read.    *)
Handle(f, S) ==
  /\ loop = "handling"
  /\ Head(batch) = f
  /\ f # QuitFD
  /\ count[f] > 0
  /\ count' = Served(f, S)
  /\ \A g \in S : count'[g] <= MaxCount
  /\ batch' = Tail(batch)
  /\ loop' = AfterHandling
  /\ UNCHANGED <<registered, result>>

-----------------------------------------------------------------------------
\* What the thread in run() does.
LoopStep ==
  \/ EpollWait
  \/ HandleQuit
  \/ \E f \in FDs, S \in SUBSET FDs : Handle(f, S)

Next ==
  \/ \E f \in FDs : Register(f) \/ Signal(f)
  \/ InitLoop
  \/ InitFails
  \/ Run
  \/ RunFails
  \/ EpollFail
  \/ LoopStep

Spec == Init /\ [][Next]_vars

(* The thread in run() is scheduled by the operating system.                *)
FairSpec == Spec /\ WF_vars(LoopStep)

-----------------------------------------------------------------------------
(* Properties.                                                              *)

(* Every descriptor of the batch still to be handled has something to read, *)
(* whatever the handlers before it did: no read of the loop blocks.         *)
NoBlockingRead ==
  /\ \A n \in DOMAIN batch : batch[n] \in Ready
  /\ loop = "handling" => batch # <<>>

(* Only the handling of a descriptor takes from it, one unit at a time: in  *)
(* particular what a quit drops from the batch is still there for the next  *)
(* run().                                                                   *)
NothingDropped ==
  [][ \A f \in FDs : count'[f] < count[f] =>
        /\ loop = "handling" /\ Head(batch) = f
        /\ count'[f] = count[f] - 1 ]_vars

\* The thread is in run().
InLoop == loop \in {"waiting", "handling"}

(* A requested quit ends run(), even if handlers keep each other busy,      *)
(* unless init() failed and the quit descriptor is not watched.             *)
QuitStopsLoop ==
  (InLoop /\ count[QuitFD] > 0) ~> (loop = "stopped" \/ QuitFD \notin registered)

(* No descriptor is starved by the others, unless the loop ends.            *)
EveryEventServed ==
  \A f \in FDs :
    (InLoop /\ f \in Ready) ~>
      (loop = "stopped" \/ (loop = "handling" /\ Head(batch) = f))
=============================================================================
