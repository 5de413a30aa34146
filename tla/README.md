# uim342_utils in TLA+

`uim342_utils` is a command line program that drives a UIM342 stepper motor
over a CAN bus: one command (`axisInfo`, `axisMove`) becomes one or more
*command sequences*, each a list of request/response steps, run by a sequencer
on top of an epoll event loop. These modules model that machinery, TLC checks
them on small instances, and TLAPS proves the central facts for every value of
the constants. Paths below are relative to `src/src/cli/` unless they start
with `src/`.

## 1. Inventory

| part | code | state | operations | correct when |
|---|---|---|---|---|
| application | `uim342_utils.cpp` | the command, the machine | `init`, `execute`, `sequenceComplete` | main returns only after every sequence of the command ran |
| machine | `CNCMachine.cpp:199-386` | axes, observers, the loop, the sequencer | `prepareBeforeRun`, `startSequence`, `start`, `stop`, `CNCSCSequenceComplete` | as above; observers are told once per sequence |
| sequencer | `CNCMachine.cpp:6-197` | `m_curSeq`, `m_curSeqExec`, `m_activeSequences`, `m_pendingFD` | `startSequence`, `eventFD`, `processFrame`, `finishCurrentSequence`, `freeExecution` | no wake-up lost, none spent on a step that did not earn it, executions freed once |
| sequences and steps | `CmdSequence.cpp:690-1046` | sequence state, step index, step state, step active | `takeNextAction` (two levels), `startStep`, `processFrame` | steps run in order, each answered by its own response |
| event loop | `EventLoop.cpp` | epoll set, quit and event eventfds | `init`, `registerFD`, `createEventFD`, `run`, `signalEvent`, `signalQuit` | reads never block, nobody starves, a quit ends `run()` |
| CAN frame | `CANRR.cpp:22-278` | IDs, command, data, read index | `set*`, `append8/16/32`, `sendFrame`, `readFrame`, `read8/16/32` | what one end writes the other end reads |
| CAN bus, devices | `CANRR.cpp:280-652` | interface, socket, sinks | `configureBus`, `open`, `registerWithEventLoop`, `receiveFrame`, `sendFrame`, sinks | a frame reaches the sequencer once; failures at the start are noticed |
| axes, components | `CNCAxis*.cpp` | maps of components and busses | add, lookup, register | lookups find what setup added |
| machine setup | `UIM342Machines.cpp` | - | `setup` | the machine has the sequences execute() names; requests find the motor and its bus |
| motor commands | `UIM342Cmd.cpp` | - | `formatRequest`, `parseResponse` of 30-odd steps | requests are well formed, answers stored under the right names |
| results, parameters | `CmdSequence.cpp:95-507` | a tree of values; a map of strings | `enterContext`, `leaveContext`, `update*`; `setValue`, `lookup*` | contexts paired; the value read is the one meant for this run |

### How the parts interact

The program has one thread. `App::init` builds the machine, takes the network
interface down and up again, creates the event loop and registers the
sequencer's eventfd and the bus socket with it. `App::execute` sets parameters
in a map that executions share by pointer, calls
`startSequence`, which makes a sequence current and writes one unit to the
eventfd, and (for `axisInfo` only) `start`, which runs the loop. The loop calls
`CNCSequencer::eventFD` for each unit of the eventfd; that takes the current
sequence one action further, and may write a unit back. A step writes a frame
to the bus and waits. The loop calls `CANBus::receiveFrame` for a readable
socket; the frame goes through bus, device and sequencer to the step at the
current index, and the sequencer writes one unit to the eventfd. The end of a
sequence calls back to the machine and the application, which signals quit.

### What is hard

* A unit in the eventfd does not say what it was written for, and
  `CmdStep::takeNextAction` answers DONE for a step in any state but READY. An
  unsolicited frame therefore leaves one wake-up too many, and a later step
  completes before its answer comes. All later answers are credited to the
  wrong step.
* There is no timeout: a lost frame, or a request that cannot be sent, leaves
  the sequence current and the loop asleep.
* Batches of `epoll_wait` are snapshots over blocking descriptors; callbacks
  signal their own descriptor; a quit drops the rest of a batch.
* Executions all have the id `s1`; `m_curSeq` is not initialized; errors of
  `configureBus`, `init`, `registerWithEventLoop`, `run` and `startSequence` are
  ignored, so the program goes on in states nobody meant.
* The motor acts on what reaches it: a step that was passed over, a parameter
  that changed between start and run, or a wait that is only a `sleep(10)` show
  in how it moves.

`PROJECT.json` lists each hazard at its line with the properties it is for.

## 2. Modules

| module | models | checked by | proofs |
|---|---|---|---|
| `CNCSequencer` | sequencer, sequence, step, execution object | `MCCNCSequencer` | `CNCSequencerProofs` |
| `EventLoop` | the epoll loop and its eventfds | `MCEventLoop` | `EventLoopProofs` |
| `RequestResponse` | abstract: a lockstep exchange of requests and answers | as a property of `UIM342App` | - |
| `MachineWiring` | axes, components, sinks, and what `setup` makes of them | with `UIM342App` | - |
| `UIM342App` | application + machine + sequencer + loop + bus + controller | `MCUIM342App` | `UIM342AppProofs`, `UIM342AnswersProofs`, `UIM342CommandProofs` |
| `AxisReport` | what `axisInfo` tells its user: `UIM342App` with the contents of the frames, the steps' parsing and the printed results | `MCAxisReport` | `AxisReportProofs` |
| `AxisMotion` | what `axisMove` does to the motor: `UIM342App` with the parameters, the requests and the motor | `MCAxisMotion` | `AxisMotionProofs` |
| `CANIdentifier` | the 29-bit identifier, packed and unpacked | with `CANFrame`, `AxisReport` | with `CANFrameProofs` |
| `CANFrame` | building, sending, receiving and reading a frame | `MCCANFrame` | `CANFrameProofs` |

### CNCSequencer

One action per way through a callback. `eventFD` (after the loop has read one
unit) is `IdleEvent`, `InitEvent`, `FinishEvent`, `RunStepEvent(sent)` or
`StepDoneEvent`: the branches of `CmdSequence::takeNextAction`
(`CmdSequence.cpp:924-1019`) with the step's `takeNextAction` and `startStep`
and the switch of `eventFD` (`CNCMachine.cpp:148-170`) folded in. `pending` is
the eventfd's value: `Reschedule` leaves it (one read, one written),
`NoReschedule` takes one, `ReadyToSchedule` adds one. `ProcessFrame(parsed)` is
the whole path of a frame once it reached the sequencer.

The step object has no state of its own that is read, so `exec` holds all of
it: `[seqState, stepActive, stepIndex, stepState]`. Execution objects are
numbered as they are allocated (`allocs`); `live` is what `new` returned and
`delete` did not take; `activeSequences` is the one entry of the map, because
every id is `s1`. What a dereference of a garbage pointer or index does is
undefined; the outcome kept is `crashed`, after which nothing happens. (A
garbage `m_curSeq` cannot be NULL or, in practice, a registered sequence.)

`started`, `unsolicited`, `rejected` and `unearned` are history variables: no
guard but the bound on `unsolicited` reads them.

The module is open: any sequence is started at any time when none runs, a frame
may come at any time, any send may fail, any frame may be refused by
`parseResponse`.

### EventLoop

`count[f]` is how many reads descriptor `f` can still serve: the value of an
`EFD_SEMAPHORE` eventfd, or the number of queued frames. `EpollWait` puts up to
`MaxEvents` ready descriptors in `batch`, in any order; `Handle(f, S)` is one
turn of the inner loop (`EventLoop.cpp:194-209`), reading `f` and signalling the
descriptors in `S`, as callbacks do; `HandleQuit` returns. `Handle` and
`HandleQuit` need `count > 0`: a read of an empty blocking descriptor does not
return. `NoBlockingRead` says that guard is never what stops them.

`InitFails` is `init()` returning early (`EventLoop.cpp:75-102`): without an epoll
set (`loop = "none"`), where every registration and `run()` fails at once, or with
one that does not watch the quit descriptor.

### UIM342App

Composes the two by `INSTANCE`: the sequencer's `pending`, the application's
`quit` and the socket's queue `rx` are the loop's `count`, so a callback's
writes and the loop's reads are one step. `todo` is the list of calls `init` and
`execute` still have to make; a call happens when the loop is not running. The
first calls are those of `setup` and `prepareBeforeRun`: `ConfigureCall` twice
(interface down, interface up), `InitCall`, `RegisterPendingCall` and one
`RegisterBusCall` for each component `MachineWiring` says is registered.
`SequencerEvent` and `BusEvent` conjoin a sequencer action with `Loop!Handle`,
and the latter checks that what the callback did to the eventfds is at most one
signal each. Requests are numbered by the step that sent them; a frame is the
number of the request it answers, or `NoRequest`.

External, modelled from how the code uses it: the controller answers requests
in order (`Answer`), and the bus (`BusFault`) may lose a request or answer,
deliver an answer twice, or deliver a frame nobody asked for. A failed
`read()`, which `receiveFrame` passes on like a frame, looks to the sequencer
like the last of these. `sendFail` is a failed `write()`, and `interrupt` an
`epoll_wait` that returns EINTR.

The faults of the startup are all ignored by the code, so the program goes on:
`netlinkFail` leaves the interface as it was, or changed with the
acknowledgement lost (`CANRR.cpp:313-483`); `initFail` is `InitFails`; `watchFail` is an
`epoll_ctl` that fails, which leaves `m_pendingFD` NULL (`CNCMachine.cpp:31`) or the
bus open and unwatched (`CANRR.cpp:536`); `openFail` leaves no socket, an unbound
one, or, as the `ioctl` of `CANRR.cpp:507` is not checked, one bound to another
interface or to all of them. A request goes out only if the motor is wired to the
bus, the socket is bound to `can0` and `can0` is up (`CanSend`).

`BusEvent` uses `ProcessFrame(TRUE)`: every `parseResponse` of `UIM342Cmd.cpp`
returns success. The refusing case is covered in `CNCSequencer`.

### RequestResponse

What a sequence should be: request, response, request, ..., complete, each
response credited to the request just made. `UIM342App` implements it, with the
length of `started` as `sent`, `answers` as `results`, and the completion
callback as `done`.

### AxisReport

Extends `UIM342App`, which decides which step is given which frame, with the data:
the table of steps as `initCmdSteps` builds it (`AxisInfoSteps`), each a command
code, an argument, the widths `parseResponse` reads and for each field it stores the
position of its value among them and the form it is given; the controller's
registers (`regs`); the results of the execution (`report`) and what `printTree`
printed (`printed`). Each action of `UIM342App` is taken over whole, with what it
does to the results: `StoreResults` is `BusEvent` with `parseResponse`,
`PrintResults` is `SequencerEvent` with the `printTree` of `finishCurrentSequence`.

A failed read leaves its variable and the read index alone and nobody checks
it; an uninitialized variable holds `garbage`, one value for each size of variable
and behaviour. That loses no outcome of a field, as every field is stored from one
variable. Texts with two wordings are kept as which of the two it is. `read8` or-s
its byte into what the variable held: `OrByte` adds the bits that were missing.
Numbers keep their width: a byte has `ByteSize` values, and `AsInt` is what `%d`
makes of a `uint`.

What the controller answers is not taken from the code that reads it: `AnswerSize`
says for each command how many bytes of value it has. `Truth(f, n)` states what a
field should say from its name and the number the controller gave, not from the
table; positions are signed, as the examples use them. `KnownUntruth(f, n)` lists the
four kinds of fields that say something else, and what:

| fields | what the report says |
|---|---|
| the four IE_ flags | false |
| both positions | the unsigned reading of the bits |
| the four one-byte values | the register's bits and those left in the variable |
| the serial number | the signed reading of the bits (`%d` of a `uint`) |

The trace of `report_untrue` ends with a report that shows the first three, each of
which contradicts the code or the examples; that a serial number reaches 2^31 nothing
in the repository says. `UntruthsKnown` says that there are no others. The
requests' identifiers are made here too: `RequestID` packs a frame whose IDs nobody
set, as `startStep` does.

### MachineWiring

Operators for what the registries do (`AddComponent`, `AddAxis`, `Lookup`,
`Registrations`, `AddEventSink`, `SetBusConnection`, `Deliveries`) and the values
`setup` makes with them (`Axes`, `Net`). Nothing changes once setup is done, so
there are no actions; what the rest finds is `RequestBus` (where a request goes),
`CallsPerFrame` (how often a frame reaches the sequencer) and `Registered` (what is
registered with the loop), and `UIM342App` uses those instead of assuming them. Were
the motor not a sink of the bus, no answer would arrive and `Terminates` fails.

### AxisMotion

Extends `UIM342App` with `setValue` calls between the starts, the
parameter map (`params`), the contents of the requests on their way (`orders`) and
the motor (`motor`: driver, target, speed, moving), which executes an order when it
answers it. `wanted` remembers the parameters at the start of the sequence, as the
caller saw them. A number is its own text: `sprintf` and `sscanf` with `%i` are
inverse to each other. The motor is external and kept to what the
names of the commands say: nothing moves without its driver, a motion ends some
time, sooner or later than the ten seconds `UIM342WaitMotionCompleteStep` sleeps.

`MotionCalls` is the branch of `execute()` as it stands: it never runs the event loop
(the run `app_move`), so no request is sent and no motor moves, and the properties
hold of it vacuously. They are about what the four sequences do to the motor when
they run. For that, `WithRuns` adds runs of the loop, which are not in the code:
behind every start, where `uim342_utils.cpp:179-189` has them as comments
(plan `1..4`), or behind the last, as the `axisInfo` branch has one (plan `{4}`). The
plan `{}` is the code. The properties hold for all three; where a call is refused
because an earlier sequence is still current, they say so.

### CANIdentifier, CANFrame

An integer is the set of its one-bits, so masks are intersections and shifts
move elements; the definitions follow the shifts of `sendFrame`
(`CANRR.cpp:213-245`) and `readFrame` (`CANRR.cpp:247-278`) bit by bit. `read8` ors into
the caller's variable (`CANRR.cpp:207`), so it takes the garbage that variable
held.

### Wrong... operators

Each is a slip one could make in the definition after it (a forgotten
reschedule, an index one late, the wrong byte order). No definition uses them.
`PROJECT.json` "mutants" says which property each of them breaks when it takes
the place of that definition: the evidence that the property tells right code
from wrong.

## 3. Runs

| run | question | bounds |
|---|---|---|
| `sequencer` | does the sequencer keep its promises under every order of events? | sequences of 0, 1 and 3 steps, 2 executions, 2 unsolicited frames |
| `event_loop` | do the loop's guarantees hold for handlers that signal anything? | 3 descriptors (the program's), 2 units each |
| `app_faults` | what can each fault, at the start or later, do, and no more? | 4 steps, any 2 faults of 9 kinds, `m_curSeq` garbage or NULL |
| `app_move` | *violation*: does `axisMove` run its sequences? | real lengths, no faults |
| `app_wild` | *violation*: is a call refused only while a sequence runs? | no faults, `m_curSeq` not initialized |
| `app_send_fail` | *violation*: does a step that fails end its sequence? | 4 steps, one failed send |
| `report` | without faults, is `axisInfo` a lockstep exchange that ends, and does the printed report say what the controller's registers held, but for what is known? | the real 29 steps, three settings of all registers, bytes of 4 bits, uninitialized variables 0 or 2 |
| `report_faults` | how much of the report can surplus frames cost? | 5 steps, any 2 stray or duplicate frames |
| `report_untrue` | *violation*: does every field of the report say what the controller's registers held? | as `report`, with one setting: flags and driver on, positions negative, uninitialized variables 2 |
| `requests_addressed` | *violation*: do the requests of `axisInfo` carry the IDs of the examples? | as `report` |
| `motion` | were its sequences run, would the motor be set up, moved, stopped and switched off in that order and with this command's parameters? | real lengths, the loop run never (the code) and in 2 other ways, any 2 faults of the exchange |
| `frame` | does what one end writes arrive? | bytes of 2 bits, 5 bytes of payload, 3 appends, IDs around the 5-bit limit |

Why the bounds are enough:

* Sequencer: the code tells first, inner and last step apart, so three steps
  have one of each; one step is both first and last; the empty list has a branch
  of its own. Two executions show what survives the end of a sequence (surplus
  wake-ups, the map entry). Two unsolicited frames let one surplus wake-up be
  followed by another. `MaxStarts` and `MaxUnsolicited` are the only bounds.
* Event loop: the program has three descriptors and `MAX_EVENTS` is 10, so a
  batch holds every ready descriptor; the instance keeps that (`MaxEvents = 3`)
  and `QuitStopsLoop` and `EveryEventServed` rest on it. `MaxCount = 2` tells
  "one left" from "none left" after a read.
* Application: with 4 steps every fault can hit the first, an inner and the last
  step, and two faults can combine. `MaxUnsolicited`, `MaxCount` and `MaxStarts`
  are set above what the run can reach.
* Report: without faults only the wake-up and the reading of a frame interleave, so
  the full sequence is cheap. One register setting is all zero; in the second
  neighbouring values differ in every byte, so a wrong width, offset, name or credit
  shows, and the flags, the driver's state and the bitrate have a value that means
  something; the third has the sign bit of every value set. Bytes of four bits have
  room for the parameters' numbers, a sign bit and three bits that differ, and keep
  a value of four bytes within TLC's numbers. An uninitialized variable is 0, so
  that the one-byte values must be true, or 2, so that they need not. With faults,
  what happens depends on which frames meet in one batch, at every step anew, and
  the states grow exponentially with the steps: five steps, two faults.
  `GapsBounded` was also checked for eight steps with one fault and four steps with
  three.
* Motion: the real sequences. One increment, negative, so that the two's
  complement of `append32` and its reading back matter (`MaxInt = 2047` leaves
  room for it and the speed, 1000); the controller remembers another target and speed (7), which a
  skipped step would leave in force. Two faults: one surplus frame and one lost or
  unsent request are what the exceptions of the properties name together. The
  faults of the startup add nothing here that `app_faults` does not show.
* Frame: the definitions treat all bits of a byte alike; two bits show order and
  truncation. Five bytes make a 4-byte value fit, fail to fit and fit exactly
  after a 1-byte one. The IDs are those of the examples (4, 5), 31, 32 and 63.

`CHECK_DEADLOCK FALSE`: `sequencer` stops when its bounds are used up or the
process crashed; `frame` ends when all was read; `app_faults`, `app_wild` and
`app_send_fail` reach the hang that is part of their subject, and so does `motion`,
whose sequences may also be left unrun. The other runs check for deadlock.

### Fairness

* `WF(PendingEvent)` (sequencer): the loop is level-triggered, so a nonzero
  eventfd is reported until it is read; `event_loop` shows it
  (`EveryEventServed`).
* `WF(Answer)` (sequencer, application): the controller answers a request that
  reached it. Losing it is a separate action, and only where faults are allowed.
* `WF(LoopStep)`, `WF(MainStep)`: the operating system schedules the only
  thread. Nothing is assumed of faults, signals or the order of batches.

### What the runs show

* Each frame that answers nothing is worth one wake-up too many and shifts the
  answers by at most one step; it can neither hang nor crash the program
  (`UnearnedBounded`, `LagBounded`, `InFlightBounded`, `TerminatesUnlessFault`).
* A hang takes a lost frame, an unsent request, a garbage `m_curSeq`, an interface
  left down, a socket that is not the bus, a bus nobody watches, or, after
  everything was done, a quit nobody watches (`HangNeedsFault`). A crash takes a
  garbage `m_curSeq` or an `m_pendingFD` that could not be created
  (`CrashExplained`); an interrupted `epoll_wait` ends the command early
  (`CommandDone` has that exception).
* The report of a sequence that completes is whole when no surplus frame came, and
  true but for the four kinds of fields named under `AxisReport`: flags that are set,
  negative positions, serial numbers from 2^31, and one-byte values whose variable
  had other bits set before (`UntruthsKnown`). One surplus frame can cost every second
  field: from then on two answers can meet at one step and none at the next, and
  nothing brings the exchange back in step (`GapsBounded`: with S such frames one
  step in S + 1 is told).
* As the code stands `axisMove` sends nothing. With the runs of the loop put back,
  the motor is never made to move with another command's target or with its driver
  off, nor is the driver switched off under a moving motor, unless a surplus frame
  made a sequence pass over its first step, or one stood in for an answer that got
  lost (`MotionPrepared`, `StoppedBeforeOff`). Sharing the parameters by pointer is
  harmless as long as no call was refused (`ParametersAsAsked`); when one was, the
  first sequence is executed with the `off` meant for the last.
* The violations are disagreements between the code and what it says of itself;
  the findings in `PROJECT.json` quote both sides.

## 4. Proofs

Assumptions: those named `...Assumption` in the modules (types of the constants; for
the sequencer only that `StepCount` is a function into `Nat` and that `NoSeq` and
`Wild` are no sequences; for the loop that the descriptors are finite in number and
the quit descriptor is one of them; for the program that the command is one of the
two and its sequences have steps; for the motor that the increments and the speed
fit in an `int`, that `StepCount` counts the steps of the sequences and that the
motor stands still at first; for the report that the steps are from the table and no
two of them store one field, that registers hold as many bytes as `AnswerSize` says
and stray frames carry bytes, that a byte has from 9 to 256 values, and that
uninitialized variables hold numbers of their size; for the frame the kinds of its
values). `WiredAssumption` says that the wiring `setup` builds registers the bus
with the loop once and sends the requests there; it is a fact about constants, which
TLC computes. TLC evaluates them in every run.

`CNCSequencerProofs`, for any set of sequences of any length:

* `TypeCorrect`. The invariant that everything else uses.
* `WakeupNeverLost` and `UnearnedStepsBounded`. `NoLostWakeup` bounds `pending`
  from below and is inductive with the types. `UnearnedBounded` is not: a
  wake-up must first be had to be spent. `WakeupAccount` strengthens it to the
  whole balance (spent + available is at most the surplus delivered + the one
  that is needed).
* `DispatchIsSafe`. Its inductive part relates index, state and list length: an
  index past the list exists only inside the call that ends the sequence.
* `ExecutionsOwned`. The map entry, the current pointer and the allocated set
  agree; that the key is always the same is harmless because they do.
* `StepsStartInOrder` and `FinishedIsComplete`, both from `StepOrder`, which says
  for each phase of an execution how the index relates to the steps started.

`EventLoopProofs`, for any finite set of descriptors, batch size and counter:

* `TypeCorrect` and `ReadsNeverBlock`, from `BatchInv`: what is left of a batch
  has no descriptor twice and a handler takes only from its own, so what
  `epoll_wait` found ready still is when the handler reads.
* `NothingIsDropped`: in each action, what leaves a counter is what its handler
  took (`TakesOne`), also when the quit event ends the batch early.

`CANFrameProofs`, for any width of a byte, any limit of bytes, any values:

* `AddressAlwaysDelivered`, from `ShiftBack` (shifting there and back is the
  identity) and `FieldsRecovered` (the fields do not overlap).
* `TypeCorrect`.
* `ValuesReadBack`. `ReadBack` speaks of the values read, so the invariant says
  where the next one is: there are offsets, one for each value written, at which
  the bytes of the values lie end to end in the data (`Laid`), and a reader that
  has used the same widths stands at the offset of the next (`LayoutInv`). `ByteBack`
  is the step from the bytes back to the value.

`UIM342AppProofs`, for any fault kinds, bounds and step counts. The sequencer and the
loop are instances (`SP`, `LP`) of their proof modules: a step of the program is a
step of the sequencer but for one, the wake-up written to an `m_pendingFD` that does
not exist (`NullWakeup`, lemma `SequencerSteps`), so the components' invariants carry
over and only what composition adds is proved here.

* `TypeCorrect`, `NoReadBlocks`. `CallsInv` orders the calls still to be made by
  stages: a sequence is started after everything is registered, the loop run last.
* `CrashesExplained`. `StartupInv` ties what is not there (loop, `m_pendingFD`) to
  the call still to come or to a fault; the invariant is that dispatch is safe, or
  the crash was that one wake-up and a fault of the startup had taken its object.

`UIM342AnswersProofs`, on the traffic with the controller:

* `FlightBounded`, from `FlightAccount`: frames under way and wake-ups to come are at
  most the surplus frames, plus one if a wake-up is due, plus one if a step waits.
* `LagIsBounded`. The lag of a credited answer must be known before it is credited:
  `BusLag` bounds it for every frame and request on the bus against the step that will
  be current when it arrives, `IndexInv` and `QuietInv` (nothing is in flight
  while a sequence has still to be started, but surplus frames) start it off.

`UIM342CommandProofs`, for `Cmd = "axisInfo"`:

* `InfoDone`: `OnceInv` (one start, one completion), `RunIsLast` and `Outcome` (what
  each way to end the run says of the sequence) give `CommandDone`.
* `InfoIsExchange`, with `FaultKinds = {}`: the initial states and every step of the
  program map to `RequestResponse`, the safety part of `ImplementsExchange`.
  `Calm` says no fault is counted, `Paired` that the frame on the bus belongs to
  the step that waits for it.

* `HangsExplained`, for both commands. The program sleeps for good when nothing is
  ready, so the invariant says what there always is to wake it, or which fault took
  it: a step that waits has a frame under way or one was lost, a failed step could not
  send (`StepInv`); without a sequence the command is done and the quit event signalled
  (`EndInv`); interface, socket and descriptors are in place, unless still to come or
  failed (`EnvInv`). `CallsOfInfo` writes the calls of `axisInfo` out. For `axisMove`
  the loop is never entered.

`AxisReportProofs`, for any steps of the table, register contents, stray payloads,
contents of uninitialized variables and faults:

* `ReportIsProgram`. Every step of `AxisReport` is a step of `UIM342App` or a stutter:
  the contents of frames and the report decide nothing, and every theorem about the
  program holds with them.
* `GapsAreBounded`. When the sequence completes, every S + 1 steps, S the surplus
  frames, have one whose fields are printed. What is counted at the end depends on
  how every frame met a step, so `CreditInv` keeps an account from the start. `FirstStep`:
  before the first frame the index stays at the first step, and no wake-up is there
  that is not needed. `LaterSteps`: a wake-up moves the index by one at most, so the
  index and the wake-ups to come are together never more than S + 1 ahead of the last
  step that was given a frame (`Ahead`); that is where the next frame can find it, so
  each step that is given one is at most S + 1 behind the next. The bound on the
  wake-ups a frame leaves is `FlightAccount`, from `UIM342AnswersProofs`. `ContentInv`
  says that the fields of every step given a frame are stored, and `FieldType` that
  none of them is then missing, however short the frame was.
* `UntruthsAreKnown`. Without surplus frames the same account leaves no step out, and
  `LagInv` says that the answer a step is given is the one to its own request, so its
  fields hold what `parseResponse` makes of that (`ContentInv`). What that says is
  `FieldTrue`, about the table alone: each of the 29 steps stores one value, or
  for the model two, read behind the parameter the controller repeats, at the width
  the register has, in a form that is the `Truth` of the field's name or its
  `KnownUntruth` (`Apt`, `Rows`, `ReadsAll`, `AfterParameter`, `ModelRead`). The
  theorem does not say that the report is true: where a field is of the four kinds,
  it says what is printed instead.

TLC found `CreditInv` and `ContentInv` true on five steps with two faults (duplicate,
stray, lost frames and failed sends) before they were proved.

`AxisMotionProofs`, for any increment an `int` holds, any of the plans to run the
loop, any faults (of the startup too) and any state at rest the controller was left
in (the code's plan, which runs the loop never, is among them, and there they hold
because no request is sent): `MovesPrepared`, `StopsBeforeOff`,
`CarriesWhatWasAsked`, `EndsAtRest`, which are all
four properties the run `motion` checks. The command asks for seven orders; each has a
place, 1 (driver on) to 7 (driver off). `PlacesInv` says that those executed lie
before those under way and both are in ascending order, so the motor's state follows
from the set of places executed (`MotorInv`), and the properties from which places
can be missing there. Three parts of the invariant bound that:

* `At` and `ParamsInv`. Where `main` is in its list of calls, in seven phases, says
  what the parameters are now; `wanted` says what they were at the start. The two
  differ only after a refused call (`StartsInv`).
* `Lockstep`. Without surplus frames, the order under way is that of the step that
  waits, and every place before it in a sequence that was accepted is executed: a step
  is left only by its own answer.
* `NothingLost`. With surplus frames the index runs ahead of the motor, but only the
  first place of a sequence can be passed over without `startStep` (as in
  `StepsStartInOrder`). So with nothing lost or unsent, the speed (3) and the stop (6)
  were sent once their steps are behind.

Each of the properties alone is far from inductive, since an order sent wrongly shows
only when the controller executes it. The invariant rests on the composition's
(`FlightAccount`, `WakeupInv`, `OrderInv`, `BatchInv`), which `AxisMotion` shares with
`UIM342App`: `CoreInv` is what they need of the list of calls still to be made
(`HeadTyped`: the next one is well formed), so they hold with the `setValue` calls
in that list as well. TLC found `MotionInv`, part by part, true on the instance of
`motion` with one fault of every kind, before it was proved.

Only model-checked: liveness (`Scheduled`, `FinishesUnlessError`, `QuitStopsLoop`,
`EveryEventServed`, `Terminates`, `TerminatesUnlessFault` and the fairness in
`ImplementsExchange`), which is beyond the prover. All invariants and action
properties of the passing runs are proved.

## 5. Not modelled

* Functions the program never calls: `removeComponent`, `getComponentByID`,
  `updateParameter`, `getParameter`, `removeAxis`, `getAxis`, `removeEventSink`,
  `clearBusConnection`, `getBusID`, `leaveContext` of `CmdSeqResults`, `setCANID`,
  `lookupCANID`, `isEqual`, `appendData`, `setTgtID`, `setSrcID` by the program itself
  (they are in `CANFrame`), `continueStep`, `registerCallback` a second time,
  `executeSequence`, the (empty) group motion sequence. The timeout functions,
  `hasError`, `setErrorState`, `cleanupAfterRun` do nothing.
* Nested contexts of the results: no step enters one.
* Descriptors leaked by a failing netlink call or `open`: the process is about to
  end.
* The contents of netlink messages; whether the kernel accepts them is `netlinkFail`.
* Option parsing, and all printing but that of the results.
* Destruction: nothing is freed but executions, `exit` does the rest.

## 6. Plan

Done: every part of the program that has state, its composition with the faults of
the startup and of the exchange, both commands down to the report and the motor,
and proofs for the sequencer, the loop, the frame, the composition, the report and
the motor.

What could still be added: the contents of the frames under faults of the startup
(nothing is expected of it, the exchange does not begin); and in `AxisReport` a
controller whose registers change while they are read, as the positions do when
something turns the motor by hand. `UntruthsKnown` would then speak of the time at which
each request was answered.
