---------------------------- MODULE MachineWiring ----------------------------
(***************************************************************************)
(* How a machine is put together: the registry of axes and components      *)
(* (CNCMachine.cpp, CNCAxis.cpp, CNCAxisComponent.cpp), the event sinks of *)
(* busses and devices (CANRR.cpp), and what UIM342SingleAxisMachine::setup *)
(* (UIM342Machines.cpp) makes of them.  Once setup() is done none of it    *)
(* changes, so these are operators and values; UIM342App takes from here   *)
(* what the machine registers with the event loop, where a request goes    *)
(* and where a frame comes out.                                            *)
(*                                                                         *)
(* A std::map is a function from IDs; its order is the order of the IDs.   *)
(***************************************************************************)
EXTENDS Naturals, Sequences, FiniteSets, TLC

LOCAL INSTANCE SequencesExt

\* The IDs of setup(), as std::map<std::string, ...> sorts them.
IDOrder == <<"XAxis", "XMotor", "cbus0">>

\* NULL, or the pointer a failed lookup leaves alone.
Nothing == "nothing"

\* The iteration over a map.
InOrder(map) ==
  LET ids == SelectSeq(IDOrder, LAMBDA id : id \in DOMAIN map)
  IN  [i \in DOMAIN ids |-> map[ids[i]]]

-----------------------------------------------------------------------------
(* Axes and components.                                                     *)

\* CNCAxis::addComponent replaces a component of the same ID.
AddComponent(axis, id, function, object) ==
  (id :> [object |-> object, function |-> function]) @@ axis

\* CNCMachine::addAxis: map::insert keeps an axis of the same ID.
AddAxis(axes, id, axis) == axes @@ (id :> axis)

(* CNCMachine::lookupCANDevice and CNCAxis::lookupCANDeviceByFunction: the  *)
(* first component with the function, whatever it is.                       *)
Lookup(axes, axisID, function) ==
  IF axisID \notin DOMAIN axes
    THEN Nothing
    ELSE LET found == SelectSeq(InOrder(axes[axisID]), LAMBDA c : c.function = function)
         IN  IF found = <<>> THEN Nothing ELSE Head(found).object

(* CNCMachine::prepareBeforeRun and CNCAxis::registerWithEventLoop: every   *)
(* component of every axis is asked; only busses do anything.               *)
Registrations(axes, busses) ==
  FlattenSeq([i \in DOMAIN InOrder(axes) |->
    LET components == InOrder(InOrder(axes)[i])
    IN  SelectSeq([k \in DOMAIN components |-> components[k].object],
                  LAMBDA object : object \in busses)])

-----------------------------------------------------------------------------
(* Busses and devices.                                                      *)

\* Constructors of CANBus and CANDevice.
Unconnected(busses, devices) ==
  [sinks  |-> [o \in busses \cup devices |-> {}],
   bus    |-> [d \in devices |-> Nothing],
   nodeID |-> [d \in devices |-> 5]]

\* CANBus::addEventSink and CANDevice::addEventSink.
AddEventSink(net, source, sink) == [net EXCEPT !.sinks[source] = @ \cup {sink}]

WrongSetBusConnectionOneWay(net, device, bus, node) ==
  [net EXCEPT !.bus[device] = bus, !.nodeID[device] = node]

(* CANDevice::setBusConnection.  The node ID is stored and never used; so   *)
(* is the group ID.                                                         *)
SetBusConnection(net, device, bus, node) ==
  AddEventSink([net EXCEPT !.bus[device] = bus, !.nodeID[device] = node], bus, device)

(* CANBus::receiveFrame and CANDevice::processFrame: every device on the    *)
(* bus passes every frame to each of its sinks, one call for each pair.     *)
Deliveries(net, bus) ==
  UNION {{<<device, sink>> : sink \in net.sinks[device]} : device \in net.sinks[bus]}

-----------------------------------------------------------------------------
(* UIM342SingleAxisMachine::setup.                                          *)

XAxis ==
  LET withBus == AddComponent(<<>>, "cbus0", "CANController", "bus")
  IN  AddComponent(withBus, "XMotor", "Driver", "motor")

Axes == AddAxis(<<>>, "XAxis", XAxis)

Net ==
  LET connected == SetBusConnection(Unconnected({"bus"}, {"motor"}), "motor", "bus", 5)
  IN  AddEventSink(connected, "motor", "sequencer")

-----------------------------------------------------------------------------
(* What the rest of the program finds.                                      *)

\* startStep's lookupCANDevice( "XAxis", CNCACOMP_FUNC_DRIVER, &device ).
Driver == Lookup(Axes, "XAxis", "Driver")

\* CANDevice::sendFrame: the bus a request goes out on.
RequestBus == IF Driver = Nothing THEN Nothing ELSE Net.bus[Driver]

\* How often the sequencer's processFrame is called for one frame of the bus.
CallsPerFrame == Cardinality({d \in Deliveries(Net, "bus") : d[2] = "sequencer"})

\* What prepareBeforeRun registers with the event loop.
Registered == Registrations(Axes, {"bus"})

(* It is one descriptor, the CAN socket, on which the requests go out.      *)
ASSUME WiredAssumption ==
  /\ Registered = <<"bus">>
  /\ RequestBus = "bus"
=============================================================================
