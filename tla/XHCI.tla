-------------------------------- MODULE XHCI --------------------------------
(***************************************************************************)
(* The configuration of USB devices: OnEvent and what it calls in          *)
(* usb/xhci/xhci.cpp, the initialisation of a device in usb/device.cpp and *)
(* of its class driver in usb/classdriver/hid.cpp.  One event at a time    *)
(* moves one port on; only one port at a time may be between reset and     *)
(* address, and the others wait.  The controller, its ports and the        *)
(* devices are modelled from how the code uses them: commands are carried  *)
(* out in order, transfers in any order, and a change of a port is         *)
(* reported when no other change of it is pending.                         *)
(***************************************************************************)
EXTENDS Integers, Sequences, FiniteSets

CONSTANTS MaxPorts,     \* ports are numbered from 1
          kDeviceSize,  \* slots are numbered from 1
          Others,       \* bound: ports whose device has no driver
          MaxPulls      \* bound: times that a device is pulled out

ASSUME PortAssumption == MaxPorts \in Nat \ {0} /\ kDeviceSize \in Nat /\ kDeviceSize >= MaxPorts

VARIABLES connected, enabled, \* of each port, in PORTSC
          changed,            \* the change bits of each port that are set
          hid,                \* ports at which there is a boot keyboard or mouse, if anything
          pulls,              \* times that a device was pulled out
          slots,              \* slots that the controller has enabled
          commands,           \* the command ring
          transfers,          \* <<slot, request>>: what devices are asked for
          events,             \* the event ring
          boot,               \* the next port that Initialize looks at
          port_config_phase, addressing_port,
          devices             \* devices_[slot]

ports == <<connected, enabled, changed, hid, pulls>>
vars == <<ports, slots, commands, transfers, events, boot, port_config_phase, addressing_port, devices>>

Port == 1..MaxPorts
Slot == 1..kDeviceSize

ConfigPhase == {"NotConnected", "WaitingAddressed", "ResettingPort", "EnablingSlot",
                "AddressingDevice", "InitializingDevice", "ConfiguringEndpoints", "Configured"}

\* No device: FindBySlot returns nullptr.  A device knows its port from the
\* device context, which the controller fills in when it gives the address.
NoDevice == [port |-> 0, initialize_phase |-> -1, hid_phase |-> 0]
NewDevice == [port |-> 0, initialize_phase |-> 0, hid_phase |-> 0]

PortStatusChange(p) == [type |-> "PortStatusChange", port |-> p]

Init ==
  /\ connected \in [Port -> BOOLEAN]
  /\ enabled = [p \in Port |-> FALSE]
  /\ changed = [p \in Port |-> IF connected[p] THEN {"CSC"} ELSE {}]
  /\ hid \in {h \in SUBSET Port : Cardinality(Port \ h) = Others}
  /\ pulls = 0
  /\ slots = {} /\ commands = <<>> /\ transfers = {} /\ events = <<>>
  /\ boot = 1
  /\ port_config_phase = [p \in Port |-> "NotConnected"]
  /\ addressing_port = 0
  /\ devices = [s \in Slot |-> NoDevice]

-----------------------------------------------------------------------------
(* Ports.  phase, addressing and queue stand for port_config_phase,        *)
(* addressing_port and the events left after the one in hand.              *)

\* Mutant: another port in between is not looked for.
ResetPortAtOnce(p, phase, addressing, queue) ==
  IF connected[p] THEN
    /\ port_config_phase' = [phase EXCEPT ![p] = "ResettingPort"]
    /\ addressing_port' = p
    /\ enabled' = [enabled EXCEPT ![p] = TRUE]
    /\ changed' = [changed EXCEPT ![p] = {"PRC"}]
    /\ events' = IF changed[p] \ {"CSC"} = {} THEN Append(queue, PortStatusChange(p)) ELSE queue
  ELSE
    /\ port_config_phase' = phase /\ addressing_port' = addressing /\ events' = queue
    /\ UNCHANGED <<enabled, changed>>

\* ResetPort and Port::Reset, which clears CSC and waits for the reset.
ResetPort(p, phase, addressing, queue) ==
  \/ /\ ~connected[p]
     /\ port_config_phase' = phase /\ addressing_port' = addressing /\ events' = queue
     /\ UNCHANGED <<enabled, changed>>
  \/ /\ connected[p] /\ addressing # 0
     /\ port_config_phase' = [phase EXCEPT ![p] = "WaitingAddressed"]
     /\ addressing_port' = addressing /\ events' = queue
     /\ UNCHANGED <<enabled, changed>>
  \/ /\ connected[p] /\ addressing = 0 /\ phase[p] \in {"NotConnected", "WaitingAddressed"}
     /\ port_config_phase' = [phase EXCEPT ![p] = "ResettingPort"]
     /\ addressing_port' = p
     /\ enabled' = [enabled EXCEPT ![p] = TRUE]
     /\ changed' = [changed EXCEPT ![p] = {"PRC"}]
     /\ events' = IF changed[p] \ {"CSC"} = {} THEN Append(queue, PortStatusChange(p)) ELSE queue

\* One turn of the loop of Initialize, with ConfigurePort.
ConfigurePort ==
  /\ boot \in Port /\ boot' = boot + 1
  /\ IF connected[boot] /\ port_config_phase[boot] = "NotConnected"
     THEN ResetPort(boot, port_config_phase, addressing_port, events)
     ELSE UNCHANGED <<port_config_phase, addressing_port, events, enabled, changed>>
  /\ UNCHANGED <<connected, hid, pulls, slots, commands, transfers, devices>>

\* EnableSlot, for a port whose reset is over.
EnableSlot(p, queue) ==
  /\ events' = queue
  /\ IF enabled[p] /\ "PRC" \in changed[p]
     THEN /\ changed' = [changed EXCEPT ![p] = @ \ {"PRC"}]
          /\ port_config_phase' = [port_config_phase EXCEPT ![p] = "EnablingSlot"]
          /\ commands' = Append(commands, [type |-> "EnableSlot"])
     ELSE UNCHANGED <<changed, port_config_phase, commands>>
  /\ UNCHANGED <<enabled, addressing_port>>

-----------------------------------------------------------------------------
(* OnEvent.  ProcessEvents runs once Initialize is over; an event that      *)
(* does not fit its port's phase is dropped.                               *)

Event == boot \notin Port /\ events # <<>>
Is(type) == Event /\ Head(events).type = type
Drop == events' = Tail(events) /\ UNCHANGED <<ports, commands, transfers, port_config_phase,
                                               addressing_port, devices>>

\* Mutant: every change of a port starts its configuration.
OnPortStatusChangeAnyPhase ==
  /\ Is("PortStatusChange")
  /\ LET p == Head(events).port
     IN IF port_config_phase[p] = "ResettingPort"
        THEN EnableSlot(p, Tail(events))
        ELSE /\ ResetPort(p, [port_config_phase EXCEPT ![p] = "NotConnected"], addressing_port, Tail(events))
             /\ UNCHANGED commands
  /\ UNCHANGED <<connected, hid, pulls, slots, transfers, boot, devices>>

OnPortStatusChange ==
  /\ Is("PortStatusChange")
  /\ LET p == Head(events).port
     IN CASE port_config_phase[p] = "NotConnected" ->
               /\ ResetPort(p, port_config_phase, addressing_port, Tail(events))
               /\ UNCHANGED <<connected, hid, pulls, commands, transfers, devices>>
          [] port_config_phase[p] = "ResettingPort" ->
               /\ EnableSlot(p, Tail(events))
               /\ UNCHANGED <<connected, hid, pulls, transfers, devices>>
          [] OTHER -> Drop
  /\ UNCHANGED <<slots, boot>>

Completed(command) == Is("CommandCompletion") /\ Head(events).command = command

\* The completion of an EnableSlotCommand: AddressDevice.
AddressDevice ==
  /\ Completed("EnableSlot")
  /\ LET s == Head(events).slot
         p == addressing_port
     IN IF p # 0 /\ port_config_phase[p] = "EnablingSlot"
        THEN /\ devices' = [devices EXCEPT ![s] = IF @ = NoDevice THEN NewDevice ELSE @]
             /\ port_config_phase' = [port_config_phase EXCEPT ![p] = "AddressingDevice"]
             /\ commands' = Append(commands, [type |-> "AddressDevice", slot |-> s, port |-> p])
             /\ events' = Tail(events)
             /\ UNCHANGED <<ports, transfers, addressing_port>>
        ELSE Drop
  /\ UNCHANGED <<slots, boot>>

\* The port that is reset next; 0 if none waits.
Waiting == { q \in Port : port_config_phase[q] = "WaitingAddressed" }

\* Mutant: nobody is let in.
InitializeDeviceAlone ==
  /\ Completed("AddressDevice")
  /\ LET s == Head(events).slot
         p == devices[s].port
     IN IF p # 0 /\ p = addressing_port /\ port_config_phase[p] = "AddressingDevice"
        THEN /\ port_config_phase' = [port_config_phase EXCEPT ![p] = "InitializingDevice"]
             /\ addressing_port' = 0 /\ events' = Tail(events)
             /\ devices' = [devices EXCEPT ![s].initialize_phase = 1]
             /\ transfers' = transfers \cup {<<s, "GetDevice">>}
             /\ UNCHANGED <<ports, commands>>
        ELSE Drop
  /\ UNCHANGED <<slots, boot>>

\* The completion of an AddressDeviceCommand: the first port that waits is
\* let in, and InitializeDevice starts the device.
InitializeDevice ==
  /\ Completed("AddressDevice")
  /\ LET s == Head(events).slot
         p == devices[s].port
         phase == [port_config_phase EXCEPT ![p] = "InitializingDevice"]
     IN IF p # 0 /\ p = addressing_port /\ port_config_phase[p] = "AddressingDevice"
        THEN /\ IF Waiting # {}
                THEN ResetPort(CHOOSE q \in Waiting : \A r \in Waiting : q <= r,
                               phase, 0, Tail(events))
                ELSE /\ port_config_phase' = phase /\ addressing_port' = 0
                     /\ events' = Tail(events) /\ UNCHANGED <<enabled, changed>>
             /\ devices' = [devices EXCEPT ![s].initialize_phase = 1]
             /\ transfers' = transfers \cup {<<s, "GetDevice">>}
             /\ UNCHANGED <<connected, hid, pulls, commands>>
        ELSE Drop
  /\ UNCHANGED <<slots, boot>>

\* The completion of a ConfigureEndpointCommand: the class driver asks for
\* the boot protocol.
CompleteConfiguration ==
  /\ Completed("ConfigureEndpoint")
  /\ LET s == Head(events).slot
         p == devices[s].port
     IN IF p # 0 /\ port_config_phase[p] = "ConfiguringEndpoints"
        THEN /\ port_config_phase' = [port_config_phase EXCEPT ![p] = "Configured"]
             /\ devices' = [devices EXCEPT ![s].hid_phase = 1]
             /\ transfers' = transfers \cup {<<s, "SetProtocol">>}
             /\ events' = Tail(events)
             /\ UNCHANGED <<ports, commands, addressing_port>>
        ELSE Drop
  /\ UNCHANGED <<slots, boot>>

-----------------------------------------------------------------------------
(* Transfers *)

\* The device's initialize_phase after an answer, and what it asks next.
Answered(d, request) ==
  CASE d.initialize_phase = 1 /\ request = "GetDevice" -> <<2, {"GetConfiguration"}>>
    [] d.initialize_phase = 2 /\ request = "GetConfiguration" /\ d.port \in hid ->
         <<3, {"SetConfiguration"}>>
    [] d.initialize_phase = 3 /\ request = "SetConfiguration" -> <<4, {}>>
    [] OTHER -> <<d.initialize_phase, {}>>

\* Whether the event is the one after which ConfigureEndpoints sends its
\* command; it gives up when the port has no speed.
Configures(d, request) ==
  /\ Answered(d, request)[1] = 4
  /\ port_config_phase[d.port] = "InitializingDevice"
  /\ connected[d.port]

\* An answer to a control transfer of Device: OnControlCompleted, and
\* ConfigureEndpoints when that was the last one.
OnControlCompleted ==
  /\ Is("Transfer") /\ Head(events).request \notin {"SetProtocol", "InterruptIn"}
  /\ LET s == Head(events).slot
         d == devices[s]
         a == Answered(d, Head(events).request)
     IN IF Head(events).success
        THEN /\ devices' = [devices EXCEPT ![s].initialize_phase = a[1]]
             /\ transfers' = transfers \cup { <<s, r>> : r \in a[2] }
             /\ events' = Tail(events)
             /\ IF Configures(d, Head(events).request)
                THEN /\ port_config_phase' = [port_config_phase EXCEPT ![d.port] = "ConfiguringEndpoints"]
                     /\ commands' = Append(commands, [type |-> "ConfigureEndpoint", slot |-> s])
                ELSE UNCHANGED <<port_config_phase, commands>>
             /\ UNCHANGED <<ports, addressing_port>>
        ELSE Drop
  /\ UNCHANGED <<slots, boot>>

\* What the class driver gets: the answer to SetProtocol starts it, and
\* every report asks for the next one.
OnDriverTransfer ==
  /\ Is("Transfer") /\ Head(events).request \in {"SetProtocol", "InterruptIn"}
  /\ LET s == Head(events).slot
     IN IF Head(events).success /\ (Head(events).request = "InterruptIn" \/ devices[s].hid_phase = 1)
        THEN /\ devices' = [devices EXCEPT ![s].hid_phase = 2]
             /\ transfers' = transfers \cup {<<s, "InterruptIn">>}
             /\ events' = Tail(events)
             /\ UNCHANGED <<ports, commands, port_config_phase, addressing_port>>
        ELSE Drop
  /\ UNCHANGED <<slots, boot>>

ProcessEvent ==
  \/ OnPortStatusChange \/ AddressDevice \/ InitializeDevice \/ CompleteConfiguration
  \/ OnControlCompleted \/ OnDriverTransfer

-----------------------------------------------------------------------------
(* The controller, its ports and the devices *)

\* A connection changes: reported unless another change is pending.
Connect(p, there) ==
  /\ connected' = [connected EXCEPT ![p] = there]
  /\ enabled' = [enabled EXCEPT ![p] = FALSE]
  /\ changed' = [changed EXCEPT ![p] = @ \cup {"CSC"}]
  /\ events' = IF changed[p] = {} THEN Append(events, PortStatusChange(p)) ELSE events
  /\ UNCHANGED <<hid, slots, commands, transfers, boot, port_config_phase, addressing_port, devices>>

Plug(p) == ~connected[p] /\ Connect(p, TRUE) /\ UNCHANGED pulls

Unplug(p) ==
  /\ connected[p] /\ pulls < MaxPulls
  /\ pulls' = pulls + 1
  /\ Connect(p, FALSE)

\* The first command is carried out.  Slots differ in nothing but their
\* numbers, so they are enabled in order.  A device that is gone gets no
\* address, and its device context stays as it was; the kernel does not look
\* at the completion code.
ExecuteCommand ==
  /\ commands # <<>>
  /\ LET c == Head(commands)
     IN \E s \in Slot :
          /\ IF c.type = "EnableSlot" THEN s \notin slots /\ 1..s - 1 \subseteq slots ELSE s = c.slot
          /\ slots' = slots \cup {s}
          /\ devices' = IF c.type = "AddressDevice" /\ enabled[c.port]
                        THEN [devices EXCEPT ![s].port = c.port] ELSE devices
          /\ events' = Append(events, [type |-> "CommandCompletion", command |-> c.type, slot |-> s])
  /\ commands' = Tail(commands)
  /\ UNCHANGED <<ports, transfers, boot, port_config_phase, addressing_port>>

\* A device answers, or fails to because it is gone.
CompleteTransfer(s, r) ==
  /\ <<s, r>> \in transfers
  /\ transfers' = transfers \ {<<s, r>>}
  /\ events' = Append(events, [type |-> "Transfer", slot |-> s, request |-> r,
                               success |-> devices[s].port \in Port /\ enabled[devices[s].port]])
  /\ UNCHANGED <<ports, slots, commands, boot, port_config_phase, addressing_port, devices>>

Request == {"GetDevice", "GetConfiguration", "SetConfiguration", "SetProtocol", "InterruptIn"}

Next ==
  \/ ConfigurePort \/ ProcessEvent \/ ExecuteCommand
  \/ \E p \in Port : Plug(p) \/ Unplug(p)
  \/ \E s \in Slot, r \in Request : CompleteTransfer(s, r)

Spec == Init /\ [][Next]_vars

\* The main task handles every event, and controller and devices answer.  A
\* keyboard reports when somebody types, or never.
Fairness ==
  /\ WF_vars(ConfigurePort) /\ WF_vars(ProcessEvent) /\ WF_vars(ExecuteCommand)
  /\ \A s \in Slot, r \in Request \ {"InterruptIn"} : WF_vars(CompleteTransfer(s, r))

LiveSpec == Spec /\ Fairness

-----------------------------------------------------------------------------
(* Properties *)

Addressing == {"ResettingPort", "EnablingSlot", "AddressingDevice"}

\* The comment on addressing_port (xhci.cpp:43): it is the port between reset
\* and address, and 0 when there is none; so there is at most one.
AddressingPort ==
  /\ addressing_port \in Port \cup {0}
  /\ \A p \in Port : port_config_phase[p] \in Addressing <=> addressing_port = p

\* The state of a port and the state of the device at it move together.
InStep ==
  \A s \in Slot : LET d == devices[s] IN d.port # 0 =>
     CASE port_config_phase[d.port] = "AddressingDevice"     -> d.initialize_phase = 0
       [] port_config_phase[d.port] = "InitializingDevice"   -> d.initialize_phase \in 1..4
       [] port_config_phase[d.port] = "ConfiguringEndpoints" -> d.initialize_phase = 4 /\ d.hid_phase = 0
       [] port_config_phase[d.port] = "Configured"           -> d.initialize_phase = 4 /\ d.hid_phase # 0
       [] OTHER -> FALSE

\* A device that stays plugged in and that there is a driver for comes to be
\* configured: kWaitingAddressed (xhci.cpp:38) waits for its turn.
EveryDeviceServed ==
  \A p \in Port :
     (p \in hid /\ <>[]connected[p]) => <>(port_config_phase[p] = "Configured")

\* So it does as long as no device is pulled out, in whatever order devices
\* are plugged in, wait for one another and answer.
ServedUnlessPulled == [](pulls = 0) => EveryDeviceServed
=============================================================================
