----------------------------- MODULE XHCIProof -----------------------------
(***************************************************************************)
(* Proofs about XHCI, for any number of ports and slots, with devices      *)
(* plugged in and pulled out at any time and any number of times; and that *)
(* Ring, for rings of any size, is the queue of commands that XHCI takes   *)
(* it for.                                                                 *)
(***************************************************************************)
EXTENDS XHCI, Ring, NaturalsInduction, WellFoundedInduction, FiniteSetTheorems, SequenceTheorems, TLAPS

CommandTRB ==
  [type : {"EnableSlot"}]
    \cup [type : {"AddressDevice"}, slot : Slot, port : Port]
    \cup [type : {"ConfigureEndpoint"}, slot : Slot]

EventTRB ==
  [type : {"PortStatusChange"}, port : Port]
    \cup [type : {"CommandCompletion"}, slot : Slot,
          command : {"EnableSlot", "AddressDevice", "ConfigureEndpoint"}]
    \cup [type : {"Transfer"}, slot : Slot, request : Request, success : BOOLEAN]

Device == [port : Port \cup {0}, initialize_phase : -1..4, hid_phase : 0..2]

TypeOK ==
  /\ connected \in [Port -> BOOLEAN] /\ enabled \in [Port -> BOOLEAN]
  /\ changed \in [Port -> SUBSET {"CSC", "PRC"}]
  /\ hid \in SUBSET Port /\ pulls \in Nat
  /\ slots \in SUBSET Slot
  /\ commands \in Seq(CommandTRB) /\ events \in Seq(EventTRB)
  /\ transfers \in SUBSET (Slot \X Request)
  /\ boot \in Nat
  /\ port_config_phase \in [Port -> ConfigPhase]
  /\ addressing_port \in Port \cup {0}
  /\ devices \in [Slot -> Device]

IInv == TypeOK /\ AddressingPort

LEMMA InitHolds == Init => IInv
<1> SUFFICES ASSUME Init PROVE IInv
  OBVIOUS
<1>1. NoDevice \in Device
  BY DEF NoDevice, Device
<1>2. TypeOK
  BY <1>1, PortAssumption DEF Init, TypeOK, ConfigPhase, Port
<1>3. AddressingPort
  BY DEF Init, AddressingPort, Addressing, Port
<1> QED
  BY <1>2, <1>3 DEF IInv

\* A port that is between reset and address, if there is one, is left alone
\* by the reset of another one.
LEMMA ResetCorrect ==
  ASSUME NEW p \in Port, NEW phase \in [Port -> ConfigPhase], NEW addressing \in Port \cup {0},
         NEW queue \in Seq(EventTRB), ResetPort(p, phase, addressing, queue), TypeOK,
         \A q \in Port : phase[q] \in Addressing <=> addressing = q, phase[p] \notin Addressing
  PROVE  /\ port_config_phase' \in [Port -> ConfigPhase] /\ events' \in Seq(EventTRB)
         /\ enabled' \in [Port -> BOOLEAN] /\ changed' \in [Port -> SUBSET {"CSC", "PRC"}]
         /\ AddressingPort'
<1>1. PortStatusChange(p) \in EventTRB
  BY DEF PortStatusChange, EventTRB
<1>2. Append(queue, PortStatusChange(p)) \in Seq(EventTRB)
  BY <1>1
<1>3. CASE ~connected[p]
  <2>1. port_config_phase' = phase /\ addressing_port' = addressing /\ events' = queue
        /\ UNCHANGED <<enabled, changed>>
    BY <1>3 DEF ResetPort
  <2> QED
    BY <2>1 DEF TypeOK, AddressingPort
<1>4. CASE connected[p] /\ addressing # 0
  <2>1. port_config_phase' = [phase EXCEPT ![p] = "WaitingAddressed"]
        /\ addressing_port' = addressing /\ events' = queue /\ UNCHANGED <<enabled, changed>>
    BY <1>4 DEF ResetPort
  <2>2. "WaitingAddressed" \in ConfigPhase /\ "WaitingAddressed" \notin Addressing
    BY DEF ConfigPhase, Addressing
  <2> QED
    BY <2>1, <2>2 DEF TypeOK, AddressingPort
<1>5. CASE connected[p] /\ addressing = 0
  <2>1. /\ port_config_phase' = [phase EXCEPT ![p] = "ResettingPort"] /\ addressing_port' = p
        /\ enabled' = [enabled EXCEPT ![p] = TRUE] /\ changed' = [changed EXCEPT ![p] = {"PRC"}]
        /\ events' \in Seq(EventTRB)
    BY <1>2, <1>5 DEF ResetPort
  <2>2. "ResettingPort" \in ConfigPhase /\ "ResettingPort" \in Addressing
    BY DEF ConfigPhase, Addressing
  <2>3. \A q \in Port : phase[q] \notin Addressing
    BY <1>5 DEF Port
  <2> QED
    BY <2>1, <2>2, <2>3 DEF TypeOK, AddressingPort
<1> QED
  BY <1>3, <1>4, <1>5

\* A set of ports that is not empty has a first one.
LEMMA LeastPort ==
  ASSUME NEW P \in SUBSET Nat, P # {}
  PROVE  \E x \in P : \A r \in P : x <= r
<1> DEFINE R == OpToRel(<, Nat)
<1>1. PICK x \in P : \A r \in P : <<r, x>> \notin R
  BY NatLessThanWellFounded, WFMin
<1>2. \A r \in P : ~(r < x)
  BY <1>1 DEF OpToRel
<1> QED
  BY <1>2

\* The event in hand and those after it.
LEMMA EventTyped ==
  ASSUME TypeOK, Event
  PROVE  Head(events) \in EventTRB /\ Tail(events) \in Seq(EventTRB)
  BY DEF TypeOK, Event

LEMMA SlotOfEvent ==
  ASSUME TypeOK, Event, Head(events).type # "PortStatusChange"
  PROVE  Head(events).slot \in Slot /\ devices[Head(events).slot] \in Device
  BY EventTyped DEF EventTRB, TypeOK

\* An event that is dropped changes nothing else.
LEMMA DropCorrect ==
  ASSUME IInv, Event, Drop, UNCHANGED <<slots, boot>>
  PROVE  IInv'
  BY EventTyped DEF IInv, TypeOK, AddressingPort, Drop, ports

-----------------------------------------------------------------------------
(* The steps of the kernel *)

LEMMA ConfigurePortCorrect ==
  ASSUME IInv, ConfigurePort
  PROVE  IInv'
<1> USE DEF IInv
<1>1. boot' \in Nat
  BY DEF TypeOK, ConfigurePort
<1>2. CASE connected[boot] /\ port_config_phase[boot] = "NotConnected"
  <2>1. ResetPort(boot, port_config_phase, addressing_port, events) /\ boot \in Port
    BY <1>2 DEF ConfigurePort
  <2>2. port_config_phase[boot] \notin Addressing
    BY <1>2 DEF Addressing
  <2>4. /\ port_config_phase \in [Port -> ConfigPhase] /\ addressing_port \in Port \cup {0}
        /\ events \in Seq(EventTRB)
    BY DEF TypeOK
  <2>5. \A q \in Port : port_config_phase[q] \in Addressing <=> addressing_port = q
    BY DEF AddressingPort
  <2>3. /\ port_config_phase' \in [Port -> ConfigPhase] /\ events' \in Seq(EventTRB)
        /\ enabled' \in [Port -> BOOLEAN] /\ changed' \in [Port -> SUBSET {"CSC", "PRC"}]
        /\ AddressingPort'
    BY <2>1, <2>2, <2>4, <2>5, ResetCorrect
  <2> QED
    BY <1>1, <2>3 DEF ConfigurePort, TypeOK, AddressingPort
<1>3. CASE ~(connected[boot] /\ port_config_phase[boot] = "NotConnected")
  BY <1>1, <1>3 DEF ConfigurePort, TypeOK, AddressingPort
<1> QED
  BY <1>2, <1>3

LEMMA OnPortStatusChangeCorrect ==
  ASSUME IInv, OnPortStatusChange
  PROVE  IInv'
<1> DEFINE p == Head(events).port
<1>1. Event /\ p \in Port
  BY EventTyped DEF OnPortStatusChange, Is, EventTRB, IInv
<1>2. UNCHANGED <<slots, boot>>
  BY DEF OnPortStatusChange
<1>3. CASE port_config_phase[p] = "NotConnected"
  <2>1. ResetPort(p, port_config_phase, addressing_port, Tail(events))
        /\ UNCHANGED <<connected, hid, pulls, commands, transfers, devices>>
    BY <1>3 DEF OnPortStatusChange
  <2>2. port_config_phase[p] \notin Addressing
    BY <1>3 DEF Addressing
  <2>4. /\ port_config_phase \in [Port -> ConfigPhase] /\ addressing_port \in Port \cup {0}
        /\ Tail(events) \in Seq(EventTRB) /\ TypeOK
    BY <1>1, EventTyped DEF TypeOK, IInv
  <2>5. \A q \in Port : port_config_phase[q] \in Addressing <=> addressing_port = q
    BY DEF AddressingPort, IInv
  <2> HIDE DEF p
  <2>3. /\ port_config_phase' \in [Port -> ConfigPhase] /\ events' \in Seq(EventTRB)
        /\ enabled' \in [Port -> BOOLEAN] /\ changed' \in [Port -> SUBSET {"CSC", "PRC"}]
        /\ AddressingPort'
    BY <1>1, <2>1, <2>2, <2>4, <2>5, ResetCorrect
  <2> QED
    BY <1>2, <2>1, <2>3 DEF TypeOK, AddressingPort, IInv
<1>4. CASE port_config_phase[p] = "ResettingPort"
  <2>1. EnableSlot(p, Tail(events)) /\ UNCHANGED <<connected, hid, pulls, transfers, devices>>
    BY <1>4 DEF OnPortStatusChange
  <2>2. /\ "ResettingPort" \in Addressing /\ "EnablingSlot" \in Addressing
        /\ "EnablingSlot" \in ConfigPhase
    BY DEF Addressing, ConfigPhase
  <2>3. [type |-> "EnableSlot"] \in CommandTRB
    BY DEF CommandTRB
  <2>4. Append(commands, [type |-> "EnableSlot"]) \in Seq(CommandTRB)
    BY <2>3 DEF IInv, TypeOK
  <2>5. TypeOK'
    <3>1. Tail(events) \in Seq(EventTRB)
      BY <1>1, EventTyped DEF IInv
    <3>2. CASE enabled[p] /\ "PRC" \in changed[p]
      <4>1. changed' \in [Port -> SUBSET {"CSC", "PRC"}]
        <5>1. changed[p] \ {"PRC"} \in SUBSET {"CSC", "PRC"}
          BY <1>1 DEF IInv, TypeOK
        <5>2. changed' = [changed EXCEPT ![p] = changed[p] \ {"PRC"}]
          BY <2>1, <3>2 DEF EnableSlot
        <5> QED
          BY <1>1, <5>1, <5>2 DEF IInv, TypeOK
      <4>2. /\ port_config_phase' \in [Port -> ConfigPhase]
            /\ commands' \in Seq(CommandTRB)
        BY <1>1, <2>1, <2>2, <2>4, <3>2 DEF EnableSlot, IInv, TypeOK
      <4> QED
        BY <1>2, <2>1, <3>1, <4>1, <4>2 DEF EnableSlot, IInv, TypeOK
    <3>3. CASE ~(enabled[p] /\ "PRC" \in changed[p])
      BY <1>2, <2>1, <3>1, <3>3 DEF EnableSlot, IInv, TypeOK
    <3> QED
      BY <3>2, <3>3
  <2>6. AddressingPort'
    BY <1>1, <1>4, <2>1, <2>2 DEF EnableSlot, IInv, TypeOK, AddressingPort
  <2> QED
    BY <2>5, <2>6 DEF IInv
<1>5. CASE port_config_phase[p] \notin {"NotConnected", "ResettingPort"}
  BY <1>1, <1>2, <1>5, DropCorrect DEF OnPortStatusChange
<1> QED
  BY <1>3, <1>4, <1>5

LEMMA AddressDeviceCorrect ==
  ASSUME IInv, AddressDevice
  PROVE  IInv'
<1> DEFINE s == Head(events).slot
           p == addressing_port
<1>1. Event /\ UNCHANGED <<slots, boot>> /\ s \in Slot /\ devices[s] \in Device
  BY SlotOfEvent DEF AddressDevice, Completed, Is, IInv
<1>2. CASE p # 0 /\ port_config_phase[p] = "EnablingSlot"
  <2>1. /\ devices' = [devices EXCEPT ![s] = IF devices[s] = NoDevice THEN NewDevice ELSE devices[s]]
        /\ port_config_phase' = [port_config_phase EXCEPT ![p] = "AddressingDevice"]
        /\ commands' = Append(commands, [type |-> "AddressDevice", slot |-> s, port |-> p])
        /\ events' = Tail(events)
        /\ UNCHANGED <<ports, transfers, addressing_port>>
    BY <1>2 DEF AddressDevice
  <2>2. p \in Port
    BY <1>2 DEF IInv, TypeOK
  <2>3. /\ "AddressingDevice" \in Addressing /\ "AddressingDevice" \in ConfigPhase
    BY DEF Addressing, ConfigPhase
  <2>4. commands' \in Seq(CommandTRB)
    <3>1. [type |-> "AddressDevice", slot |-> s, port |-> p] \in CommandTRB
      BY <1>1, <2>2 DEF CommandTRB
    <3> QED
      BY <2>1, <3>1 DEF IInv, TypeOK
  <2>5. devices' \in [Slot -> Device]
    <3>1. NewDevice \in Device
      BY DEF NewDevice, Device
    <3> QED
      BY <1>1, <2>1, <3>1 DEF IInv, TypeOK
  <2>6. port_config_phase' \in [Port -> ConfigPhase] /\ AddressingPort'
    BY <2>1, <2>2, <2>3 DEF IInv, TypeOK, AddressingPort
  <2>7. events' \in Seq(EventTRB)
    BY <1>1, <2>1, EventTyped DEF IInv
  <2> QED
    BY <1>1, <2>1, <2>4, <2>5, <2>6, <2>7 DEF IInv, TypeOK, ports
<1>3. CASE ~(p # 0 /\ port_config_phase[p] = "EnablingSlot")
  BY <1>1, <1>3, DropCorrect DEF AddressDevice
<1> QED
  BY <1>2, <1>3

\* The port that has its address is let go before the next one is let in.
LEMMA InitializeDeviceCorrect ==
  ASSUME IInv, InitializeDevice
  PROVE  IInv'
<1> DEFINE s == Head(events).slot
           p == devices[s].port
           phase == [port_config_phase EXCEPT ![p] = "InitializingDevice"]
           q == CHOOSE x \in Waiting : \A r \in Waiting : x <= r
<1>1. Event /\ UNCHANGED <<slots, boot>> /\ s \in Slot /\ devices[s] \in Device
  BY SlotOfEvent DEF InitializeDevice, Completed, Is, IInv
<1>2. CASE p # 0 /\ p = addressing_port /\ port_config_phase[p] = "AddressingDevice"
  <2>1. /\ IF Waiting # {}
           THEN ResetPort(q, phase, 0, Tail(events))
           ELSE /\ port_config_phase' = phase /\ addressing_port' = 0
                /\ events' = Tail(events) /\ UNCHANGED <<enabled, changed>>
        /\ devices' = [devices EXCEPT ![s].initialize_phase = 1]
        /\ transfers' = transfers \cup {<<s, "GetDevice">>}
        /\ UNCHANGED <<connected, hid, pulls, commands>>
    BY <1>2 DEF InitializeDevice
  <2>2. devices' \in [Slot -> Device] /\ transfers' \in SUBSET (Slot \X Request)
    <3>1. [devices[s] EXCEPT !.initialize_phase = 1] \in Device
      BY <1>1 DEF Device
    <3>2. devices' = [devices EXCEPT ![s] = [devices[s] EXCEPT !.initialize_phase = 1]]
      BY <2>1
    <3>3. "GetDevice" \in Request
      BY DEF Request
    <3> QED
      BY <1>1, <2>1, <3>1, <3>2, <3>3 DEF IInv, TypeOK
  <2>3. /\ p \in Port /\ phase \in [Port -> ConfigPhase]
        /\ \A x \in Port : phase[x] \notin Addressing
    BY <1>2 DEF IInv, TypeOK, AddressingPort, Addressing, ConfigPhase
  <2>4. /\ port_config_phase' \in [Port -> ConfigPhase] /\ events' \in Seq(EventTRB)
        /\ enabled' \in [Port -> BOOLEAN] /\ changed' \in [Port -> SUBSET {"CSC", "PRC"}]
        /\ AddressingPort'
    <3> HIDE DEF phase
    <3>1. Tail(events) \in Seq(EventTRB) /\ 0 \notin Port
      BY <1>1, EventTyped DEF IInv, Port
    <3>2. CASE Waiting # {}
      <4>1. q \in Port
        <5>1. Waiting \subseteq Nat /\ Waiting \subseteq Port
          BY DEF Waiting, Port
        <5>2. \E x \in Waiting : \A r \in Waiting : x <= r
          BY <3>2, <5>1, LeastPort
        <5> QED
          BY <5>1, <5>2
      <4>2. ResetPort(q, phase, 0, Tail(events))
        BY <2>1, <3>2
      <4>3. \A x \in Port : phase[x] \in Addressing <=> 0 = x
        BY <2>3, <3>1
      <4> HIDE DEF q
      <4> QED
        BY <2>3, <3>1, <4>1, <4>2, <4>3, ResetCorrect DEF IInv
    <3>3. CASE Waiting = {}
      BY <2>1, <2>3, <3>1, <3>3 DEF IInv, TypeOK, AddressingPort
    <3> QED
      BY <3>2, <3>3
  <2> QED
    BY <1>1, <2>1, <2>2, <2>4 DEF IInv, TypeOK, AddressingPort
<1>3. CASE ~(p # 0 /\ p = addressing_port /\ port_config_phase[p] = "AddressingDevice")
  BY <1>1, <1>3, DropCorrect DEF InitializeDevice
<1> QED
  BY <1>2, <1>3

LEMMA CompleteConfigurationCorrect ==
  ASSUME IInv, CompleteConfiguration
  PROVE  IInv'
<1> DEFINE s == Head(events).slot
           p == devices[s].port
<1>1. Event /\ UNCHANGED <<slots, boot>> /\ s \in Slot /\ devices[s] \in Device
  BY SlotOfEvent DEF CompleteConfiguration, Completed, Is, IInv
<1>2. CASE p # 0 /\ port_config_phase[p] = "ConfiguringEndpoints"
  <2>1. /\ port_config_phase' = [port_config_phase EXCEPT ![p] = "Configured"]
        /\ devices' = [devices EXCEPT ![s].hid_phase = 1]
        /\ transfers' = transfers \cup {<<s, "SetProtocol">>}
        /\ events' = Tail(events) /\ UNCHANGED <<ports, commands, addressing_port>>
    BY <1>2 DEF CompleteConfiguration
  <2>2. devices' \in [Slot -> Device] /\ transfers' \in SUBSET (Slot \X Request)
    <3>1. [devices[s] EXCEPT !.hid_phase = 1] \in Device
      BY <1>1 DEF Device
    <3>2. devices' = [devices EXCEPT ![s] = [devices[s] EXCEPT !.hid_phase = 1]]
      BY <2>1
    <3>3. "SetProtocol" \in Request
      BY DEF Request
    <3> QED
      BY <1>1, <2>1, <3>1, <3>2, <3>3 DEF IInv, TypeOK
  <2>3. port_config_phase' \in [Port -> ConfigPhase] /\ AddressingPort'
    BY <1>2, <2>1 DEF IInv, TypeOK, AddressingPort, Addressing, ConfigPhase
  <2>4. events' \in Seq(EventTRB)
    BY <1>1, <2>1, EventTyped DEF IInv
  <2> QED
    BY <1>1, <2>1, <2>2, <2>3, <2>4 DEF IInv, TypeOK, ports
<1>3. CASE ~(p # 0 /\ port_config_phase[p] = "ConfiguringEndpoints")
  BY <1>1, <1>3, DropCorrect DEF CompleteConfiguration
<1> QED
  BY <1>2, <1>3

LEMMA OnControlCompletedCorrect ==
  ASSUME IInv, OnControlCompleted
  PROVE  IInv'
<1> DEFINE s == Head(events).slot
           d == devices[s]
           a == Answered(d, Head(events).request)
<1>1. /\ Event /\ UNCHANGED <<slots, boot>> /\ s \in Slot /\ d \in Device
      /\ Tail(events) \in Seq(EventTRB)
  BY SlotOfEvent, EventTyped DEF OnControlCompleted, Is, IInv
<1>2. CASE Head(events).success
  <2>1. /\ devices' = [devices EXCEPT ![s] = [d EXCEPT !.initialize_phase = a[1]]]
        /\ transfers' = transfers \cup { <<s, r>> : r \in a[2] }
        /\ events' = Tail(events)
        /\ IF Configures(d, Head(events).request)
           THEN /\ port_config_phase' = [port_config_phase EXCEPT ![d.port] = "ConfiguringEndpoints"]
                /\ commands' = Append(commands, [type |-> "ConfigureEndpoint", slot |-> s])
           ELSE UNCHANGED <<port_config_phase, commands>>
        /\ UNCHANGED <<ports, addressing_port>>
    BY <1>2 DEF OnControlCompleted
  <2>2. a[1] \in -1..4 /\ a[2] \in SUBSET Request
    BY <1>1 DEF Answered, Device, Request
  <2>3. devices' \in [Slot -> Device] /\ transfers' \in SUBSET (Slot \X Request)
    <3> HIDE DEF a
    <3>1. [d EXCEPT !.initialize_phase = a[1]] \in Device
      BY <1>1, <2>2 DEF Device
    <3> QED
      BY <1>1, <2>1, <2>2, <3>1 DEF IInv, TypeOK
  <2>4. port_config_phase' \in [Port -> ConfigPhase] /\ AddressingPort'
    <3>1. CASE Configures(d, Head(events).request)
      BY <2>1, <3>1 DEF Configures, IInv, TypeOK, AddressingPort, Addressing, ConfigPhase
    <3>2. CASE ~Configures(d, Head(events).request)
      BY <2>1, <3>2 DEF IInv, TypeOK, AddressingPort
    <3> QED
      BY <3>1, <3>2
  <2>5. commands' \in Seq(CommandTRB)
    <3>1. [type |-> "ConfigureEndpoint", slot |-> s] \in CommandTRB
      BY <1>1 DEF CommandTRB
    <3>2. commands \in Seq(CommandTRB)
      BY DEF IInv, TypeOK
    <3>3. Append(commands, [type |-> "ConfigureEndpoint", slot |-> s]) \in Seq(CommandTRB)
      BY <3>1, <3>2
    <3> HIDE DEF d, a
    <3> QED
      BY <2>1, <3>2, <3>3
  <2> QED
    BY <1>1, <2>1, <2>3, <2>4, <2>5 DEF IInv, TypeOK, ports
<1>3. CASE ~Head(events).success
  BY <1>1, <1>3, DropCorrect DEF OnControlCompleted
<1> QED
  BY <1>2, <1>3

LEMMA OnDriverTransferCorrect ==
  ASSUME IInv, OnDriverTransfer
  PROVE  IInv'
<1> DEFINE s == Head(events).slot
           started == Head(events).request = "InterruptIn" \/ devices[s].hid_phase = 1
<1>1. /\ Event /\ UNCHANGED <<slots, boot>> /\ s \in Slot /\ devices[s] \in Device
      /\ Tail(events) \in Seq(EventTRB)
  BY SlotOfEvent, EventTyped DEF OnDriverTransfer, Is, IInv
<1>2. CASE Head(events).success /\ started
  <2>1. /\ devices' = [devices EXCEPT ![s] = [devices[s] EXCEPT !.hid_phase = 2]]
        /\ transfers' = transfers \cup {<<s, "InterruptIn">>}
        /\ events' = Tail(events)
        /\ UNCHANGED <<ports, commands, port_config_phase, addressing_port>>
    BY <1>2 DEF OnDriverTransfer
  <2>2. [devices[s] EXCEPT !.hid_phase = 2] \in Device /\ "InterruptIn" \in Request
    BY <1>1 DEF Device, Request
  <2>3. devices' \in [Slot -> Device] /\ transfers' \in SUBSET (Slot \X Request)
    BY <1>1, <2>1, <2>2 DEF IInv, TypeOK
  <2> QED
    BY <1>1, <2>1, <2>3 DEF IInv, TypeOK, AddressingPort, ports
<1>3. CASE ~(Head(events).success /\ started)
  BY <1>1, <1>3, DropCorrect DEF OnDriverTransfer
<1> QED
  BY <1>2, <1>3

-----------------------------------------------------------------------------
(* The controller and the devices, and the theorems *)

LEMMA ConnectCorrect ==
  ASSUME IInv, NEW p \in Port, NEW there \in BOOLEAN, Connect(p, there), pulls' \in Nat
  PROVE  IInv'
<1>1. connected' \in [Port -> BOOLEAN] /\ enabled' \in [Port -> BOOLEAN]
  BY DEF Connect, IInv, TypeOK
<1>2. changed' \in [Port -> SUBSET {"CSC", "PRC"}]
  <2>1. changed[p] \cup {"CSC"} \in SUBSET {"CSC", "PRC"}
    BY DEF IInv, TypeOK
  <2>2. changed' = [changed EXCEPT ![p] = changed[p] \cup {"CSC"}]
    BY DEF Connect
  <2> QED
    BY <2>1, <2>2 DEF IInv, TypeOK
<1>3. events' \in Seq(EventTRB)
  <2>1. PortStatusChange(p) \in EventTRB
    BY DEF PortStatusChange, EventTRB
  <2> QED
    BY <2>1 DEF Connect, IInv, TypeOK
<1> QED
  BY <1>1, <1>2, <1>3 DEF Connect, IInv, TypeOK, AddressingPort

LEMMA ExecuteCommandCorrect ==
  ASSUME IInv, ExecuteCommand
  PROVE  IInv'
<1> DEFINE c == Head(commands)
<1>1. c \in CommandTRB /\ Tail(commands) \in Seq(CommandTRB)
  BY DEF ExecuteCommand, IInv, TypeOK
<1>2. PICK s \in Slot :
        /\ slots' = slots \cup {s}
        /\ devices' = IF c.type = "AddressDevice" /\ enabled[c.port]
                      THEN [devices EXCEPT ![s] = [devices[s] EXCEPT !.port = c.port]] ELSE devices
        /\ events' = Append(events, [type |-> "CommandCompletion", command |-> c.type, slot |-> s])
  BY DEF ExecuteCommand
<1>3. devices' \in [Slot -> Device]
  <2>1. CASE c.type = "AddressDevice" /\ enabled[c.port]
    <3>1. c.port \in Port
      BY <1>1, <2>1 DEF CommandTRB
    <3>2. [devices[s] EXCEPT !.port = c.port] \in Device
      BY <3>1 DEF IInv, TypeOK, Device
    <3> QED
      BY <1>2, <2>1, <3>2 DEF IInv, TypeOK
  <2>2. CASE ~(c.type = "AddressDevice" /\ enabled[c.port])
    BY <1>2, <2>2 DEF IInv, TypeOK
  <2> QED
    BY <2>1, <2>2
<1>4. events' \in Seq(EventTRB)
  <2>1. [type |-> "CommandCompletion", command |-> c.type, slot |-> s] \in EventTRB
    BY <1>1 DEF CommandTRB, EventTRB
  <2> QED
    BY <1>2, <2>1 DEF IInv, TypeOK
<1> QED
  BY <1>1, <1>2, <1>3, <1>4 DEF ExecuteCommand, IInv, TypeOK, AddressingPort, ports

LEMMA CompleteTransferCorrect ==
  ASSUME IInv, NEW s \in Slot, NEW r \in Request, CompleteTransfer(s, r)
  PROVE  IInv'
<1> DEFINE success == devices[s].port \in Port /\ enabled[devices[s].port]
<1>1. success \in BOOLEAN
  BY DEF IInv, TypeOK
<1>2. [type |-> "Transfer", slot |-> s, request |-> r, success |-> success] \in EventTRB
  BY <1>1 DEF EventTRB
<1>3. events' \in Seq(EventTRB) /\ transfers' \in SUBSET (Slot \X Request)
  BY <1>2 DEF CompleteTransfer, IInv, TypeOK
<1> QED
  BY <1>3 DEF CompleteTransfer, IInv, TypeOK, AddressingPort, ports

LEMMA StepHolds == IInv /\ [Next]_vars => IInv'
<1> SUFFICES ASSUME IInv, [Next]_vars PROVE IInv'
  OBVIOUS
<1>1. CASE ConfigurePort \/ ProcessEvent \/ ExecuteCommand
  BY <1>1, ConfigurePortCorrect, OnPortStatusChangeCorrect, AddressDeviceCorrect,
     InitializeDeviceCorrect, CompleteConfigurationCorrect, OnControlCompletedCorrect,
     OnDriverTransferCorrect, ExecuteCommandCorrect DEF ProcessEvent
<1>2. ASSUME NEW p \in Port, Plug(p) \/ Unplug(p)
      PROVE  IInv'
  <2>1. PICK there \in BOOLEAN : Connect(p, there)
    BY <1>2 DEF Plug, Unplug
  <2>2. pulls' \in Nat
    <3>1. pulls \in Nat
      BY DEF IInv, TypeOK
    <3>2. pulls' = pulls \/ pulls' = pulls + 1
      BY <1>2, Zenon DEF Plug, Unplug
    <3> QED
      BY <3>1, <3>2
  <2> QED
    BY <2>1, <2>2, ConnectCorrect
<1>3. ASSUME NEW s \in Slot, NEW r \in Request, CompleteTransfer(s, r)
      PROVE  IInv'
  BY <1>3, CompleteTransferCorrect
<1>4. CASE UNCHANGED vars
  BY <1>4 DEF vars, ports, IInv, TypeOK, AddressingPort
<1> QED
  BY <1>1, <1>2, <1>3, <1>4 DEF Next

\* Ports, slots, commands, events and devices are what the code takes them
\* for: no index into port_config_phase or devices_ is out of its range.
THEOREM TypeCorrect == Spec => []TypeOK
<1>1. IInv => TypeOK
  BY DEF IInv
<1> QED
  BY InitHolds, StepHolds, <1>1, PTL DEF Spec

\* addressing_port is the one port between reset and address, or 0, whatever
\* is plugged in and pulled out and whenever.
THEOREM AddressingPortCorrect == Spec => []AddressingPort
<1>1. IInv => AddressingPort
  BY DEF IInv
<1> QED
  BY InitHolds, StepHolds, <1>1, PTL DEF Spec

-----------------------------------------------------------------------------
(* Ports and their devices move together.  A slot is asked for, enabled and  *)
(* addressed for the one port whose turn it is, by one request at a time, so *)
(* that no two devices come to be at one port.                               *)

IsCompletion(e, command) == e.type = "CommandCompletion" /\ e.command = command
IsReport(e) == e.type = "Transfer" /\ e.request = "InterruptIn"

\* Where in the command ring and the event ring the requests are that belong
\* to the port whose turn it is.
Asked == { i \in DOMAIN commands : commands[i].type # "ConfigureEndpoint" }
Enabled == { i \in DOMAIN events : IsCompletion(events[i], "EnableSlot") }

Enabling == addressing_port # 0 /\ port_config_phase[addressing_port] = "EnablingSlot"

OneRequest ==
  /\ \A i, j \in Asked : i = j
  /\ \A i, j \in Enabled : i = j
  /\ Asked = {} \/ Enabled = {}

\* A command that asks for an address is for a device that has none yet, at a
\* port that has no device yet.
Requests ==
  /\ \A i \in Asked :
       LET c == commands[i]
       IN IF c.type = "EnableSlot" THEN Enabling
          ELSE /\ devices[c.slot] = NewDevice /\ port_config_phase[c.port] = "AddressingDevice"
               /\ \A s \in Slot : devices[s].port # c.port
  /\ \A i \in Enabled : /\ Enabling /\ devices[events[i].slot] = NoDevice
                        /\ events[i].slot \in slots

\* A device without a port was not spoken to; a port has one device; a class
\* driver starts when its port is configured.
Devices ==
  /\ \A s \in Slot \ slots : devices[s] = NoDevice
  /\ \A s \in Slot : devices[s].port = 0 => devices[s].initialize_phase <= 0 /\ devices[s].hid_phase = 0
  /\ \A s, r \in Slot : devices[s].port = devices[r].port /\ devices[s].port # 0 => s = r
  /\ \A s \in Slot : devices[s].port # 0 /\ port_config_phase[devices[s].port] # "Configured"
                       => devices[s].hid_phase = 0

\* Only a class driver that was started waits for reports.
Reports ==
  /\ \A s \in Slot : <<s, "InterruptIn">> \in transfers => devices[s].hid_phase # 0
  /\ \A i \in DOMAIN events : IsReport(events[i]) => devices[events[i].slot].hid_phase # 0

SInv == OneRequest /\ Requests /\ Devices /\ Reports /\ InStep

-----------------------------------------------------------------------------
(* What a step that makes no request keeps *)

NoNewCommands == \A i \in Asked' : i \in Asked /\ commands'[i] = commands[i]

\* The events of interest are old ones, k places further on before.
NoNewEvents(k) ==
  \A i \in DOMAIN events' :
     IsCompletion(events'[i], "EnableSlot") \/ IsReport(events'[i])
       => i + k \in DOMAIN events /\ events'[i] = events[i + k]

\* The event in hand is taken, and at most a change of a port is added.
LEMMA EventTaken ==
  ASSUME TypeOK, Event, NEW p \in Port,
         events' = Tail(events) \/ events' = Append(Tail(events), PortStatusChange(p))
  PROVE  NoNewEvents(1)
<1>1. /\ events \in Seq(EventTRB) /\ events # <<>> /\ Tail(events) \in Seq(EventTRB)
      /\ Len(Tail(events)) = Len(events) - 1
      /\ \A i \in 1..Len(Tail(events)) : Tail(events)[i] = events[i + 1]
  BY DEF TypeOK, Event
<1>2. CASE events' = Tail(events)
  BY <1>1, <1>2 DEF NoNewEvents
<1>3. CASE events' = Append(Tail(events), PortStatusChange(p))
  <2> DEFINE q == Tail(events)
  <2>1. /\ q \in Seq(EventTRB) /\ Len(q) = Len(events) - 1 /\ events' = Append(q, PortStatusChange(p))
        /\ \A i \in 1..Len(q) : q[i] = events[i + 1]
    BY <1>1, <1>3
  <2>2. ~IsCompletion(PortStatusChange(p), "EnableSlot") /\ ~IsReport(PortStatusChange(p))
    BY DEF IsCompletion, IsReport, PortStatusChange
  <2> HIDE DEF q
  <2>3. \A i \in DOMAIN events' : \/ i \in 1..Len(q) /\ events'[i] = q[i]
                                  \/ events'[i] = PortStatusChange(p)
    BY <2>1
  <2>4. ASSUME NEW i \in 1..Len(q) PROVE i + 1 \in DOMAIN events /\ q[i] = events[i + 1]
    <3>1. DOMAIN events = 1..Len(events) /\ Len(events) \in Nat
      BY <1>1
    <3>2. Len(q) = Len(events) - 1 /\ q[i] = events[i + 1]
      BY <2>1
    <3> QED
      BY <3>1, <3>2
  <2>5. ASSUME NEW i \in DOMAIN events',
               IsCompletion(events'[i], "EnableSlot") \/ IsReport(events'[i])
        PROVE  i + 1 \in DOMAIN events /\ events'[i] = events[i + 1]
    <3>1. events'[i] # PortStatusChange(p)
      BY <2>2, <2>5
    <3> QED
      BY <2>3, <2>4, <3>1
  <2> QED
    BY <2>5 DEF NoNewEvents
<1> QED
  BY <1>2, <1>3

\* The event in hand is taken and none is added.
LEMMA EventGone ==
  ASSUME TypeOK, Event, events' = Tail(events)
  PROVE  NoNewEvents(1)
<1>1. 1 \in Port
  BY PortAssumption DEF Port
<1> QED
  BY <1>1, EventTaken

\* An event that is not among those of interest is added.
LEMMA EventAdded ==
  ASSUME TypeOK, NEW e, events' = Append(events, e) \/ events' = events,
         ~IsCompletion(e, "EnableSlot"), ~IsReport(e)
  PROVE  NoNewEvents(0)
<1>1. events \in Seq(EventTRB)
  BY DEF TypeOK
<1>2. \A i \in DOMAIN events' : \/ i \in DOMAIN events /\ events'[i] = events[i]
                             \/ events'[i] = e
  BY <1>1
<1> QED
  BY <1>1, <1>2 DEF NoNewEvents

\* No command is added, or one that configures endpoints.
LEMMA SameCommands ==
  ASSUME TypeOK,
         commands' = commands
           \/ \E s : commands' = Append(commands, [type |-> "ConfigureEndpoint", slot |-> s])
  PROVE  NoNewCommands
<1>1. commands \in Seq(CommandTRB)
  BY DEF TypeOK
<1>2. CASE commands' = commands
  BY <1>2 DEF NoNewCommands, Asked
<1>3. ASSUME NEW s, commands' = Append(commands, [type |-> "ConfigureEndpoint", slot |-> s])
      PROVE  NoNewCommands
  <2>1. \A i \in DOMAIN commands' : \/ i \in DOMAIN commands /\ commands'[i] = commands[i]
                                    \/ commands'[i].type = "ConfigureEndpoint"
    BY <1>1, <1>3
  <2> QED
    BY <2>1 DEF NoNewCommands, Asked
<1> QED
  BY <1>2, <1>3

\* Requests stay as they are while the port whose turn it is stays where it
\* is, and devices that have no port.
LEMMA RequestsKept ==
  ASSUME IInv, SInv, NoNewCommands, NEW k \in {0, 1}, NoNewEvents(k), slots \subseteq slots',
         events' \in Seq(EventTRB), devices' \in [Slot -> Device],
         Enabling => Enabling',
         \A p \in Port : port_config_phase[p] = "AddressingDevice"
                         /\ (\A s \in Slot : devices[s].port # p)
                            => port_config_phase'[p] = "AddressingDevice",
         \A s \in Slot : devices[s].port = 0 => devices'[s] = devices[s],
         \A s \in Slot : devices'[s].port = devices[s].port
  PROVE  OneRequest' /\ Requests'
<1>1. events \in Seq(EventTRB) /\ commands \in Seq(CommandTRB) /\ devices \in [Slot -> Device]
  BY DEF IInv, TypeOK
<1>2. \A i \in Enabled' : i \in Int /\ i + k \in Enabled /\ events'[i] = events[i + k]
  BY <1>1 DEF NoNewEvents, Enabled
<1>3. \A i \in Asked' : i \in Asked /\ commands'[i] = commands[i]
  BY DEF NoNewCommands
<1>4. OneRequest'
  <2>1. \A i, j \in Enabled' : i = j
    BY <1>2 DEF SInv, OneRequest
  <2> QED
    BY <1>2, <1>3, <2>1 DEF SInv, OneRequest
<1>5. ASSUME NEW i \in Asked'
      PROVE  LET c == commands'[i]
             IN IF c.type = "EnableSlot" THEN Enabling'
                ELSE /\ devices'[c.slot] = NewDevice /\ port_config_phase'[c.port] = "AddressingDevice"
                     /\ \A s \in Slot : devices'[s].port # c.port
  <2>1. i \in Asked /\ commands'[i] = commands[i] /\ commands[i] \in CommandTRB
        /\ commands[i].type # "ConfigureEndpoint"
    BY <1>1, <1>3 DEF Asked
  <2>2. CASE commands[i].type = "EnableSlot"
    BY <2>1, <2>2 DEF SInv, Requests
  <2>3. CASE commands[i].type # "EnableSlot"
    <3> DEFINE c == commands[i]
    <3>1. c.slot \in Slot /\ c.port \in Port
      BY <2>1, <2>3 DEF CommandTRB
    <3>2. /\ devices[c.slot] = NewDevice /\ port_config_phase[c.port] = "AddressingDevice"
          /\ \A s \in Slot : devices[s].port # c.port
      BY <2>1, <2>3 DEF SInv, Requests
    <3>3. NewDevice.port = 0
      BY DEF NewDevice
    <3> HIDE DEF c
    <3>4. /\ devices'[c.slot] = NewDevice /\ port_config_phase'[c.port] = "AddressingDevice"
          /\ \A s \in Slot : devices'[s].port # c.port
      BY <3>1, <3>2, <3>3
    <3> QED
      BY <2>1, <2>3, <3>4 DEF c
  <2> QED
    BY <2>2, <2>3
<1>6. ASSUME NEW i \in Enabled'
      PROVE  /\ Enabling' /\ devices'[events'[i].slot] = NoDevice
             /\ events'[i].slot \in slots'
  <2>1. i + k \in Enabled /\ events'[i] = events[i + k]
    BY <1>2
  <2>2. events[i + k] \in EventTRB /\ IsCompletion(events[i + k], "EnableSlot")
    BY <1>1, <2>1 DEF Enabled
  <2>3. events[i + k].slot \in Slot
    BY <2>2 DEF EventTRB, IsCompletion
  <2>4. NoDevice.port = 0
    BY DEF NoDevice
  <2> QED
    BY <2>1, <2>3, <2>4 DEF SInv, Requests
<1> QED
  BY <1>4, <1>5, <1>6 DEF Requests

\* Reports are asked for only by class drivers that have started.
LEMMA ReportsKept ==
  ASSUME IInv, SInv, NEW k \in {0, 1}, NoNewEvents(k),
         \A s \in Slot : devices[s].hid_phase # 0 => devices'[s].hid_phase # 0,
         \A s \in Slot : <<s, "InterruptIn">> \in transfers'
                           => <<s, "InterruptIn">> \in transfers \/ devices'[s].hid_phase # 0
  PROVE  Reports'
<1>1. events \in Seq(EventTRB)
  BY DEF IInv, TypeOK
<1>2. \A s \in Slot : <<s, "InterruptIn">> \in transfers' => devices'[s].hid_phase # 0
  BY DEF SInv, Reports
<1>3. ASSUME NEW i \in DOMAIN events', IsReport(events'[i])
      PROVE  devices'[events'[i].slot].hid_phase # 0
  <2>1. i + k \in DOMAIN events /\ events'[i] = events[i + k]
    BY <1>3 DEF NoNewEvents
  <2>2. events[i + k] \in EventTRB /\ IsReport(events[i + k])
    BY <1>1, <1>3, <2>1
  <2>3. events[i + k].slot \in Slot /\ devices[events[i + k].slot].hid_phase # 0
    BY <2>1, <2>2 DEF EventTRB, IsReport, SInv, Reports
  <2> QED
    BY <2>1, <2>3
<1> QED
  BY <1>2, <1>3 DEF Reports

\* A device at its port, and the class driver of the device.
AtItsPort(d, phase) ==
  /\ CASE phase = "AddressingDevice"     -> d.initialize_phase = 0
       [] phase = "InitializingDevice"   -> d.initialize_phase \in 1..4
       [] phase = "ConfiguringEndpoints" -> d.initialize_phase = 4 /\ d.hid_phase = 0
       [] phase = "Configured"           -> d.initialize_phase = 4 /\ d.hid_phase # 0
       [] OTHER -> FALSE
  /\ phase # "Configured" => d.hid_phase = 0

\* What the invariant says of one device.
LEMMA InStepFacts ==
  ASSUME SInv, NEW s \in Slot, devices[s].port # 0
  PROVE  AtItsPort(devices[s], port_config_phase[devices[s].port])
  BY DEF SInv, InStep, Devices, AtItsPort

\* Ports of devices stay; a device that has none stays as it is.
LEMMA DevicesKept ==
  ASSUME IInv, SInv, slots \subseteq slots',
         \A s \in Slot : devices[s].port = 0 => devices'[s] = devices[s],
         \A s \in Slot : devices'[s].port = devices[s].port,
         \A s \in Slot : devices[s].port # 0
                           => AtItsPort(devices'[s], port_config_phase'[devices[s].port])
  PROVE  Devices' /\ InStep'
<1>1. \A s \in Slot \ slots' : devices'[s] = NoDevice
  BY DEF SInv, Devices, NoDevice
<1>2. \A s \in Slot : devices'[s].port = 0
                        => devices'[s].initialize_phase <= 0 /\ devices'[s].hid_phase = 0
  BY DEF SInv, Devices
<1>3. \A s, r \in Slot : devices'[s].port = devices'[r].port /\ devices'[s].port # 0 => s = r
  BY DEF SInv, Devices
<1>4. ASSUME NEW s \in Slot, devices'[s].port # 0
      PROVE  AtItsPort(devices'[s], port_config_phase'[devices'[s].port])
  BY <1>4
<1>5. Devices'
  BY <1>1, <1>2, <1>3, <1>4 DEF Devices, AtItsPort
<1>6. InStep'
  BY <1>4 DEF InStep, AtItsPort
<1> QED
  BY <1>5, <1>6

\* The phase of a port that has no device may change.
LEMMA PhaseMoved ==
  ASSUME IInv, SInv, UNCHANGED <<slots, devices, transfers>>, NEW k \in {0, 1}, NoNewEvents(k),
         NEW p \in Port,
         port_config_phase[p] \in {"NotConnected", "WaitingAddressed", "ResettingPort", "EnablingSlot"},
         \A q \in Port : q # p => port_config_phase'[q] = port_config_phase[q]
  PROVE  Devices' /\ InStep' /\ Reports'
<1>1. ASSUME NEW s \in Slot, devices[s].port # 0
      PROVE  AtItsPort(devices'[s], port_config_phase'[devices[s].port])
  <2>1. AtItsPort(devices[s], port_config_phase[devices[s].port])
    BY <1>1, InStepFacts
  <2>2. devices[s].port \in Port /\ devices[s].port # p
    BY <1>1, <2>1 DEF AtItsPort, IInv, TypeOK, Device
  <2> QED
    BY <2>1, <2>2
<1>2. Devices' /\ InStep'
  BY <1>1, DevicesKept
<1>3. Reports'
  BY ReportsKept
<1> QED
  BY <1>2, <1>3

-----------------------------------------------------------------------------
(* The steps *)

\* A port that is reset, or has to wait, has no device and no request.
LEMMA ResetInStep ==
  ASSUME IInv, IInv', SInv, NEW p \in Port, NEW queue, NEW k \in {0, 1}, NoNewEvents(k),
         ResetPort(p, port_config_phase, addressing_port, queue),
         port_config_phase[p] = "NotConnected",
         UNCHANGED <<slots, commands, transfers, devices>>
  PROVE  SInv'
<1>0. port_config_phase \in [Port -> ConfigPhase] /\ events' \in Seq(EventTRB)
      /\ devices' \in [Slot -> Device]
  BY DEF IInv, TypeOK
<1>1. \A q \in Port : q # p => port_config_phase'[q] = port_config_phase[q]
  BY <1>0 DEF ResetPort
<1>2. addressing_port # 0 => addressing_port' = addressing_port
  BY DEF ResetPort
<1>3. Enabling => Enabling'
  <2>1. addressing_port # 0 => addressing_port \in Port
    BY DEF IInv, TypeOK
  <2> QED
    BY <1>1, <1>2, <2>1 DEF Enabling
<1>4. NoNewCommands
  BY SameCommands DEF IInv
<1>5. OneRequest' /\ Requests'
  BY <1>0, <1>1, <1>3, <1>4, RequestsKept
<1>6. Devices' /\ InStep' /\ Reports'
  BY <1>1, PhaseMoved
<1> QED
  BY <1>5, <1>6 DEF SInv

\* An event that does not fit its port's phase.
LEMMA DropInStep ==
  ASSUME IInv, IInv', SInv, Event, Drop, UNCHANGED <<slots, boot>>
  PROVE  SInv'
<1>1. 1 \in Port /\ events' = Tail(events) /\ UNCHANGED <<commands, transfers, port_config_phase,
                                                          addressing_port, devices>>
  BY PortAssumption DEF Drop, Port
<1>2. NoNewEvents(1)
  BY <1>1, EventTaken DEF IInv
<1>3. NoNewCommands
  BY <1>1, SameCommands DEF IInv
<1>4. events' \in Seq(EventTRB) /\ devices' \in [Slot -> Device]
  BY DEF IInv, TypeOK
<1>5. OneRequest' /\ Requests'
  BY <1>1, <1>2, <1>3, <1>4, RequestsKept DEF Enabling
<1>6. Devices' /\ InStep'
  BY <1>1, DevicesKept, InStepFacts
<1>7. Reports'
  BY <1>1, <1>2, ReportsKept
<1> QED
  BY <1>5, <1>6, <1>7 DEF SInv

\* Nobody's request is under way unless a port is being enabled or addressed.
LEMMA NoRequest ==
  ASSUME IInv, SInv, ~Enabling,
         \/ addressing_port = 0
         \/ port_config_phase[addressing_port] # "AddressingDevice"
         \/ \E s \in Slot : devices[s].port = addressing_port
  PROVE  Asked = {} /\ Enabled = {}
<1>1. Enabled = {}
  BY DEF SInv, Requests
<1>2. ASSUME NEW i \in Asked PROVE FALSE
  <2> DEFINE c == commands[i]
  <2>1. c \in CommandTRB /\ c.type # "ConfigureEndpoint"
    BY <1>2 DEF Asked, IInv, TypeOK
  <2>2. c.type # "EnableSlot"
    BY <1>2 DEF SInv, Requests
  <2>3. /\ c.port \in Port /\ port_config_phase[c.port] = "AddressingDevice"
        /\ \A s \in Slot : devices[s].port # c.port
    BY <1>2, <2>1, <2>2 DEF SInv, Requests, CommandTRB
  <2>4. addressing_port = c.port
    BY <2>3 DEF IInv, AddressingPort, Addressing
  <2>5. c.port # 0
    BY <2>3 DEF Port
  <2> QED
    BY <2>3, <2>4, <2>5
<1> QED
  BY <1>1, <1>2

\* The start-up loop resets a port, or leaves it to wait.
LEMMA ConfigurePortInStep ==
  ASSUME IInv, IInv', SInv, ConfigurePort
  PROVE  SInv'
<1>1. boot \in Port /\ UNCHANGED <<slots, commands, transfers, devices>>
  BY DEF ConfigurePort
<1>2. CASE connected[boot] /\ port_config_phase[boot] = "NotConnected"
  <2>1. ResetPort(boot, port_config_phase, addressing_port, events)
    BY <1>2 DEF ConfigurePort
  <2>2. NoNewEvents(0)
    <3>1. /\ ~IsCompletion(PortStatusChange(boot), "EnableSlot")
          /\ ~IsReport(PortStatusChange(boot))
      BY DEF IsCompletion, IsReport, PortStatusChange
    <3>2. events' = Append(events, PortStatusChange(boot)) \/ events' = events
      BY <2>1 DEF ResetPort
    <3> QED
      BY <3>1, <3>2, EventAdded DEF IInv
  <2> QED
    BY <1>1, <1>2, <2>1, <2>2, ResetInStep
<1>3. CASE ~(connected[boot] /\ port_config_phase[boot] = "NotConnected")
  <2>1. UNCHANGED <<port_config_phase, addressing_port, events>>
    BY <1>3 DEF ConfigurePort
  <2> QED
    BY <1>1, <2>1 DEF SInv, OneRequest, Requests, Devices, Reports, InStep, Asked, Enabled, Enabling
<1> QED
  BY <1>2, <1>3

\* The reset of the port is over: one request is made, the only one.
LEMMA EnableSlotInStep ==
  ASSUME IInv, IInv', SInv, Event, NEW p \in Port, EnableSlot(p, Tail(events)),
         port_config_phase[p] = "ResettingPort", UNCHANGED <<slots, transfers, devices>>
  PROVE  SInv'
<1>1. events' = Tail(events) /\ addressing_port' = addressing_port
  BY DEF EnableSlot
<1>2. NoNewEvents(1)
  BY <1>1, EventTaken DEF IInv
<1>3. addressing_port = p /\ addressing_port # 0
  BY DEF IInv, AddressingPort, Addressing, Port
<1>4. Asked = {} /\ Enabled = {}
  BY <1>3, NoRequest DEF Enabling
<1>5. Enabled' = {}
  BY <1>2, <1>4 DEF NoNewEvents, Enabled
<1>6. \A q \in Port : q # p => port_config_phase'[q] = port_config_phase[q]
  BY DEF EnableSlot, IInv, TypeOK
<1>7. Devices' /\ InStep' /\ Reports'
  BY <1>2, <1>6, PhaseMoved
<1>8. OneRequest' /\ Requests'
  <2>1. CASE commands' = Append(commands, [type |-> "EnableSlot"])
             /\ port_config_phase' = [port_config_phase EXCEPT ![p] = "EnablingSlot"]
    <3>1. Enabling'
      BY <1>1, <1>3, <2>1 DEF Enabling, IInv, TypeOK
    <3>2. \A i \in Asked' : i = Len(commands) + 1 /\ commands'[i].type = "EnableSlot"
      BY <1>4, <2>1 DEF Asked, IInv, TypeOK
    <3> QED
      BY <1>5, <3>1, <3>2 DEF OneRequest, Requests
  <2>2. CASE UNCHANGED commands
    <3>1. Asked' = {}
      BY <1>4, <2>2 DEF Asked
    <3> QED
      BY <1>5, <3>1 DEF OneRequest, Requests
  <2> QED
    BY <2>1, <2>2 DEF EnableSlot
<1> QED
  BY <1>7, <1>8 DEF SInv

\* A change of a port.
LEMMA PortStatusInStep ==
  ASSUME IInv, IInv', SInv, OnPortStatusChange
  PROVE  SInv'
<1> DEFINE p == Head(events).port
<1>1. Event /\ p \in Port /\ UNCHANGED <<slots, boot>>
  BY EventTyped DEF OnPortStatusChange, Is, EventTRB, IInv
<1>2. CASE port_config_phase[p] = "NotConnected"
  <2>1. ResetPort(p, port_config_phase, addressing_port, Tail(events))
        /\ UNCHANGED <<commands, transfers, devices>>
    BY <1>2 DEF OnPortStatusChange
  <2>2. events' = Tail(events) \/ events' = Append(Tail(events), PortStatusChange(p))
    BY <2>1 DEF ResetPort
  <2> HIDE DEF p
  <2>3. NoNewEvents(1)
    BY <1>1, <2>2, EventTaken DEF IInv
  <2> QED
    BY <1>1, <1>2, <2>1, <2>3, ResetInStep
<1>3. CASE port_config_phase[p] = "ResettingPort"
  <2>1. EnableSlot(p, Tail(events)) /\ UNCHANGED <<slots, transfers, devices>>
    BY <1>1, <1>3 DEF OnPortStatusChange
  <2> HIDE DEF p
  <2> QED
    BY <1>1, <1>3, <2>1, EnableSlotInStep
<1>4. CASE port_config_phase[p] \notin {"NotConnected", "ResettingPort"}
  BY <1>1, <1>4, DropInStep DEF OnPortStatusChange
<1> QED
  BY <1>2, <1>3, <1>4

\* The slot that was enabled becomes a new device, whose address is asked for.
LEMMA AddressDeviceInStep ==
  ASSUME IInv, IInv', SInv, AddressDevice
  PROVE  SInv'
<1> DEFINE s == Head(events).slot
           p == addressing_port
<1>1. Event /\ UNCHANGED <<slots, boot>> /\ s \in Slot /\ IsCompletion(Head(events), "EnableSlot")
  BY SlotOfEvent DEF AddressDevice, Completed, Is, IInv, IsCompletion
<1>2. CASE p # 0 /\ port_config_phase[p] = "EnablingSlot"
  <2>1. 1 \in Enabled /\ events[1] = Head(events)
    BY <1>1 DEF Enabled, IInv, TypeOK, Event
  <2>2. devices[s] = NoDevice /\ s \in slots
    BY <2>1 DEF SInv, Requests
  <2>3. /\ devices' = [devices EXCEPT ![s] = NewDevice]
        /\ port_config_phase' = [port_config_phase EXCEPT ![p] = "AddressingDevice"]
        /\ commands' = Append(commands, [type |-> "AddressDevice", slot |-> s, port |-> p])
        /\ events' = Tail(events) /\ UNCHANGED <<transfers, addressing_port>>
    BY <1>2, <2>2 DEF AddressDevice
  <2>4. p \in Port /\ devices \in [Slot -> Device] /\ port_config_phase \in [Port -> ConfigPhase]
        /\ commands \in Seq(CommandTRB) /\ events \in Seq(EventTRB)
    BY <1>2 DEF IInv, TypeOK
  <2>5. Asked = {} /\ \A i \in Enabled : i = 1
    BY <2>1 DEF SInv, OneRequest
  <2>6. NoNewEvents(1)
    BY <1>1, <2>3, EventGone DEF IInv
  <2>7. Enabled' = {}
    <3>1. ASSUME NEW i \in Enabled' PROVE FALSE
      <4>1. i + 1 \in Enabled
        BY <2>6, <3>1 DEF NoNewEvents, Enabled
      <4>2. i \in Nat \ {0}
        <5>1. events' \in Seq(EventTRB)
          BY DEF IInv, TypeOK
        <5> QED
          BY <3>1, <5>1 DEF Enabled
      <4> QED
        BY <2>5, <4>1, <4>2
    <3> QED
      BY <3>1
  <2>8. devices'[s] = NewDevice /\ \A r \in Slot : r # s => devices'[r] = devices[r]
    BY <1>1, <2>3, <2>4
  <2>9. \A r \in Slot : devices[r].port # p
    <3>1. ASSUME NEW r \in Slot, devices[r].port = p PROVE FALSE
      BY <1>2, <3>1, InStepFacts DEF AtItsPort
    <3> QED
      BY <3>1
  <2>10. NewDevice.port = 0 /\ NewDevice.initialize_phase = 0 /\ NewDevice.hid_phase = 0
         /\ NoDevice.port = 0 /\ NoDevice.hid_phase = 0
    BY DEF NewDevice, NoDevice
  <2>11. port_config_phase'[p] = "AddressingDevice"
         /\ \A q \in Port : q # p => port_config_phase'[q] = port_config_phase[q]
    BY <2>3, <2>4
  <2>12. OneRequest' /\ Requests'
    <3> DEFINE c == [type |-> "AddressDevice", slot |-> s, port |-> p]
    <3>1. \A i \in Asked' : i = Len(commands) + 1 /\ commands'[i] = c
      <4>1. \A i \in DOMAIN commands' : \/ i \in DOMAIN commands /\ commands'[i] = commands[i]
                                        \/ i = Len(commands) + 1 /\ commands'[i] = c
        BY <2>3, <2>4
      <4> QED
        BY <2>5, <4>1 DEF Asked
    <3>2. c.type # "EnableSlot" /\ c.slot = s /\ c.port = p
      OBVIOUS
    <3>3. devices'[s] = NewDevice /\ \A r \in Slot : devices'[r].port # p
      BY <1>2, <2>8, <2>9, <2>10
    <3> HIDE DEF c, s, p
    <3> QED
      BY <2>7, <2>11, <3>1, <3>2, <3>3 DEF OneRequest, Requests
  <2>13. Devices' /\ InStep'
    <3> HIDE DEF s, p
    <3>1. \A r \in Slot \ slots' : devices'[r] = NoDevice
      BY <1>1, <2>2, <2>8 DEF SInv, Devices
    <3>2. \A r \in Slot : devices'[r].port = 0
                            => devices'[r].initialize_phase <= 0 /\ devices'[r].hid_phase = 0
      BY <2>8, <2>10 DEF SInv, Devices
    <3>3. \A r \in Slot : devices'[r].port = devices[r].port
      BY <2>2, <2>8, <2>10
    <3>4. \A q, r \in Slot : devices'[q].port = devices'[r].port /\ devices'[q].port # 0 => q = r
      BY <3>3 DEF SInv, Devices
    <3>5. ASSUME NEW r \in Slot, devices'[r].port # 0
          PROVE  AtItsPort(devices'[r], port_config_phase'[devices'[r].port])
      <4>1. r # s /\ devices[r].port \in Port \ {p}
        BY <2>4, <2>8, <2>9, <2>10, <3>5 DEF Device
      <4> QED
        BY <2>8, <2>11, <3>5, <4>1, InStepFacts
    <3> QED
      BY <3>1, <3>2, <3>4, <3>5 DEF Devices, InStep, AtItsPort
  <2>14. Reports'
    <3> HIDE DEF s, p
    <3>1. \A r \in Slot : devices[r].hid_phase # 0 => devices'[r].hid_phase # 0
      BY <2>2, <2>8, <2>10
    <3> QED
      BY <2>3, <2>6, <3>1, ReportsKept
  <2> QED
    BY <2>12, <2>13, <2>14 DEF SInv
<1>3. CASE ~(p # 0 /\ port_config_phase[p] = "EnablingSlot")
  BY <1>1, <1>3, DropInStep DEF AddressDevice
<1> QED
  BY <1>2, <1>3

\* The port that has its address is let go; another one, that waits, has no
\* device yet.
LEMMA InitializeDeviceInStep ==
  ASSUME IInv, IInv', SInv, InitializeDevice
  PROVE  SInv'
<1> DEFINE s == Head(events).slot
           p == devices[s].port
           phase == [port_config_phase EXCEPT ![p] = "InitializingDevice"]
           q == CHOOSE x \in Waiting : \A r \in Waiting : x <= r
<1>1. Event /\ UNCHANGED <<slots, boot>> /\ s \in Slot
  BY SlotOfEvent DEF InitializeDevice, Completed, Is, IInv
<1>2. CASE p # 0 /\ p = addressing_port /\ port_config_phase[p] = "AddressingDevice"
  <2>1. /\ IF Waiting # {}
           THEN ResetPort(q, phase, 0, Tail(events))
           ELSE /\ port_config_phase' = phase /\ addressing_port' = 0
                /\ events' = Tail(events) /\ UNCHANGED <<enabled, changed>>
        /\ devices' = [devices EXCEPT ![s].initialize_phase = 1]
        /\ transfers' = transfers \cup {<<s, "GetDevice">>}
        /\ UNCHANGED commands
    BY <1>2 DEF InitializeDevice
  <2>2. p \in Port /\ devices \in [Slot -> Device] /\ port_config_phase \in [Port -> ConfigPhase]
        /\ devices[s].hid_phase = 0
    <3>1. AtItsPort(devices[s], port_config_phase[p])
      BY <1>1, <1>2, InStepFacts
    <3> QED
      BY <1>2, <3>1 DEF IInv, TypeOK, AtItsPort
  <2>3. PICK w \in Port : /\ w # p => port_config_phase[w] = "WaitingAddressed"
                          /\ events' = Tail(events) \/ events' = Append(Tail(events), PortStatusChange(w))
                          /\ port_config_phase'[p] = "InitializingDevice"
                          /\ \A x \in Port \ {p, w} : port_config_phase'[x] = port_config_phase[x]
    <3>1. CASE Waiting # {}
      <4>1. q \in Waiting /\ q \in Port
        <5>1. Waiting \subseteq Nat /\ Waiting \subseteq Port
          BY DEF Waiting, Port
        <5>2. \E x \in Waiting : \A r \in Waiting : x <= r
          BY <3>1, <5>1, LeastPort
        <5> QED
          BY <5>1, <5>2
      <4>2. ResetPort(q, phase, 0, Tail(events)) /\ port_config_phase[q] = "WaitingAddressed" /\ q # p
        BY <1>2, <2>1, <3>1, <4>1 DEF Waiting
      <4>3. events' = Tail(events) \/ events' = Append(Tail(events), PortStatusChange(q))
        BY <4>2 DEF ResetPort
      <4>4. \A x \in Port : x # q => port_config_phase'[x] = phase[x]
        <5>1. phase \in [Port -> ConfigPhase]
          BY <2>2 DEF ConfigPhase
        <5> HIDE DEF phase, q
        <5> QED
          BY <4>1, <4>2, <5>1 DEF ResetPort
      <4>5. phase[p] = "InitializingDevice" /\ \A x \in Port : x # p => phase[x] = port_config_phase[x]
        BY <2>2
      <4> HIDE DEF phase, q
      <4> QED
        BY <2>2, <4>1, <4>2, <4>3, <4>4, <4>5
    <3>2. CASE Waiting = {}
      BY <2>1, <2>2, <3>2
    <3> QED
      BY <3>1, <3>2
  <2>4. NoNewEvents(1)
    BY <1>1, <2>3, EventTaken DEF IInv
  <2>5. Asked = {} /\ Enabled = {}
    BY <1>1, <1>2, NoRequest DEF Enabling
  <2>6. OneRequest' /\ Requests'
    <3>1. Asked' = {}
      BY <2>1, <2>5 DEF Asked
    <3>2. Enabled' = {}
      BY <2>4, <2>5 DEF NoNewEvents, Enabled
    <3> QED
      BY <3>1, <3>2 DEF OneRequest, Requests
  <2>7. /\ devices'[s] = [devices[s] EXCEPT !.initialize_phase = 1]
        /\ \A r \in Slot : r # s => devices'[r] = devices[r]
    BY <1>1, <2>1, <2>2
  <2>8. /\ devices'[s].initialize_phase = 1 /\ devices'[s].port = p /\ devices'[s].hid_phase = 0
    BY <1>1, <2>2, <2>7 DEF Device
  <2>9. Devices' /\ InStep'
    <3>1. ASSUME NEW r \in Slot, devices[r].port # 0
          PROVE  AtItsPort(devices'[r], port_config_phase'[devices[r].port])
      <4>1. CASE r = s
        BY <2>3, <2>8, <4>1 DEF AtItsPort
      <4>2. CASE r # s
        <5>1. AtItsPort(devices[r], port_config_phase[devices[r].port])
          BY <3>1, InStepFacts
        <5>2. devices[r].port \in Port \ {p, w}
          BY <1>1, <1>2, <2>2, <2>3, <3>1, <4>2, <5>1 DEF Device, SInv, Devices, AtItsPort
        <5> QED
          BY <2>3, <2>7, <4>2, <5>1, <5>2
      <4> QED
        BY <4>1, <4>2
    <3>2. /\ \A r \in Slot : devices[r].port = 0 => devices'[r] = devices[r]
          /\ \A r \in Slot : devices'[r].port = devices[r].port
      BY <1>2, <2>7, <2>8
    <3> HIDE DEF s, p, phase, q
    <3> QED
      BY <1>1, <3>1, <3>2, DevicesKept
  <2>10. Reports'
    <3>1. \A r \in Slot : devices[r].hid_phase # 0 => devices'[r].hid_phase # 0
      BY <2>2, <2>7
    <3>2. \A r \in Slot : <<r, "InterruptIn">> \in transfers' => <<r, "InterruptIn">> \in transfers
      BY <2>1
    <3> QED
      BY <2>4, <3>1, <3>2, ReportsKept
  <2> QED
    BY <2>6, <2>9, <2>10 DEF SInv
<1>3. CASE ~(p # 0 /\ p = addressing_port /\ port_config_phase[p] = "AddressingDevice")
  BY <1>1, <1>3, DropInStep DEF InitializeDevice
<1> QED
  BY <1>2, <1>3

\* One device goes on at its port, in a phase in which nothing is asked for.
LEMMA DeviceMoves ==
  ASSUME IInv, IInv', SInv, Event, UNCHANGED <<slots, addressing_port>>, events' = Tail(events),
         NoNewCommands, NEW s \in Slot, NEW p \in Port,
         devices[s].port = p, devices'[s].port = p,
         \A r \in Slot : r # s => devices'[r] = devices[r],
         \A q \in Port : q # p => port_config_phase'[q] = port_config_phase[q],
         \/ port_config_phase'[p] = port_config_phase[p]
         \/ port_config_phase[p] \in {"InitializingDevice", "ConfiguringEndpoints"},
         AtItsPort(devices'[s], port_config_phase'[p]),
         devices[s].hid_phase # 0 => devices'[s].hid_phase # 0,
         \A r \in Slot : <<r, "InterruptIn">> \in transfers'
                           => <<r, "InterruptIn">> \in transfers \/ devices'[r].hid_phase # 0
  PROVE  SInv'
<1>1. /\ devices \in [Slot -> Device] /\ devices' \in [Slot -> Device] /\ events' \in Seq(EventTRB)
      /\ p # 0 /\ (addressing_port # 0 => addressing_port \in Port)
  BY DEF IInv, TypeOK, Port
<1>2. NoNewEvents(1)
  BY EventGone DEF IInv
<1>3. Enabling => Enabling'
  BY <1>1 DEF Enabling
<1>4. \A r \in Slot : devices[r].port = 0 => devices'[r] = devices[r]
  BY <1>1
<1>5. \A r \in Slot : devices'[r].port = devices[r].port
  BY <1>1
<1>6. OneRequest' /\ Requests'
  <2>1. \A q \in Port : port_config_phase[q] = "AddressingDevice"
                         => port_config_phase'[q] = "AddressingDevice"
    BY <1>1
  <2> QED
    BY <1>1, <1>2, <1>3, <1>4, <1>5, <2>1, RequestsKept
<1>7. Devices' /\ InStep'
  <2>1. ASSUME NEW r \in Slot, devices[r].port # 0
        PROVE  AtItsPort(devices'[r], port_config_phase'[devices[r].port])
    <3>1. CASE r = s
      BY <1>1, <3>1
    <3>2. CASE r # s
      <4>1. devices[r].port \in Port /\ devices[r].port # p
        BY <1>1, <2>1, <3>2 DEF SInv, Devices, Device
      <4> QED
        BY <1>1, <2>1, <3>2, <4>1, InStepFacts
    <3> QED
      BY <3>1, <3>2
  <2> QED
    BY <1>4, <1>5, <2>1, DevicesKept
<1>8. Reports'
  BY <1>1, <1>2, ReportsKept
<1> QED
  BY <1>6, <1>7, <1>8 DEF SInv

\* The endpoints are configured: the class driver starts.
LEMMA CompleteConfigurationInStep ==
  ASSUME IInv, IInv', SInv, CompleteConfiguration
  PROVE  SInv'
<1> DEFINE s == Head(events).slot
           p == devices[s].port
           d == [devices[s] EXCEPT !.hid_phase = 1]
<1>1. Event /\ UNCHANGED <<slots, boot>> /\ s \in Slot /\ devices[s] \in Device
  BY SlotOfEvent DEF CompleteConfiguration, Completed, Is, IInv
<1>2. CASE p # 0 /\ port_config_phase[p] = "ConfiguringEndpoints"
  <2>1. /\ port_config_phase' = [port_config_phase EXCEPT ![p] = "Configured"]
        /\ devices' = [devices EXCEPT ![s] = d]
        /\ transfers' = transfers \cup {<<s, "SetProtocol">>}
        /\ events' = Tail(events) /\ UNCHANGED <<commands, addressing_port>>
    BY <1>2 DEF CompleteConfiguration
  <2>2. AtItsPort(devices[s], port_config_phase[p])
    BY <1>1, <1>2, InStepFacts
  <2>3. d.port = p /\ d.hid_phase = 1 /\ d.initialize_phase = 4
    BY <1>1, <1>2, <2>2 DEF Device, AtItsPort
  <2>4. p \in Port /\ port_config_phase'[p] = "Configured"
        /\ \A q \in Port : q # p => port_config_phase'[q] = port_config_phase[q]
    BY <1>1, <1>2, <2>1 DEF Device, IInv, TypeOK
  <2>5. AtItsPort(d, port_config_phase'[p])
    <3> HIDE DEF d
    <3> QED
      BY <2>3, <2>4 DEF AtItsPort
  <2>6. NoNewCommands
    BY <2>1, SameCommands DEF IInv
  <2>7. \A r \in Slot : <<r, "InterruptIn">> \in transfers' => <<r, "InterruptIn">> \in transfers
    BY <2>1
  <2>8. devices'[s] = d /\ \A r \in Slot : r # s => devices'[r] = devices[r]
    BY <1>1, <2>1 DEF IInv, TypeOK
  <2> HIDE DEF s, d
  <2> QED
    BY <1>1, <1>2, <2>1, <2>3, <2>4, <2>5, <2>6, <2>7, <2>8, DeviceMoves
<1>3. CASE ~(p # 0 /\ port_config_phase[p] = "ConfiguringEndpoints")
  BY <1>1, <1>3, DropInStep DEF CompleteConfiguration
<1> QED
  BY <1>2, <1>3

\* The class driver gets an answer, or a report.
LEMMA OnDriverTransferInStep ==
  ASSUME IInv, IInv', SInv, OnDriverTransfer
  PROVE  SInv'
<1> DEFINE s == Head(events).slot
           d == [devices[s] EXCEPT !.hid_phase = 2]
           started == Head(events).request = "InterruptIn" \/ devices[s].hid_phase = 1
<1>1. /\ Event /\ UNCHANGED <<slots, boot>> /\ s \in Slot /\ devices[s] \in Device
      /\ Head(events).type = "Transfer" /\ Head(events) = events[1] /\ 1 \in DOMAIN events
  BY SlotOfEvent, EventTyped DEF OnDriverTransfer, Is, IInv, TypeOK, Event
<1>2. CASE Head(events).success /\ started
  <2>1. /\ devices' = [devices EXCEPT ![s] = d]
        /\ transfers' = transfers \cup {<<s, "InterruptIn">>}
        /\ events' = Tail(events)
        /\ UNCHANGED <<commands, port_config_phase, addressing_port>>
    BY <1>2 DEF OnDriverTransfer
  <2>2. devices[s].hid_phase # 0
    <3>1. CASE Head(events).request = "InterruptIn"
      BY <1>1, <3>1 DEF SInv, Reports, IsReport
    <3>2. CASE devices[s].hid_phase = 1
      BY <3>2
    <3> QED
      BY <1>2, <3>1, <3>2
  <2>3. devices[s].port # 0
    BY <1>1, <2>2 DEF SInv, Devices
  <2>4. AtItsPort(devices[s], port_config_phase[devices[s].port])
    BY <1>1, <2>3, InStepFacts
  <2>5. d.port = devices[s].port /\ d.hid_phase = 2 /\ d.initialize_phase = devices[s].initialize_phase
    BY <1>1 DEF Device
  <2>6. AtItsPort(d, port_config_phase'[d.port])
    <3> DEFINE phase == port_config_phase[devices[s].port]
    <3>1. port_config_phase'[d.port] = phase
      BY <2>1, <2>5
    <3>2. AtItsPort(devices[s], phase)
      BY <2>4
    <3> HIDE DEF d, phase
    <3>3. AtItsPort(d, phase)
      BY ONLY <2>2, <2>5, <3>2 DEF AtItsPort
    <3> QED
      BY <3>1, <3>3
  <2>7. NoNewCommands
    BY <2>1, SameCommands DEF IInv
  <2>8. \A r \in Slot : <<r, "InterruptIn">> \in transfers' => <<r, "InterruptIn">> \in transfers \/ r = s
    BY <2>1
  <2>9. devices'[s] = d /\ \A r \in Slot : r # s => devices'[r] = devices[r]
    BY <1>1, <2>1 DEF IInv, TypeOK
  <2>10. devices[s].port \in Port
    BY <1>1, <2>3 DEF Device
  <2> HIDE DEF s, d
  <2> QED
    BY <1>1, <2>1, <2>2, <2>5, <2>6, <2>7, <2>8, <2>9, <2>10, DeviceMoves
<1>3. CASE ~(Head(events).success /\ started)
  BY <1>1, <1>3, DropInStep DEF OnDriverTransfer
<1> QED
  BY <1>2, <1>3

\* What a device asks next, and where its initialisation stands then.
LEMMA AnsweredFacts ==
  ASSUME NEW d \in Device, NEW request
  PROVE  LET a == Answered(d, request)
         IN /\ "InterruptIn" \notin a[2]
            /\ d.initialize_phase \in {-1, 0, 4} => a = <<d.initialize_phase, {}>>
            /\ d.initialize_phase \in 1..3 => a[1] \in 1..4
  BY DEF Answered, Device

\* An answer that nobody waits for changes no device.
LEMMA OnControlCompletedInStep ==
  ASSUME IInv, IInv', SInv, OnControlCompleted
  PROVE  SInv'
<1> DEFINE s == Head(events).slot
           old == devices[s]
           request == Head(events).request
           a == Answered(old, request)
           d == [old EXCEPT !.initialize_phase = a[1]]
<1>1. /\ Event /\ UNCHANGED <<slots, boot>> /\ s \in Slot /\ old \in Device
  BY SlotOfEvent DEF OnControlCompleted, Is, IInv
<1>2. CASE Head(events).success
  <2>1. /\ devices' = [devices EXCEPT ![s] = d]
        /\ transfers' = transfers \cup { <<s, r>> : r \in a[2] }
        /\ events' = Tail(events)
        /\ IF Configures(old, request)
           THEN /\ port_config_phase' = [port_config_phase EXCEPT ![old.port] = "ConfiguringEndpoints"]
                /\ commands' = Append(commands, [type |-> "ConfigureEndpoint", slot |-> s])
           ELSE UNCHANGED <<port_config_phase, commands>>
        /\ UNCHANGED addressing_port
    BY <1>2 DEF OnControlCompleted
  <2>2. /\ "InterruptIn" \notin a[2]
        /\ old.initialize_phase \in {-1, 0, 4} => a = <<old.initialize_phase, {}>>
        /\ old.initialize_phase \in 1..3 => a[1] \in 1..4
    <3> HIDE DEF s, request
    <3> QED
      BY <1>1, AnsweredFacts
  <2>3. d.port = old.port /\ d.hid_phase = old.hid_phase /\ d.initialize_phase = a[1]
    <3> HIDE DEF a
    <3> QED
      BY <1>1 DEF Device
  <2>4. NoNewCommands
    BY <2>1, SameCommands DEF IInv
  <2>5. \A r \in Slot : <<r, "InterruptIn">> \in transfers' => <<r, "InterruptIn">> \in transfers
    BY <2>1, <2>2
  <2>8. devices'[s] = d /\ \A r \in Slot : r # s => devices'[r] = devices[r]
    <3> HIDE DEF d
    <3> QED
      BY <1>1, <2>1 DEF IInv, TypeOK
  <2>6. CASE old.port # 0
    <3>1. AtItsPort(old, port_config_phase[old.port])
      BY <1>1, <2>6, InStepFacts
    <3>2. old.port \in Port /\ port_config_phase \in [Port -> ConfigPhase]
          /\ old.initialize_phase \in {-1, 0, 4} \cup 1..3
      BY <1>1, <2>6 DEF Device, IInv, TypeOK
    <3>3. CASE Configures(old, request)
      <4>1. a[1] = 4 /\ port_config_phase[old.port] = "InitializingDevice"
        BY <3>3 DEF Configures
      <4>2. port_config_phase'[old.port] = "ConfiguringEndpoints"
            /\ \A q \in Port : q # old.port => port_config_phase'[q] = port_config_phase[q]
        BY <2>1, <3>2, <3>3
      <4>3. AtItsPort(d, "ConfiguringEndpoints")
        <5> HIDE DEF d, a
        <5> QED
          BY <2>3, <3>1, <4>1 DEF AtItsPort
      <4>4. AtItsPort(devices'[s], port_config_phase'[old.port])
        BY <2>8, <4>2, <4>3
      <4>5. devices[s].hid_phase # 0 => devices'[s].hid_phase # 0
        BY <2>3, <2>8
      <4>6. devices[s].port = old.port /\ devices'[s].port = old.port
        BY <2>3, <2>8
      <4> HIDE DEF s, d, a
      <4> QED
        BY <1>1, <2>1, <2>4, <2>5, <2>8, <3>2, <4>1, <4>2, <4>4, <4>5, <4>6, DeviceMoves
    <3>4. CASE ~Configures(old, request)
      <4>1. AtItsPort(d, port_config_phase[old.port])
        <5>1. a[1] = old.initialize_phase \/ (old.initialize_phase \in 1..3 /\ a[1] \in 1..4)
          BY <2>2, <3>2
        <5> HIDE DEF d, a
        <5> QED
          BY <2>3, <3>1, <5>1 DEF AtItsPort
      <4>2. UNCHANGED port_config_phase
        BY <2>1, <3>4
      <4> HIDE DEF s, d, a
      <4> QED
        BY <1>1, <2>1, <2>3, <2>4, <2>5, <2>8, <3>2, <4>1, <4>2, DeviceMoves
    <3> QED
      BY <3>3, <3>4
  <2>7. CASE old.port = 0
    <3>1. old.initialize_phase \in {-1, 0}
      BY <1>1, <2>7 DEF SInv, Devices, Device
    <3>2. a = <<old.initialize_phase, {}>>
      BY <2>2, <3>1
    <3>3. ~Configures(old, request)
      BY <3>1, <3>2 DEF Configures
    <3>4. Drop
      <4>1. d = old
        <5> HIDE DEF a
        <5> QED
          BY <1>1, <3>2 DEF Device
      <4>2. devices' = devices /\ transfers' = transfers
        <5> HIDE DEF d
        <5> QED
          BY <1>1, <2>1, <3>2, <4>1 DEF IInv, TypeOK
      <4>3. UNCHANGED ports
        BY <1>2 DEF OnControlCompleted
      <4> QED
        BY <2>1, <3>3, <4>2, <4>3 DEF Drop
    <3> QED
      BY <1>1, <3>4, DropInStep
  <2> QED
    BY <2>6, <2>7
<1>3. CASE ~Head(events).success
  BY <1>1, <1>3, DropInStep DEF OnControlCompleted
<1> QED
  BY <1>2, <1>3

\* The controller reports a port, or nothing.
LEMMA ConnectInStep ==
  ASSUME IInv, IInv', SInv, NEW p \in Port, NEW there \in BOOLEAN, Connect(p, there)
  PROVE  SInv'
<1>1. UNCHANGED <<slots, commands, transfers, port_config_phase, addressing_port, devices>>
      /\ (events' = Append(events, PortStatusChange(p)) \/ events' = events)
  BY DEF Connect
<1>2. NoNewEvents(0)
  <2>1. ~IsCompletion(PortStatusChange(p), "EnableSlot") /\ ~IsReport(PortStatusChange(p))
    BY DEF IsCompletion, IsReport, PortStatusChange
  <2> QED
    BY <1>1, <2>1, EventAdded DEF IInv
<1>3. NoNewCommands /\ events' \in Seq(EventTRB) /\ devices' \in [Slot -> Device]
  BY <1>1, SameCommands DEF IInv, TypeOK
<1>4. OneRequest' /\ Requests'
  BY <1>1, <1>2, <1>3, RequestsKept DEF Enabling
<1>5. Devices' /\ InStep'
  BY <1>1, DevicesKept, InStepFacts
<1>6. Reports'
  BY <1>1, <1>2, ReportsKept
<1> QED
  BY <1>4, <1>5, <1>6 DEF SInv

\* A device answers.
LEMMA CompleteTransferInStep ==
  ASSUME IInv, IInv', SInv, NEW s \in Slot, NEW r \in Request, CompleteTransfer(s, r)
  PROVE  SInv'
<1>1. PICK e : /\ e.type = "Transfer" /\ e.slot = s /\ e.request = r
               /\ events' = Append(events, e)
  BY DEF CompleteTransfer
<1>2. /\ <<s, r>> \in transfers /\ transfers' = transfers \ {<<s, r>>}
      /\ UNCHANGED <<slots, commands, port_config_phase, addressing_port, devices>>
  BY DEF CompleteTransfer
<1>3. events \in Seq(EventTRB) /\ events' \in Seq(EventTRB) /\ devices' \in [Slot -> Device]
  BY DEF IInv, TypeOK
<1>4. \A i \in DOMAIN events' : \/ i \in DOMAIN events /\ events'[i] = events[i]
                             \/ events'[i] = e
  BY <1>1, <1>3
<1>5. Enabled' = Enabled /\ Asked' = Asked
  <2>1. ~IsCompletion(e, "EnableSlot")
    BY <1>1 DEF IsCompletion
  <2>2. ASSUME NEW i \in Enabled' PROVE i \in Enabled
    BY <1>4, <2>1, <2>2 DEF Enabled
  <2>3. ASSUME NEW i \in Enabled PROVE i \in Enabled'
    <3>1. i \in DOMAIN events' /\ events'[i] = events[i]
      BY <1>1, <1>3, <2>3 DEF Enabled
    <3> QED
      BY <2>3, <3>1 DEF Enabled
  <2>4. Asked' = Asked
    BY <1>2 DEF Asked
  <2> QED
    BY <2>2, <2>3, <2>4
<1>6. OneRequest'
  BY <1>5 DEF SInv, OneRequest
<1>7. Requests'
  <2>1. \A i \in Enabled : events'[i] = events[i]
    BY <1>1, <1>3 DEF Enabled
  <2> QED
    BY <1>2, <1>5, <2>1 DEF SInv, Requests, Enabling
<1>8. Devices' /\ InStep'
  BY <1>2, DevicesKept, InStepFacts
<1>9. Reports'
  <2>1. \A q \in Slot : <<q, "InterruptIn">> \in transfers' => devices'[q].hid_phase # 0
    BY <1>2 DEF SInv, Reports
  <2>2. ASSUME NEW i \in DOMAIN events', IsReport(events'[i])
        PROVE  devices'[events'[i].slot].hid_phase # 0
    <3>1. CASE i \in DOMAIN events /\ events'[i] = events[i]
      BY <1>2, <2>2, <3>1 DEF SInv, Reports
    <3>2. CASE events'[i] = e
      <4>1. r = "InterruptIn"
        BY <1>1, <2>2, <3>2 DEF IsReport
      <4> QED
        BY <1>1, <1>2, <3>2, <4>1 DEF SInv, Reports
    <3> QED
      BY <1>4, <3>1, <3>2
  <2> QED
    BY <2>1, <2>2 DEF Reports
<1> QED
  BY <1>6, <1>7, <1>8, <1>9 DEF SInv

\* A request becomes the event that it is done.
LEMMA ExecuteCommandInStep ==
  ASSUME IInv, IInv', SInv, ExecuteCommand
  PROVE  SInv'
<1> DEFINE c == Head(commands)
           e(s) == [type |-> "CommandCompletion", command |-> c.type, slot |-> s]
<1>1. PICK s \in Slot :
        /\ IF c.type = "EnableSlot" THEN s \notin slots ELSE s = c.slot
        /\ slots' = slots \cup {s}
        /\ devices' = IF c.type = "AddressDevice" /\ enabled[c.port]
                      THEN [devices EXCEPT ![s] = [devices[s] EXCEPT !.port = c.port]] ELSE devices
        /\ events' = Append(events, e(s))
  BY DEF ExecuteCommand
<1>2. commands # <<>> /\ commands' = Tail(commands)
      /\ UNCHANGED <<transfers, port_config_phase, addressing_port>>
  BY DEF ExecuteCommand
<1>3. /\ commands \in Seq(CommandTRB) /\ events \in Seq(EventTRB) /\ devices \in [Slot -> Device]
      /\ c \in CommandTRB /\ c = commands[1] /\ 1 \in DOMAIN commands
      /\ DOMAIN commands' = 1..Len(commands) - 1
      /\ \A i \in DOMAIN commands' : i + 1 \in DOMAIN commands /\ commands'[i] = commands[i + 1]
  <2>1. /\ commands \in Seq(CommandTRB) /\ events \in Seq(EventTRB) /\ devices \in [Slot -> Device]
        /\ commands' \in Seq(CommandTRB)
    BY DEF IInv, TypeOK
  <2>2. /\ c \in CommandTRB /\ c = commands[1] /\ 1 \in DOMAIN commands
    BY <1>2, <2>1
  <2>3. /\ DOMAIN commands' = 1..Len(commands) - 1
        /\ \A i \in DOMAIN commands' : commands'[i] = commands[i + 1]
    BY <1>2, <2>1
  <2>4. \A i \in DOMAIN commands' : i + 1 \in DOMAIN commands
    <3>1. Len(commands) \in Nat /\ DOMAIN commands = 1..Len(commands)
      BY <2>1
    <3> QED
      BY <2>3, <3>1
  <2> QED
    BY <2>1, <2>2, <2>3, <2>4
<1>4. \A i \in Asked' : i \in Nat \ {0} /\ i + 1 \in Asked /\ commands'[i] = commands[i + 1]
  <2>1. \A i \in DOMAIN commands' : i \in Nat \ {0}
    <3>1. Len(commands) \in Nat
      BY <1>3
    <3> QED
      BY <1>3, <3>1
  <2> QED
    BY <1>3, <2>1 DEF Asked
<1>5. \A i \in DOMAIN events' : \/ i \in DOMAIN events /\ events'[i] = events[i]
                                \/ i = Len(events) + 1 /\ events'[i] = e(s)
  <2> HIDE DEF e
  <2> QED
    BY <1>1, <1>3
<1>6. /\ ~IsReport(e(s)) /\ e(s).slot = s
      /\ IsCompletion(e(s), "EnableSlot") <=> c.type = "EnableSlot"
  BY DEF IsReport, IsCompletion
<1> HIDE DEF e
<1>7. CASE c.type = "ConfigureEndpoint"
  <2>1. Enabled' = Enabled /\ \A i \in Enabled : events'[i] = events[i]
    <3>1. \A i \in Enabled' : i \in Enabled
      BY <1>5, <1>6, <1>7 DEF Enabled
    <3>2. \A i \in Enabled : i \in DOMAIN events' /\ events'[i] = events[i]
      BY <1>1, <1>3 DEF Enabled
    <3>3. \A i \in Enabled : i \in Enabled'
      BY <3>2 DEF Enabled
    <3> QED
      BY <3>1, <3>2, <3>3
  <2>2. UNCHANGED devices /\ s = c.slot
    BY <1>1, <1>7
  <2>3. OneRequest'
    <3>1. \A i, j \in Asked' : i = j
      BY <1>4 DEF SInv, OneRequest
    <3>2. Asked # {} \/ Asked' = {}
      BY <1>4
    <3> QED
      BY <2>1, <3>1, <3>2 DEF SInv, OneRequest
  <2>4. Requests'
    <3>1. \A i \in Asked' : commands'[i] = commands[i + 1] /\ i + 1 \in Asked
      BY <1>4
    <3>2. Enabling' <=> Enabling
      BY <1>2 DEF Enabling
    <3>3. ASSUME NEW i \in Asked'
          PROVE LET d == commands'[i]
                IN IF d.type = "EnableSlot" THEN Enabling'
                   ELSE /\ devices'[d.slot] = NewDevice
                        /\ port_config_phase'[d.port] = "AddressingDevice"
                        /\ \A r \in Slot : devices'[r].port # d.port
      <4>1. PICK d : d = commands[i + 1] /\ d = commands'[i]
        BY <3>1
      <4>2. IF d.type = "EnableSlot" THEN Enabling
            ELSE /\ devices[d.slot] = NewDevice /\ port_config_phase[d.port] = "AddressingDevice"
                 /\ \A r \in Slot : devices[r].port # d.port
        BY <3>1, <4>1 DEF SInv, Requests
      <4>3. IF d.type = "EnableSlot" THEN Enabling'
            ELSE /\ devices'[d.slot] = NewDevice /\ port_config_phase'[d.port] = "AddressingDevice"
                 /\ \A r \in Slot : devices'[r].port # d.port
        BY <1>2, <2>2, <3>2, <4>2
      <4> QED
        BY <4>1, <4>3
    <3>4. \A i \in Enabled' : Enabling' /\ devices'[events'[i].slot] = NoDevice
                               /\ events'[i].slot \in slots'
      BY <1>1, <2>1, <2>2, <3>2 DEF SInv, Requests
    <3> QED
      BY <3>3, <3>4 DEF Requests
  <2>5. Devices' /\ InStep'
    BY <1>1, <1>2, <2>2, DevicesKept, InStepFacts
  <2>6. Reports'
    <3>1. NoNewEvents(0)
      BY <1>1, <1>6, <1>7, EventAdded DEF IInv
    <3> QED
      BY <1>2, <2>2, <3>1, ReportsKept
  <2> QED
    BY <2>3, <2>4, <2>5, <2>6 DEF SInv
<1>8. ASSUME c.type # "ConfigureEndpoint"
      PROVE  Asked' = {} /\ Enabled = {}
  <2>1. 1 \in Asked
    BY <1>3, <1>8 DEF Asked
  <2> QED
    BY <1>4, <2>1 DEF SInv, OneRequest
<1>9. CASE c.type = "EnableSlot"
  <2>1. Asked' = {} /\ Enabled = {} /\ UNCHANGED devices
    BY <1>1, <1>8, <1>9
  <2>2. 1 \in Asked /\ Enabling
    BY <1>3, <1>9 DEF Asked, SInv, Requests
  <2>3. \A i \in Enabled' : i = Len(events) + 1 /\ events'[i] = e(s)
    BY <1>5, <2>1 DEF Enabled
  <2>4. Enabling'
    BY <1>2, <2>2 DEF Enabling
  <2>5. devices[s] = NoDevice
    BY <1>1, <1>9 DEF SInv, Devices
  <2>6. OneRequest' /\ Requests'
    BY <1>1, <1>6, <2>1, <2>3, <2>4, <2>5 DEF OneRequest, Requests
  <2>7. Devices' /\ InStep'
    BY <1>1, <1>2, <2>1, DevicesKept, InStepFacts
  <2>8. Reports'
    <3>1. \A i \in DOMAIN events' : IsReport(events'[i]) => i \in DOMAIN events /\ events'[i] = events[i]
      BY <1>5, <1>6
    <3> QED
      BY <1>2, <2>1, <3>1 DEF SInv, Reports
  <2> QED
    BY <2>6, <2>7, <2>8 DEF SInv
<1>10. CASE c.type = "AddressDevice"
  <2>1. Asked' = {} /\ Enabled = {} /\ s = c.slot /\ c.port \in Port
    BY <1>1, <1>3, <1>8, <1>10 DEF CommandTRB
  <2>2. /\ devices[s] = NewDevice /\ port_config_phase[c.port] = "AddressingDevice"
        /\ \A r \in Slot : devices[r].port # c.port
    <3>1. 1 \in Asked
      BY <1>3, <1>10 DEF Asked
    <3> QED
      BY <1>3, <1>10, <2>1, <3>1 DEF SInv, Requests
  <2>3. Enabled' = {}
    BY <1>5, <1>6, <1>10, <2>1 DEF Enabled
  <2>4. OneRequest' /\ Requests'
    BY <2>1, <2>3 DEF OneRequest, Requests
  <2>5. NoNewEvents(0)
    BY <1>1, <1>6, <1>10, EventAdded DEF IInv
  <2>6. CASE ~enabled[c.port]
    <3>1. UNCHANGED devices
      BY <1>1, <2>6
    <3>2. Devices' /\ InStep'
      BY <1>1, <1>2, <3>1, DevicesKept, InStepFacts
    <3>3. Reports'
      BY <1>2, <2>5, <3>1, ReportsKept
    <3> QED
      BY <2>4, <3>2, <3>3 DEF SInv
  <2>7. CASE enabled[c.port]
    <3>1. PICK d : d = [devices[s] EXCEPT !.port = c.port]
      OBVIOUS
    <3>2. d.port = c.port /\ d.initialize_phase = 0 /\ d.hid_phase = 0 /\ c.port # 0
      BY <2>1, <2>2, <3>1 DEF NewDevice, Port
    <3>3. devices'[s] = d /\ \A r \in Slot : r # s => devices'[r] = devices[r]
      BY <1>1, <1>3, <1>10, <2>7, <3>1
    <3>4. devices[s].port = 0 /\ devices[s].hid_phase = 0
      BY <2>2 DEF NewDevice
    <3> HIDE DEF c
    <3>5. \A r \in Slot \ slots' : devices'[r] = NoDevice
      BY <1>1, <3>3 DEF SInv, Devices
    <3>6. \A r \in Slot : devices'[r].port = 0
                            => devices'[r].initialize_phase <= 0 /\ devices'[r].hid_phase = 0
      BY <3>2, <3>3 DEF SInv, Devices
    <3>7. \A q, r \in Slot : devices'[q].port = devices'[r].port /\ devices'[q].port # 0 => q = r
      BY <2>2, <3>2, <3>3 DEF SInv, Devices
    <3>8. ASSUME NEW r \in Slot, devices'[r].port # 0
          PROVE  AtItsPort(devices'[r], port_config_phase'[devices'[r].port])
      <4>1. CASE r = s
        BY <1>2, <2>2, <3>2, <3>3, <4>1 DEF AtItsPort
      <4>2. CASE r # s
        BY <1>2, <3>3, <3>8, <4>2, InStepFacts
      <4> QED
        BY <4>1, <4>2
    <3>9. Devices' /\ InStep'
      BY <3>5, <3>6, <3>7, <3>8 DEF Devices, InStep, AtItsPort
    <3>10. Reports'
      BY <1>2, <2>5, <3>3, <3>4, ReportsKept
    <3> QED
      BY <2>4, <3>9, <3>10 DEF SInv
  <2> QED
    BY <2>6, <2>7
<1> QED
  BY <1>3, <1>7, <1>9, <1>10 DEF CommandTRB

\* Before anything is plugged in.
LEMMA InitInStep == Init => SInv
<1> SUFFICES ASSUME Init PROVE SInv
  OBVIOUS
<1>1. Asked = {} /\ Enabled = {}
  BY DEF Init, Asked, Enabled
<1>2. OneRequest /\ Requests
  BY <1>1 DEF OneRequest, Requests
<1>3. \A s \in Slot : devices[s] = NoDevice
  BY DEF Init
<1>4. NoDevice.port = 0 /\ NoDevice.initialize_phase = -1 /\ NoDevice.hid_phase = 0
  BY DEF NoDevice
<1>5. Devices /\ InStep
  BY <1>3, <1>4 DEF Devices, InStep
<1>6. Reports
  BY DEF Init, Reports
<1> QED
  BY <1>2, <1>5, <1>6 DEF SInv

\* Every step keeps ports and devices together.
LEMMA InStepKept == IInv /\ IInv' /\ SInv /\ [Next]_vars => SInv'
<1> SUFFICES ASSUME IInv, IInv', SInv, [Next]_vars PROVE SInv'
  OBVIOUS
<1>1. CASE ConfigurePort \/ ProcessEvent \/ ExecuteCommand
  BY <1>1, ConfigurePortInStep, PortStatusInStep, AddressDeviceInStep, InitializeDeviceInStep,
     CompleteConfigurationInStep, OnControlCompletedInStep, OnDriverTransferInStep,
     ExecuteCommandInStep DEF ProcessEvent
<1>2. ASSUME NEW p \in Port, Plug(p) \/ Unplug(p) PROVE SInv'
  BY <1>2, ConnectInStep DEF Plug, Unplug
<1>3. ASSUME NEW s \in Slot, NEW r \in Request, CompleteTransfer(s, r) PROVE SInv'
  BY <1>3, CompleteTransferInStep
<1>4. CASE UNCHANGED vars
  BY <1>4 DEF vars, ports, SInv, OneRequest, Requests, Devices, Reports, InStep, Asked, Enabled,
              Enabling
<1> QED
  BY <1>1, <1>2, <1>3, <1>4 DEF Next

\* The phase of a port and the phases of the device at it and of its class
\* driver agree (xhci.cpp, device.cpp, hid.cpp), for any number of ports and
\* slots and however devices come, go and answer.
THEOREM InStepCorrect == Spec => []InStep
<1>1. SInv => InStep
  BY DEF SInv
<1> QED
  BY InitHolds, StepHolds, InitInStep, InStepKept, <1>1, PTL DEF Spec

\* No two devices are at one port, and a device that the kernel has not
\* spoken to has no class driver at work.
THEOREM OneDevicePerPort == Spec => []Devices
<1>1. SInv => Devices
  BY DEF SInv
<1> QED
  BY InitHolds, StepHolds, InitInStep, InStepKept, <1>1, PTL DEF Spec

-----------------------------------------------------------------------------
(* Ring: the rings that carry these commands and events, of any size that  *)
(* RingAssumption allows.                                                  *)

\* The entry of the command ring that is for the link.
Last == buf_size_ - 1

\* How many entries of the event ring lie between from and p.
Ahead(from, p) == IF p >= from THEN p - from ELSE p - from + event_size

\* The entry of the command ring j before d.
Back(d, j) == IF j <= d THEN d - j ELSE d - j + Last

\* How many commands are pushed and not taken, by the laps of the two sides.
Pending == IF ccs = cycle_bit_ THEN write_index_ - dequeue ELSE Last - dequeue + write_index_

LEMMA Sizes ==
  /\ Last \in Nat /\ Last >= 2 /\ buf_size_ = Last + 1 /\ Index = 0..Last
  /\ event_size \in Nat /\ event_size >= 2
  /\ MaxUnderWay \in Nat /\ 1 <= MaxUnderWay /\ MaxUnderWay <= Last - 1
  BY RingAssumption DEF Last, Index

LEMMA ModLap ==
  ASSUME NEW n \in Nat, n > 0, NEW x \in Int
  PROVE  /\ 0 <= x /\ x < n => x % n = x
         /\ -n <= x /\ x < 0 => x % n = x + n
  OBVIOUS

LEMMA AheadIsDistance ==
  ASSUME NEW from \in EventIndex, NEW p \in EventIndex
  PROVE  (p - from) % event_size = Ahead(from, p) /\ Ahead(from, p) \in EventIndex
<1>1. /\ event_size \in Nat /\ event_size > 0 /\ p \in Nat /\ from \in Nat
      /\ p < event_size /\ from < event_size
  BY Sizes DEF EventIndex
<1>2. CASE p >= from
  <2>1. 0 <= p - from /\ p - from < event_size /\ p - from \in Int
    BY <1>1, <1>2
  <2> QED
    BY <1>1, <1>2, <2>1, ModLap DEF Ahead, EventIndex
<1>3. CASE ~(p >= from)
  <2>1. -event_size <= p - from /\ p - from < 0 /\ p - from \in Int
    BY <1>1, <1>3
  <2>2. (p - from) % event_size = (p - from) + event_size
    BY <1>1, <2>1, ModLap
  <2> QED
    BY <1>1, <1>3, <2>2 DEF Ahead, EventIndex
<1> QED
  BY <1>2, <1>3

-----------------------------------------------------------------------------
(* The event ring *)

NextSlot(i) == IF i + 1 = event_size THEN 0 ELSE i + 1

\* The commands whose events are still to be looked at, in the entries between.
Unseen(b, from, to, first) ==
  {p \in EventIndex : b[p].pointer # -1 /\ Ahead(from, p) \in first..(Ahead(from, to) - 1)}

\* Those of S that are not before p.
After(S, from, p) == {q \in S : Ahead(from, q) >= Ahead(from, p)}

\* The events of S point, in their order, to the last commands before d.
Points(S, b, from, d) == \A p \in S : b[p].pointer = Back(d, Cardinality(After(S, from, p)))

LEMMA NextIsMod ==
  ASSUME NEW i \in EventIndex
  PROVE  (i + 1) % event_size = NextSlot(i) /\ NextSlot(i) \in EventIndex
<1>1. event_size \in Nat /\ event_size >= 2 /\ i \in Nat /\ i < event_size
  BY Sizes DEF EventIndex
<1>2. CASE i + 1 = event_size
  <2>1. event_size % event_size = 0
    BY <1>1
  <2> QED
    BY <1>1, <1>2, <2>1 DEF NextSlot, EventIndex
<1>3. CASE i + 1 # event_size
  <2>1. 0 <= i + 1 /\ i + 1 < event_size /\ i + 1 \in Int
    BY <1>1, <1>3
  <2> QED
    BY <1>1, <1>3, <2>1, ModLap DEF NextSlot, EventIndex
<1> QED
  BY <1>2, <1>3

LEMMA SlotsFinite ==
  ASSUME NEW S, S \subseteq EventIndex
  PROVE  IsFiniteSet(S) /\ Cardinality(S) \in Nat
<1>1. IsFiniteSet(EventIndex)
  BY Sizes, FS_Interval DEF EventIndex
<1> QED
  BY <1>1, FS_Subset, FS_CardinalityType

\* What was ahead of a front that is popped comes one entry nearer.
LEMMA PoppedAhead ==
  ASSUME NEW from \in EventIndex
  PROVE  /\ \A p \in EventIndex : p # from => Ahead(NextSlot(from), p) = Ahead(from, p) - 1
         /\ Ahead(NextSlot(from), from) = event_size - 1 /\ Ahead(from, from) = 0
         /\ \A p \in EventIndex : p # from => Ahead(from, p) # 0
  BY Sizes DEF Ahead, NextSlot, EventIndex

LEMMA WrittenAhead ==
  ASSUME NEW from \in EventIndex, NEW to \in EventIndex,
         NextSlot(to) # from
  PROVE  /\ Ahead(from, NextSlot(to)) = Ahead(from, to) + 1
         /\ \A p \in EventIndex : p # to => Ahead(from, p) # Ahead(from, to)
  BY Sizes DEF Ahead, NextSlot, EventIndex

LEMMA AheadInRing ==
  ASSUME NEW from \in EventIndex
  PROVE  \A p \in EventIndex : Ahead(from, p) \in Nat /\ Ahead(from, p) < event_size
<1>1. \A p \in EventIndex : Ahead(from, p) \in EventIndex
  BY AheadIsDistance
<1>2. event_size \in Nat
  BY Sizes
<1> QED
  BY <1>1, <1>2 DEF EventIndex

LEMMA PoppedUnseen ==
  ASSUME NEW from \in EventIndex, NEW to \in EventIndex,
         from # to, NEW b, NEW d,
         Points(Unseen(b, from, to, 1), b, from, d)
  PROVE  /\ Unseen(b, NextSlot(from), to, 0) = Unseen(b, from, to, 1)
         /\ Points(Unseen(b, from, to, 1), b, NextSlot(from), d)
<1> DEFINE S == Unseen(b, from, to, 1)
           T == Unseen(b, NextSlot(from), to, 0)
<1>1. /\ event_size \in Nat /\ \A p \in EventIndex : Ahead(from, p) \in Nat
      /\ \A p \in EventIndex : Ahead(from, p) < event_size
      /\ NextSlot(from) \in EventIndex
  BY AheadInRing, NextIsMod, Sizes
<1>2. ASSUME NEW p \in EventIndex
      PROVE  p \in T <=> p \in S
  <2>1. Ahead(NextSlot(from), to) = Ahead(from, to) - 1
    BY PoppedAhead
  <2>2. CASE p = from
    <3>1. Ahead(NextSlot(from), p) = event_size - 1 /\ Ahead(from, p) = 0
      BY <2>2, PoppedAhead
    <3> QED
      BY <1>1, <2>1, <3>1 DEF Unseen
  <2>3. CASE p # from
    <3>1. Ahead(NextSlot(from), p) = Ahead(from, p) - 1 /\ Ahead(from, p) # 0
      BY <2>3, PoppedAhead
    <3> QED
      BY <1>1, <2>1, <3>1 DEF Unseen
  <2> QED
    BY <2>2, <2>3
<1>3. S \subseteq EventIndex /\ T \subseteq EventIndex
  BY DEF Unseen
<1>4. S = T
  BY <1>2, <1>3
<1>5. from \notin S
  BY PoppedAhead DEF Unseen
<1> HIDE DEF S, T
<1>6. ASSUME NEW p \in S
      PROVE  After(S, NextSlot(from), p) = After(S, from, p)
  <2>1. \A q \in S : Ahead(NextSlot(from), q) = Ahead(from, q) - 1 /\ Ahead(from, q) \in Nat
    BY <1>1, <1>3, <1>5, PoppedAhead
  <2> QED
    BY <2>1 DEF After
<1>7. Points(S, b, NextSlot(from), d)
  BY <1>6 DEF Points, S
<1> QED
  BY <1>4, <1>7 DEF S, T

\* A report that is not about a command changes nothing.
LEMMA ReportedUnseen ==
  ASSUME NEW from \in EventIndex, NEW to \in EventIndex,
         NextSlot(to) # from,
         NEW first \in 0..1, NEW b, NEW c, c[to].pointer = -1,
         \A p \in EventIndex : p # to => c[p] = b[p]
  PROVE  /\ Unseen(c, from, NextSlot(to), first) = Unseen(b, from, to, first)
         /\ \A p \in Unseen(b, from, to, first) : c[p] = b[p]
<1>1. /\ \A p \in EventIndex : Ahead(from, p) \in Nat
      /\ \A p \in EventIndex : p # to => c[p] = b[p] /\ Ahead(from, p) # Ahead(from, to)
      /\ c[to].pointer = -1 /\ Ahead(from, NextSlot(to)) = Ahead(from, to) + 1
  BY AheadInRing, WrittenAhead
<1>2. ASSUME NEW p \in EventIndex
      PROVE  p \in Unseen(c, from, NextSlot(to), first) <=> p \in Unseen(b, from, to, first)
  <2>1. CASE p = to
    BY <1>1, <2>1 DEF Unseen
  <2>2. CASE p # to
    BY <1>1, <2>2 DEF Unseen
  <2> QED
    BY <2>1, <2>2
<1>3. Unseen(c, from, NextSlot(to), first) = Unseen(b, from, to, first)
  BY <1>2 DEF Unseen
<1>4. to \notin Unseen(b, from, to, first)
  BY <1>1 DEF Unseen
<1>5. \A p \in Unseen(b, from, to, first) : p \in EventIndex
  BY DEF Unseen
<1> QED
  BY <1>1, <1>3, <1>4, <1>5

\* A command that is carried out is the last of those that are pointed to.
LEMMA CarriedUnseen ==
  ASSUME NEW from \in EventIndex, NEW to \in EventIndex,
         NextSlot(to) # from,
         NEW b, NEW d \in 0..(Last - 1), NEW first \in 0..1, first <= Ahead(from, to),
         Points(Unseen(b, from, to, first), b, from, d),
         Cardinality(Unseen(b, from, to, first)) < Last,
         NEW c, c[to].pointer = d, \A p \in EventIndex : p # to => c[p] = b[p]
  PROVE  /\ Cardinality(Unseen(c, from, NextSlot(to), first)) = Cardinality(Unseen(b, from, to, first)) + 1
         /\ Points(Unseen(c, from, NextSlot(to), first), c, from, d + 1)
<1> DEFINE S == Unseen(b, from, to, first)
           T == Unseen(c, from, NextSlot(to), first)
<1>1. /\ \A p \in EventIndex : Ahead(from, p) \in Nat
      /\ \A p \in EventIndex : p # to => c[p] = b[p] /\ Ahead(from, p) # Ahead(from, to)
      /\ c[to].pointer = d /\ Ahead(from, NextSlot(to)) = Ahead(from, to) + 1
  BY AheadInRing, WrittenAhead
<1>2. d # -1 /\ d \in Nat /\ Last \in Nat /\ d < Last
  BY Sizes
<1>3. ASSUME NEW p \in EventIndex
      PROVE  p \in T <=> p \in S \/ p = to
  <2>1. CASE p = to
    BY <1>1, <1>2, <2>1 DEF Unseen
  <2>2. CASE p # to
    BY <1>1, <2>2 DEF Unseen
  <2> QED
    BY <2>1, <2>2
<1>4. S \subseteq EventIndex /\ T \subseteq EventIndex /\ to \notin S
  BY <1>1 DEF Unseen
<1>5. T = S \cup {to}
  BY <1>3, <1>4
<1>6. \A p \in S : Ahead(from, p) < Ahead(from, to)
  BY <1>1 DEF Unseen
<1> HIDE DEF S, T
<1>7. \A R : R \subseteq S => Cardinality(R \cup {to}) = Cardinality(R) + 1 /\ Cardinality(R) \in Nat
  BY <1>4, SlotsFinite, FS_AddElement
<1>8. Cardinality(T) = Cardinality(S) + 1
  BY <1>5, <1>7
<1>9. ASSUME NEW p \in S
      PROVE  c[p].pointer = Back(d + 1, Cardinality(After(T, from, p)))
  <2> DEFINE R == After(S, from, p)
  <2>1. After(T, from, p) = R \cup {to} /\ R \subseteq S
    BY <1>1, <1>4, <1>5, <1>6 DEF After
  <2>2. b[p].pointer = Back(d, Cardinality(R))
    BY DEF Points, S
  <2>3. c[p] = b[p]
    BY <1>1, <1>4
  <2> HIDE DEF R
  <2>4. Cardinality(After(T, from, p)) = Cardinality(R) + 1 /\ Cardinality(R) \in Nat
    BY <1>7, <2>1
  <2>5. Back(d + 1, Cardinality(R) + 1) = Back(d, Cardinality(R))
    BY <1>2, <2>4 DEF Back
  <2> QED
    BY <2>2, <2>3, <2>4, <2>5
<1>10. c[to].pointer = Back(d + 1, Cardinality(After(T, from, to)))
  <2>1. After(T, from, to) = {to}
    BY <1>1, <1>4, <1>5, <1>6 DEF After
  <2>2. Cardinality({to}) = 1
    BY FS_Singleton
  <2>3. Back(d + 1, 1) = d
    BY <1>2 DEF Back
  <2> QED
    BY <1>1, <2>1, <2>2, <2>3
<1>11. Points(T, c, from, d + 1)
  BY <1>5, <1>9, <1>10 DEF Points
<1> QED
  BY <1>8, <1>11 DEF S, T

-----------------------------------------------------------------------------
(* The inductive invariant *)

CommandEntry == [data : Command \cup {0}, type : {"None", "Command", "Link"}, cycle : BOOLEAN]

RingTypes ==
  /\ buf_ \in [Index -> CommandEntry]
  /\ cycle_bit_ \in BOOLEAN /\ write_index_ \in 0..Last
  /\ ebuf_ \in [EventIndex -> [pointer : -1..(Last - 1), cycle : BOOLEAN]]
  /\ ecycle_bit_ \in BOOLEAN /\ ERDP \in EventIndex
  /\ dequeue \in 0..Last /\ ccs \in BOOLEAN
  /\ enqueue \in EventIndex /\ pcs \in BOOLEAN
  /\ pc \in {"HasFront", "OnEvent", "PushControl", "LinkData", "LinkControl", "Doorbell", "Pop"}

\* The driver is at most a lap ahead, and the cycle bits tell how far it is.
CommandLap ==
  /\ IF ccs = cycle_bit_ THEN dequeue <= write_index_ ELSE write_index_ < dequeue
  /\ \A i \in Index : buf_[i].cycle = IF i < write_index_ THEN cycle_bit_ ELSE ~cycle_bit_

\* The link is the last entry and complete before the controller comes to it.
Linked ==
  /\ pc \in {"LinkData", "LinkControl"} <=> write_index_ = Last
  /\ pc = "LinkControl" => buf_[Last].data = 0
  /\ pc = "PushControl" => buf_[write_index_].data \in Command
  /\ \A i \in 0..(Last - 1) : buf_[i].type # "Link"
  /\ ccs # cycle_bit_ => buf_[Last].type = "Link" /\ buf_[Last].data = 0

\* The same of the controller and the event ring.
EventLap ==
  /\ IF pcs = ecycle_bit_ THEN ERDP <= enqueue ELSE enqueue < ERDP
  /\ \A i \in EventIndex : ebuf_[i].cycle = IF i < enqueue THEN pcs ELSE ~pcs
  /\ pc # "HasFront" => enqueue # ERDP

Looked == IF pc = "HasFront" THEN 0 ELSE 1

Held == Unseen(ebuf_, ERDP, enqueue, Looked)

\* The events still to be looked at are about the commands taken last.
Holding ==
  /\ Points(Held, ebuf_, ERDP, dequeue)
  /\ Pending + Cardinality(Held) <= MaxUnderWay
  /\ pc = "PushControl" => Pending + Cardinality(Held) < MaxUnderWay

RingInv == RingTypes /\ CommandLap /\ Linked /\ EventLap /\ Holding

LEMMA RingInitHolds ==
  ASSUME RingInit
  PROVE  RingInv /\ AskedCommands = << >>
<1> USE DEF RingInit
<1>1. RingTypes
  BY Sizes DEF RingTypes, CommandEntry, Index, EventIndex
<1>2. CommandLap /\ Linked /\ EventLap
  <2>1. CommandLap
    <3>1. \A i \in Index : ~(i < write_index_) /\ buf_[i].cycle = FALSE
      BY Sizes
    <3>2. cycle_bit_ = TRUE /\ ccs = TRUE /\ dequeue <= write_index_
      OBVIOUS
    <3> QED
      BY ONLY <3>1, <3>2 DEF CommandLap
  <2>2. EventLap
    <3>1. \A i \in EventIndex : ~(i < enqueue) /\ ebuf_[i].cycle = FALSE
      BY Sizes DEF EventIndex
    <3>2. ecycle_bit_ = TRUE /\ pcs = TRUE /\ pc = "HasFront" /\ ERDP <= enqueue
      OBVIOUS
    <3> QED
      BY ONLY <3>1, <3>2 DEF EventLap
  <2> QED
    BY <2>1, <2>2, Sizes DEF Linked
<1>3. Held = {} /\ Unread = {}
  BY DEF Held, Looked, Unseen, Unread
<1>4. Pending + Cardinality(Held) = 0 /\ UnderWay = 0
  <2>1. Cardinality({}) = 0
    BY FS_EmptySet
  <2>2. Pending = 0
    BY DEF Pending
  <2>3. Untaken = 0
    <3>1. 0 % (buf_size_ - 1) = 0
      BY Sizes, ModLap DEF Last
    <3> QED
      BY <3>1 DEF Untaken
  <2> QED
    BY <1>3, <2>1, <2>2, <2>3 DEF UnderWay
<1>5. Holding
  BY <1>3, <1>4, Sizes DEF Holding, Points
<1>6. AskedCommands = << >>
  <2>1. AskedCommands = [k \in 1..0 |-> buf_[(write_index_ - UnderWay + k - 1) % (buf_size_ - 1)].data]
    BY <1>4 DEF AskedCommands
  <2> QED
    BY <2>1
<1> QED
  BY <1>1, <1>2, <1>5, <1>6 DEF RingInv

LEMMA LinkReached ==
  ASSUME RingInv, FollowLink
  PROVE  dequeue = Last /\ ccs # cycle_bit_ /\ write_index_ < dequeue /\ buf_[Last].data = 0
<1> USE DEF RingInv, RingTypes, CommandEntry
<1>s. Last \in Nat /\ Index = 0..Last
  BY Sizes
<1>1. dequeue = Last
  BY <1>s DEF FollowLink, Linked
<1>2. ASSUME ccs = cycle_bit_ PROVE FALSE
  <2>1. ~(dequeue < write_index_)
    BY <1>1, <1>s
  <2>2. buf_[dequeue].cycle = ~cycle_bit_
    BY <1>1, <2>1, <1>s DEF CommandLap
  <2> QED
    BY <1>2, <2>2 DEF FollowLink, Valid
<1> QED
  BY <1>1, <1>2 DEF CommandLap, Linked

LEMMA CommandReached ==
  ASSUME RingInv, CarryOut
  PROVE  dequeue # Last /\ IF ccs = cycle_bit_ THEN dequeue < write_index_ ELSE write_index_ < dequeue
<1> USE DEF RingInv, RingTypes, CommandEntry
<1>s. Last \in Nat /\ Index = 0..Last
  BY Sizes
<1>1. CASE ccs = cycle_bit_
  <2>1. dequeue < write_index_
    <3> SUFFICES ASSUME ~(dequeue < write_index_) PROVE FALSE
      BY <1>s
    <3>1. buf_[dequeue].cycle = ~cycle_bit_
      BY <1>s DEF CommandLap
    <3> QED
      BY <1>1, <3>1 DEF CarryOut, Valid
  <2> QED
    BY <1>1, <1>s, <2>1
<1>2. CASE ccs # cycle_bit_
  BY <1>2, <1>s DEF CarryOut, Linked, CommandLap
<1> QED
  BY <1>1, <1>2

LEMMA ControlTyped ==
  ASSUME NEW I, NEW D, NEW T, NEW b \in [I -> [data : D, type : T, cycle : BOOLEAN]],
         NEW w, NEW x \in T, NEW y \in BOOLEAN
  PROVE  [b EXCEPT ![w].type = x, ![w].cycle = y] \in [I -> [data : D, type : T, cycle : BOOLEAN]]
  OBVIOUS

LEMMA TypesKept ==
  ASSUME RingInv, [RingNext]_ringVars
  PROVE  RingTypes'
<1> USE DEF RingInv, RingTypes, CommandEntry
<1>s. Last \in Nat /\ Index = 0..Last /\ event_size \in Nat /\ event_size >= 2
  BY Sizes
<1>w. ASSUME NEW x \in -1..(Last - 1), WriteEvent(x)
      PROVE  /\ ebuf_' \in [EventIndex -> [pointer : -1..(Last - 1), cycle : BOOLEAN]]
             /\ enqueue' \in EventIndex /\ pcs' \in BOOLEAN
  BY <1>w, NextIsMod DEF WriteEvent
<1>v. ASSUME NEW x \in {"None", "Command", "Link"}, CopyControl(x)
      PROVE  buf_' \in [Index -> CommandEntry]
  <2> DEFINE T == {"None", "Command", "Link"}
             D == Command \cup {0}
  <2>1. x \in T /\ buf_ \in [Index -> [data : D, type : T, cycle : BOOLEAN]]
    OBVIOUS
  <2> HIDE DEF T, D
  <2>2. buf_' = [buf_ EXCEPT ![write_index_].type = x, ![write_index_].cycle = cycle_bit_]
    BY <1>v DEF CopyControl
  <2>3. [buf_ EXCEPT ![write_index_].type = x, ![write_index_].cycle = cycle_bit_]
          \in [Index -> [data : D, type : T, cycle : BOOLEAN]]
    BY <2>1, ControlTyped
  <2> QED
    BY <2>2, <2>3 DEF T, D
<1>1. ASSUME NEW c \in Command, PushData(c) PROVE RingTypes'
  BY <1>1 DEF PushData, CopyData, eventRing, reader, writer
<1>2. CASE PushControl
  <2>1. pc = "PushControl" /\ write_index_ # Last
    BY <1>2 DEF PushControl, Linked
  <2>2. write_index_ + 1 \in 0..Last
    BY <2>1, <1>s
  <2>3. CopyControl("Command")
    BY <1>2 DEF PushControl
  <2>4. buf_' \in [Index -> CommandEntry]
    BY <1>v, <2>3
  <2> QED
    BY <1>2, <2>2, <2>4 DEF PushControl, eventRing, reader, writer
<1>3. CASE PushLinkData
  BY <1>3 DEF PushLinkData, CopyData, eventRing, reader, writer
<1>4. CASE PushLinkControl
  <2>1. write_index_' \in 0..Last /\ cycle_bit_' \in BOOLEAN
    BY <1>4, <1>s DEF PushLinkControl
  <2>2. buf_' \in [Index -> CommandEntry]
    <3>1. CopyControl("Link")
      BY <1>4 DEF PushLinkControl
    <3> QED
      BY <1>v, <3>1
  <2> QED
    BY <1>4, <2>1, <2>2 DEF PushLinkControl, eventRing, reader, writer
<1>5. CASE Doorbell
  BY <1>5 DEF Doorbell, commandRing, eventRing, writer
<1>6. CASE Front
  BY <1>6 DEF Front, commandRing, eventRing, reader, writer
<1>7. CASE NoPush
  BY <1>7 DEF NoPush, commandRing, eventRing, reader, writer
<1>8. CASE Pop
  <2>1. ERDP' = NextSlot(ERDP) /\ ecycle_bit_' \in BOOLEAN
    BY <1>8 DEF Pop, NextSlot
  <2>2. ERDP' \in EventIndex
    BY <2>1, NextIsMod
  <2> QED
    BY <1>8, <2>1, <2>2 DEF Pop, commandRing, reader, writer
<1>9. CASE FollowLink
  <2>1. dequeue = Last /\ ccs # cycle_bit_
    BY <1>9, LinkReached
  <2>2. dequeue' = 0 /\ dequeue' \in 0..Last
    BY <1>9, <2>1, <1>s DEF FollowLink, Linked
  <2> QED
    BY <1>9, <2>2 DEF FollowLink, commandRing, eventRing, writer
<1>10. CASE CarryOut
  <2>1. dequeue # Last
    BY <1>10, CommandReached
  <2>2. dequeue \in -1..(Last - 1) /\ dequeue + 1 \in 0..Last
    BY <2>1, <1>s
  <2>3. WriteEvent(dequeue)
    BY <1>10 DEF CarryOut
  <2> QED
    BY <1>10, <1>w, <2>2, <2>3 DEF CarryOut, commandRing
<1>11. CASE Stop
  BY <1>11 DEF Stop, commandRing, eventRing, writer
<1>12. CASE ReportPort
  <2>1. -1 \in -1..(Last - 1) /\ WriteEvent(-1)
    BY <1>12, <1>s DEF ReportPort
  <2> QED
    BY <1>12, <1>w, <2>1 DEF ReportPort, commandRing, reader
<1>13. CASE UNCHANGED ringVars
  BY <1>13 DEF ringVars, commandRing, eventRing, reader, writer
<1> QED
  BY <1>1, <1>2, <1>3, <1>4, <1>5, <1>6, <1>7, <1>8, <1>9, <1>10, <1>11, <1>12, <1>13
  DEF RingNext, Driver, Push, Controller

LEMMA HeldFinite ==
  Held \subseteq EventIndex /\ IsFiniteSet(Held) /\ Cardinality(Held) \in Nat
<1>1. Held \subseteq EventIndex
  BY DEF Held, Unseen
<1> QED
  BY <1>1, SlotsFinite

LEMMA PendingBounded ==
  ASSUME RingInv
  PROVE  /\ Pending \in Nat /\ Pending <= Last - 1
         /\ pc = "PushControl" => Pending < Last - 1
<1>1. Pending \in Nat
  BY Sizes DEF RingInv, RingTypes, CommandEntry, CommandLap, Pending
<1> QED
  BY <1>1, HeldFinite, Sizes DEF RingInv, Holding

\* What is left of the laps once the cycle bits are put aside.
LEMMA CommandLapKept ==
  ASSUME RingInv, [RingNext]_ringVars
  PROVE  CommandLap'
<1> USE DEF RingInv, RingTypes, CommandEntry
<1>s. Last \in Nat /\ Index = 0..Last /\ Last >= 2
  BY Sizes
<1> DEFINE Order == IF ccs = cycle_bit_ THEN dequeue <= write_index_ ELSE write_index_ < dequeue
           Cycles == \A i \in Index : buf_[i].cycle = IF i < write_index_ THEN cycle_bit_ ELSE ~cycle_bit_
<1>l. Order /\ Cycles
  BY DEF CommandLap
<1>c. ASSUME \A i \in Index : buf_'[i].cycle = buf_[i].cycle, UNCHANGED <<cycle_bit_, write_index_>>
      PROVE  Cycles'
  BY <1>l, <1>c
<1>o. ASSUME UNCHANGED <<cycle_bit_, write_index_, dequeue, ccs>>
      PROVE  Order'
  BY <1>l, <1>o
<1>u. ASSUME UNCHANGED commandRing PROVE Cycles'
  BY <1>l, <1>u DEF commandRing
<1> SUFFICES Order' /\ Cycles'
  BY DEF CommandLap
<1> HIDE DEF Order, Cycles
<1>1. ASSUME NEW c \in Command, PushData(c) PROVE Order' /\ Cycles'
  <2>1. \A i \in Index : buf_'[i].cycle = buf_[i].cycle
    BY <1>1 DEF PushData, CopyData
  <2> QED
    BY <1>1, <1>c, <1>o, <2>1 DEF PushData, reader
<1>2. CASE PushControl
  <2>1. Order'
    <3>1. UNCHANGED <<cycle_bit_, dequeue, ccs>> /\ write_index_' = write_index_ + 1 /\ pc = "PushControl"
      BY <1>2 DEF PushControl, reader
    <3>2. ccs # cycle_bit_ => write_index_ + 1 < dequeue
      BY <1>s, <3>1, PendingBounded DEF Pending
    <3> QED
      BY <1>l, <1>s, <3>1, <3>2 DEF Order
  <2>2. Cycles'
    <3>1. write_index_' = write_index_ + 1 /\ write_index_ \in Index /\ cycle_bit_' = cycle_bit_
      BY <1>2, <1>s DEF PushControl
    <3>2. ASSUME NEW i \in Index, i # write_index_
          PROVE  buf_'[i].cycle = buf_[i].cycle /\ (i < write_index_ + 1 <=> i < write_index_)
      BY <1>2, <1>s, <3>2 DEF PushControl, CopyControl
    <3>3. buf_'[write_index_].cycle = cycle_bit_ /\ write_index_ < write_index_ + 1
      BY <1>2, <1>s, <3>1 DEF PushControl, CopyControl
    <3> QED
      BY <1>l, <3>1, <3>2, <3>3 DEF Cycles
  <2> QED
    BY <2>1, <2>2
<1>3. CASE PushLinkData
  <2>1. \A i \in Index : buf_'[i].cycle = buf_[i].cycle
    BY <1>3 DEF PushLinkData, CopyData
  <2> QED
    BY <1>3, <1>c, <1>o, <2>1 DEF PushLinkData, reader
<1>4. CASE PushLinkControl
  <2>1. write_index_ = Last /\ write_index_' = 0 /\ UNCHANGED <<dequeue, ccs>>
    BY <1>4 DEF PushLinkControl, Linked, reader
  <2>2. cycle_bit_' = ~cycle_bit_
    BY <1>4 DEF PushLinkControl
  <2>3. ccs = cycle_bit_ /\ 0 < dequeue /\ ~(write_index_ < dequeue)
    <3>1. ccs = cycle_bit_ /\ ~(write_index_ < dequeue)
      BY <1>l, <1>s, <2>1 DEF Order
    <3> QED
      BY <3>1, <1>s, <2>1, PendingBounded DEF Pending
  <2>4. Order'
    BY <2>1, <2>2, <2>3 DEF Order
  <2>5. ASSUME NEW i \in Index PROVE buf_'[i].cycle = cycle_bit_ /\ ~(i < 0)
    BY <1>4, <1>l, <1>s, <2>1 DEF PushLinkControl, CopyControl, Cycles
  <2>6. Cycles'
    BY <2>1, <2>2, <2>5 DEF Cycles
  <2> QED
    BY <2>4, <2>6
<1>5. CASE Doorbell
  BY <1>5, <1>u, <1>o DEF Doorbell, commandRing
<1>6. CASE Front
  BY <1>6, <1>u, <1>o DEF Front, commandRing, reader
<1>7. CASE NoPush
  BY <1>7, <1>u, <1>o DEF NoPush, commandRing, reader
<1>8. CASE Pop
  BY <1>8, <1>u, <1>o DEF Pop, commandRing, reader
<1>9. CASE FollowLink
  <2>1. UNCHANGED commandRing /\ dequeue' = 0
    BY <1>9, LinkReached DEF FollowLink
  <2>2. ccs' = cycle_bit_
    BY <1>9, LinkReached DEF FollowLink
  <2>3. Order'
    BY <1>s, <2>1, <2>2 DEF commandRing, Order
  <2> QED
    BY <1>u, <2>1, <2>3
<1>10. CASE CarryOut
  <2>1. UNCHANGED commandRing /\ ccs' = ccs /\ dequeue' = dequeue + 1
    BY <1>10 DEF CarryOut
  <2>2. Order'
    BY <1>10, <1>s, <2>1, CommandReached DEF commandRing, Order
  <2> QED
    BY <1>u, <2>1, <2>2
<1>11. CASE Stop
  BY <1>11, <1>u, <1>o DEF Stop, commandRing
<1>12. CASE ReportPort
  BY <1>12, <1>u, <1>o DEF ReportPort, commandRing, reader
<1>13. CASE UNCHANGED ringVars
  BY <1>13, <1>u, <1>o DEF ringVars, commandRing, reader
<1> QED
  BY <1>1, <1>2, <1>3, <1>4, <1>5, <1>6, <1>7, <1>8, <1>9, <1>10, <1>11, <1>12, <1>13
  DEF RingNext, Driver, Push, Controller

LEMMA LinkedKept ==
  ASSUME RingInv, [RingNext]_ringVars
  PROVE  Linked'
<1> USE DEF RingInv, RingTypes, CommandEntry
<1>s. Last \in Nat /\ Index = 0..Last /\ Last >= 2
  BY Sizes
<1> DEFINE Links(b) == /\ \A i \in 0..(Last - 1) : b[i].type # "Link"
                       /\ ccs # cycle_bit_ => b[Last].type = "Link" /\ b[Last].data = 0
<1>l. Links(buf_)
  BY DEF Linked
<1>k. ASSUME commandRing' = commandRing, ccs' = ccs, pc' = pc PROVE Linked'
  BY <1>k DEF Linked, commandRing
<1>m. ASSUME commandRing' = commandRing, ccs' = ccs, pc # "LinkData", pc # "LinkControl",
             pc' \in {"HasFront", "OnEvent", "Doorbell", "Pop"} PROVE Linked'
  BY <1>m DEF Linked, commandRing
<1>1. ASSUME NEW c \in Command, PushData(c) PROVE Linked'
  <2>1. /\ pc = "OnEvent" /\ pc' = "PushControl" /\ write_index_ # Last /\ write_index_ \in Index
        /\ buf_' = [buf_ EXCEPT ![write_index_].data = c]
        /\ UNCHANGED <<cycle_bit_, write_index_, ccs>>
    BY <1>1, <1>s DEF PushData, CopyData, reader, Linked
  <2>2. \A i \in Index : buf_'[i].type = buf_[i].type
    BY <2>1
  <2>3. buf_'[Last] = buf_[Last] /\ buf_'[write_index_].data = c
    BY <1>s, <2>1
  <2> QED
    BY <1>s, <1>l, <2>1, <2>2, <2>3 DEF Linked
<1>2. CASE PushControl
  <2>1. /\ pc = "PushControl" /\ write_index_ # Last /\ write_index_ \in Index
        /\ write_index_' = write_index_ + 1
        /\ pc' = IF write_index_ + 1 = Last THEN "LinkData" ELSE "Doorbell"
        /\ UNCHANGED <<cycle_bit_, ccs>>
    BY <1>2, <1>s DEF PushControl, reader, Linked, Last
  <2>2. /\ \A i \in Index : i # write_index_ => buf_'[i] = buf_[i]
        /\ buf_'[write_index_].type = "Command"
    BY <1>2, <2>1 DEF PushControl, CopyControl
  <2>3. \A i \in 0..(Last - 1) : buf_'[i].type # "Link"
    BY <1>s, <1>l, <2>2
  <2>4. buf_'[Last] = buf_[Last]
    BY <1>s, <2>1, <2>2
  <2>5. pc' \in {"LinkData", "LinkControl"} <=> write_index_' = Last
    BY <2>1
  <2>6. pc' # "LinkControl" /\ pc' # "PushControl"
    BY <2>1
  <2> QED
    BY <1>l, <2>1, <2>3, <2>4, <2>5, <2>6 DEF Linked
<1>3. CASE PushLinkData
  <2>1. /\ pc = "LinkData" /\ pc' = "LinkControl" /\ write_index_ = Last
        /\ buf_' = [buf_ EXCEPT ![Last].data = 0]
        /\ UNCHANGED <<cycle_bit_, write_index_, ccs>>
    BY <1>3, <1>s DEF PushLinkData, CopyData, reader, Linked
  <2>2. \A i \in Index : buf_'[i].type = buf_[i].type
    BY <2>1
  <2>3. buf_'[Last].data = 0
    BY <1>s, <2>1
  <2> QED
    BY <1>s, <1>l, <2>1, <2>2, <2>3 DEF Linked
<1>4. CASE PushLinkControl
  <2>1. /\ pc = "LinkControl" /\ pc' = "Doorbell" /\ write_index_ = Last /\ write_index_' = 0
        /\ buf_[Last].data = 0
    BY <1>4 DEF PushLinkControl, Linked
  <2>2. /\ \A i \in Index : i # Last => buf_'[i] = buf_[i]
        /\ buf_'[Last].type = "Link" /\ buf_'[Last].data = buf_[Last].data
    BY <1>4, <1>s, <2>1 DEF PushLinkControl, CopyControl
  <2> QED
    BY <1>s, <1>l, <2>1, <2>2 DEF Linked
<1>5. CASE Doorbell
  BY <1>5, <1>m DEF Doorbell
<1>6. CASE Front
  BY <1>6, <1>m DEF Front, reader
<1>7. CASE NoPush
  BY <1>7, <1>m DEF NoPush, reader
<1>8. CASE Pop
  BY <1>8, <1>m DEF Pop, reader
<1>9. CASE FollowLink
  <2>1. commandRing' = commandRing /\ pc' = pc
    BY <1>9 DEF FollowLink
  <2>2. ccs' = cycle_bit_
    BY <1>9, LinkReached DEF FollowLink
  <2> QED
    BY <2>1, <2>2 DEF Linked, commandRing
<1>10. CASE CarryOut
  BY <1>10, <1>k DEF CarryOut
<1>11. CASE Stop
  BY <1>11, <1>k DEF Stop
<1>12. CASE ReportPort
  BY <1>12, <1>k DEF ReportPort, reader
<1>13. CASE UNCHANGED ringVars
  BY <1>13, <1>k DEF ringVars, reader
<1> QED
  BY <1>1, <1>2, <1>3, <1>4, <1>5, <1>6, <1>7, <1>8, <1>9, <1>10, <1>11, <1>12, <1>13
  DEF RingNext, Driver, Push, Controller

LEMMA EventLapKept ==
  ASSUME RingInv, [RingNext]_ringVars
  PROVE  EventLap'
<1> USE DEF RingInv, RingTypes, CommandEntry
<1>s. event_size \in Nat /\ event_size >= 2 /\ EventIndex = 0..(event_size - 1)
  BY Sizes DEF EventIndex
<1> DEFINE Order == IF pcs = ecycle_bit_ THEN ERDP <= enqueue ELSE enqueue < ERDP
           Cycles == \A i \in EventIndex : ebuf_[i].cycle = IF i < enqueue THEN pcs ELSE ~pcs
<1>l. Order /\ Cycles
  BY DEF EventLap
<1>k. ASSUME UNCHANGED eventRing, UNCHANGED writer, pc' # "HasFront" => enqueue # ERDP
      PROVE  EventLap'
  BY <1>k DEF EventLap, eventRing, writer
<1>c. ASSUME UNCHANGED <<ebuf_, enqueue, pcs>> PROVE Cycles'
  BY <1>l, <1>c
<1> HIDE DEF Order, Cycles
<1>w. ASSUME NEW x, WriteEvent(x), UNCHANGED <<ERDP, ecycle_bit_, pc>>
      PROVE  EventLap'
  <2>1. enqueue' = NextSlot(enqueue) /\ enqueue' # ERDP
    BY <1>w, NextIsMod DEF WriteEvent, Room
  <2>2. ebuf_'[enqueue].cycle = pcs /\ \A i \in EventIndex : i # enqueue => ebuf_'[i] = ebuf_[i]
    BY <1>w DEF WriteEvent
  <2>3. CASE enqueue + 1 = event_size
    <3>1. enqueue' = 0 /\ pcs' = ~pcs
      BY <1>w, <2>1, <2>3 DEF WriteEvent, NextSlot
    <3>2. pcs = ecycle_bit_ /\ 0 < ERDP /\ ~(enqueue < ERDP)
      BY <1>l, <1>s, <2>1, <2>3, <3>1 DEF Order
    <3>3. Order'
      BY <1>w, <3>1, <3>2 DEF Order
    <3>4. \A i \in EventIndex : ebuf_'[i].cycle = pcs /\ ~(i < 0)
      <4>1. \A i \in EventIndex : (i # enqueue => i < enqueue) /\ ~(i < 0)
        BY <1>s, <2>3
      <4> QED
        BY <1>l, <2>2, <4>1 DEF Cycles
    <3>5. Cycles'
      BY <3>1, <3>4 DEF Cycles
    <3> QED
      BY <1>w, <2>1, <3>3, <3>5 DEF EventLap, Order, Cycles
  <2>4. CASE enqueue + 1 # event_size
    <3>1. enqueue' = enqueue + 1 /\ pcs' = pcs
      BY <1>w, <2>1, <2>4 DEF WriteEvent, NextSlot
    <3>2. Order'
      BY <1>l, <1>s, <1>w, <2>1, <3>1 DEF Order
    <3>3. \A i \in EventIndex : i # enqueue => (i < enqueue + 1 <=> i < enqueue)
      BY <1>s
    <3>4. enqueue < enqueue + 1
      BY <1>s
    <3>5. Cycles'
      BY <1>l, <2>2, <3>1, <3>3, <3>4 DEF Cycles
    <3> QED
      BY <1>w, <2>1, <3>2, <3>5 DEF EventLap, Order, Cycles
  <2> QED
    BY <2>3, <2>4
<1>1. ASSUME NEW c \in Command, PushData(c) PROVE EventLap'
  BY <1>1, <1>k DEF PushData, EventLap
<1>2. CASE PushControl
  BY <1>2, <1>k DEF PushControl, EventLap
<1>3. CASE PushLinkData
  BY <1>3, <1>k DEF PushLinkData, EventLap
<1>4. CASE PushLinkControl
  BY <1>4, <1>k DEF PushLinkControl, EventLap
<1>5. CASE Doorbell
  BY <1>5, <1>k DEF Doorbell, EventLap
<1>6. CASE Front
  <2>1. UNCHANGED eventRing /\ UNCHANGED writer /\ HasFront
    BY <1>6 DEF Front
  <2>2. enqueue # ERDP
    <3> SUFFICES ASSUME enqueue = ERDP PROVE FALSE
      OBVIOUS
    <3>1. pcs = ecycle_bit_ /\ ~(ERDP < enqueue)
      BY <1>l, <1>s DEF Order
    <3>2. ebuf_[ERDP].cycle = ~pcs
      BY <1>l, <3>1 DEF Cycles
    <3> QED
      BY <2>1, <3>1, <3>2 DEF HasFront
  <2> QED
    BY <1>k, <2>1, <2>2
<1>7. CASE NoPush
  BY <1>7, <1>k DEF NoPush, EventLap
<1>8. CASE Pop
  <2>1. UNCHANGED <<ebuf_, enqueue, pcs>> /\ pc' = "HasFront" /\ enqueue # ERDP
    BY <1>8 DEF Pop, writer, EventLap
  <2>2. CASE ERDP + 1 = event_size
    <3>1. ERDP' = 0 /\ ecycle_bit_' = ~ecycle_bit_
      BY <1>8, <2>2 DEF Pop
    <3>2. pcs # ecycle_bit_ /\ 0 <= enqueue
      BY <1>l, <1>s, <2>1, <2>2 DEF Order
    <3>3. Order'
      BY <2>1, <3>1, <3>2 DEF Order
    <3> QED
      BY <1>c, <2>1, <3>3 DEF EventLap, Order, Cycles
  <2>3. CASE ERDP + 1 # event_size
    <3>1. ERDP' = ERDP + 1 /\ ecycle_bit_' = ecycle_bit_
      BY <1>8, <2>3 DEF Pop
    <3>2. Order'
      BY <1>l, <1>s, <2>1, <3>1 DEF Order
    <3> QED
      BY <1>c, <2>1, <3>2 DEF EventLap, Order, Cycles
  <2> QED
    BY <2>2, <2>3
<1>9. CASE FollowLink
  BY <1>9, <1>k DEF FollowLink, EventLap
<1>10. CASE CarryOut
  BY <1>10, <1>w DEF CarryOut
<1>11. CASE Stop
  BY <1>11, <1>k DEF Stop, EventLap
<1>12. CASE ReportPort
  BY <1>12, <1>w DEF ReportPort
<1>13. CASE UNCHANGED ringVars
  BY <1>13, <1>k DEF ringVars, EventLap
<1> QED
  BY <1>1, <1>2, <1>3, <1>4, <1>5, <1>6, <1>7, <1>8, <1>9, <1>10, <1>11, <1>12, <1>13
  DEF RingNext, Driver, Push, Controller

-----------------------------------------------------------------------------
(* The commands under way *)

\* The u commands before entry w, the oldest first.
Commands(b, w, u) == [k \in 1..u |-> b[Back(w, u - k + 1)].data]

\* The front is the first that is looked at.
LEMMA LookedUnseen ==
  ASSUME NEW from \in EventIndex, NEW to \in EventIndex,
         from # to, NEW b, NEW d,
         Points(Unseen(b, from, to, 0), b, from, d)
  PROVE  LET S == Unseen(b, from, to, 0)
             T == Unseen(b, from, to, 1)
         IN  /\ Points(T, b, from, d)
             /\ b[from].pointer = -1 => T = S
             /\ b[from].pointer # -1 => /\ b[from].pointer = Back(d, Cardinality(S))
                                        /\ Cardinality(S) = Cardinality(T) + 1
<1> DEFINE S == Unseen(b, from, to, 0)
           T == Unseen(b, from, to, 1)
<1>1. /\ \A p \in EventIndex : Ahead(from, p) \in Nat
      /\ \A p \in EventIndex : p # from => Ahead(from, p) # 0
      /\ Ahead(from, from) = 0
  BY AheadInRing, PoppedAhead
<1>2. \A p \in EventIndex : p # from => (p \in S <=> p \in T)
  BY <1>1 DEF Unseen
<1>3. from \notin T
  BY <1>1 DEF Unseen
<1>4. from \in S <=> b[from].pointer # -1
  BY <1>1 DEF Unseen
<1>5. S \subseteq EventIndex /\ T \subseteq EventIndex
  BY DEF Unseen
<1>6. \A p \in S : b[p].pointer = Back(d, Cardinality(After(S, from, p)))
  BY DEF Points
<1> HIDE DEF S, T
<1>7. \A p \in T : After(T, from, p) = After(S, from, p) /\ p \in S
  BY <1>1, <1>2, <1>3, <1>5 DEF After
<1>8. Points(T, b, from, d)
  BY <1>6, <1>7 DEF Points
<1>9. ASSUME b[from].pointer = -1 PROVE T = S
  BY <1>2, <1>3, <1>4, <1>5, <1>9
<1>10. ASSUME b[from].pointer # -1
       PROVE  b[from].pointer = Back(d, Cardinality(S)) /\ Cardinality(S) = Cardinality(T) + 1
  <2>1. S = T \cup {from}
    BY <1>2, <1>3, <1>4, <1>5, <1>10
  <2>2. After(S, from, from) = S
    BY <1>1, <1>5 DEF After
  <2>3. Cardinality(T \cup {from}) = Cardinality(T) + 1
    BY <1>3, <1>5, SlotsFinite, FS_AddElement
  <2> QED
    BY <1>4, <1>6, <1>10, <2>1, <2>2, <2>3
<1> QED
  BY <1>8, <1>9, <1>10 DEF S, T

LEMMA UnderWayNow ==
  RingInv => /\ UnderWay = Pending + Cardinality(Held)
             /\ UnderWay \in 0..(Last - 1)
             /\ AskedCommands = Commands(buf_, write_index_, UnderWay)
<1> SUFFICES ASSUME RingInv
             PROVE  /\ UnderWay = Pending + Cardinality(Held)
                    /\ UnderWay \in 0..(Last - 1)
                    /\ AskedCommands = Commands(buf_, write_index_, UnderWay)
  OBVIOUS
<1>s. Last \in Nat /\ Last >= 2 /\ MaxUnderWay \in Nat /\ MaxUnderWay <= Last - 1
  BY Sizes
<1>t. /\ ERDP \in EventIndex /\ enqueue \in EventIndex
      /\ write_index_ \in 0..Last /\ dequeue \in 0..Last
  BY DEF RingInv, RingTypes, CommandEntry
<1>1. Unread = Held
  <2>1. \A p \in EventIndex : (p - ERDP) % event_size = Ahead(ERDP, p)
    BY <1>t, AheadIsDistance
  <2>2. (enqueue - ERDP) % event_size = Ahead(ERDP, enqueue)
    BY <1>t, <2>1
  <2> QED
    BY <2>1, <2>2 DEF Unread, Held, Unseen, Looked
<1>2. Untaken = Pending
  <2>1. Pending \in 0..(Last - 1)
    BY <1>s, PendingBounded
  <2>2. write_index_ - dequeue \in Int /\ buf_size_ - 1 = Last
    BY <1>t DEF Last
  <2>3. CASE dequeue <= write_index_
    <3>1. ccs = cycle_bit_
      BY <1>t, <2>3 DEF RingInv, CommandLap
    <3>2. 0 <= write_index_ - dequeue /\ write_index_ - dequeue < Last /\ Pending = write_index_ - dequeue
      BY <1>t, <1>s, <2>1, <2>3, <3>1 DEF Pending
    <3> QED
      BY <1>s, <2>2, <3>2, ModLap DEF Untaken
  <2>4. CASE ~(dequeue <= write_index_)
    <3>1. ccs # cycle_bit_
      BY <1>t, <2>4 DEF RingInv, CommandLap
    <3>2. -Last <= write_index_ - dequeue /\ write_index_ - dequeue < 0
          /\ Pending = (write_index_ - dequeue) + Last
      BY <1>t, <1>s, <2>1, <2>4, <3>1 DEF Pending
    <3> QED
      BY <1>s, <2>2, <3>2, ModLap DEF Untaken
  <2> QED
    BY <2>3, <2>4
<1>3. UnderWay = Pending + Cardinality(Held)
  BY <1>1, <1>2 DEF UnderWay
<1>4. UnderWay \in 0..(Last - 1)
  BY <1>3, <1>s, PendingBounded, HeldFinite DEF RingInv, Holding
<1>5. AskedCommands = Commands(buf_, write_index_, UnderWay)
  <2> DEFINE u == UnderWay
  <2> HIDE DEF u
  <2>1. ASSUME NEW k \in 1..u
        PROVE  (write_index_ - u + k - 1) % (buf_size_ - 1) = Back(write_index_, u - k + 1)
    <3> DEFINE x == write_index_ - u + k - 1
    <3>1. x \in Int /\ -Last <= x /\ x < Last /\ u \in Nat /\ buf_size_ - 1 = Last
      BY <1>4, <1>s, <1>t DEF u, Last
    <3>2. Back(write_index_, u - k + 1) = IF x >= 0 THEN x ELSE x + Last
      BY <1>s, <1>t, <3>1 DEF Back
    <3> HIDE DEF x
    <3>3. x % Last = IF x >= 0 THEN x ELSE x + Last
      BY <1>s, <3>1, ModLap
    <3> QED
      BY <3>1, <3>2, <3>3 DEF x
  <2> QED
    BY <2>1 DEF AskedCommands, Commands, u
<1> QED
  BY <1>3, <1>4, <1>5

LEMMA UnderWayThen ==
  RingInv' => /\ UnderWay' = Pending' + Cardinality(Held)'
              /\ UnderWay' \in 0..(Last - 1)
              /\ AskedCommands' = Commands(buf_', write_index_', UnderWay')
<1>1. (RingInv => /\ UnderWay = Pending + Cardinality(Held)
             /\ UnderWay \in 0..(Last - 1)
             /\ AskedCommands = Commands(buf_, write_index_, UnderWay))'
  BY UnderWayNow, PTL
<1> QED
  BY <1>1

\* A command that is carried out was waiting, and its event is to be looked at.
LEMMA CarriedKeeps ==
  ASSUME RingInv, CarryOut
  PROVE  /\ Pending' = Pending - 1 /\ Cardinality(Held') = Cardinality(Held) + 1
         /\ Holding'
<1>s. Last \in Nat /\ Last >= 2 /\ MaxUnderWay \in Nat /\ MaxUnderWay <= Last - 1
  BY Sizes
<1>t. /\ ERDP \in EventIndex /\ enqueue \in EventIndex /\ DOMAIN ebuf_ = EventIndex
      /\ write_index_ \in 0..Last /\ dequeue \in 0..Last
      /\ Pending \in Nat /\ Cardinality(Held) \in Nat
  BY HeldFinite, PendingBounded DEF RingInv, RingTypes, CommandEntry
<1>h. /\ Points(Held, ebuf_, ERDP, dequeue)
      /\ Pending + Cardinality(Held) <= MaxUnderWay
      /\ pc = "PushControl" => Pending + Cardinality(Held) < MaxUnderWay
  BY DEF RingInv, Holding
<1>1. /\ WriteEvent(dequeue) /\ dequeue' = dequeue + 1 /\ UNCHANGED <<ccs, pc, ERDP>>
      /\ UNCHANGED commandRing /\ Looked' = Looked
  BY DEF CarryOut, Looked
<1>2. /\ dequeue \in 0..(Last - 1)
      /\ IF ccs = cycle_bit_ THEN dequeue < write_index_ ELSE write_index_ < dequeue
  BY <1>s, <1>t, CommandReached
<1>3. Pending' = Pending - 1 /\ Pending - 1 \in Nat
  BY <1>s, <1>t, <1>1, <1>2 DEF Pending, commandRing
<1>4. enqueue' = NextSlot(enqueue) /\ NextSlot(enqueue) # ERDP
  BY <1>t, <1>1, NextIsMod DEF WriteEvent, Room
<1>5. ebuf_' = [ebuf_ EXCEPT ![enqueue] = [pointer |-> dequeue, cycle |-> pcs]]
  BY <1>1 DEF WriteEvent
<1>6. Looked \in 0..1 /\ Looked <= Ahead(ERDP, enqueue)
  <2>1. Ahead(ERDP, enqueue) \in Nat
    BY <1>t, AheadInRing
  <2>2. pc # "HasFront" => Ahead(ERDP, enqueue) # 0
    BY <1>t, PoppedAhead DEF RingInv, EventLap
  <2> QED
    BY <2>1, <2>2 DEF Looked
<1>7. Held = Unseen(ebuf_, ERDP, enqueue, Looked) /\ Held' = Unseen(ebuf_', ERDP, NextSlot(enqueue), Looked)
  BY <1>1, <1>4 DEF Held
<1>8. Cardinality(Held) < Last
  BY <1>h, <1>s, <1>t
<1>9. Cardinality(Held') = Cardinality(Held) + 1 /\ Points(Held', ebuf_', ERDP, dequeue + 1)
  <2>1. ebuf_'[enqueue].pointer = dequeue /\ \A p \in EventIndex : p # enqueue => ebuf_'[p] = ebuf_[p]
    BY <1>t, <1>5
  <2>2. /\ Points(Unseen(ebuf_, ERDP, enqueue, Looked), ebuf_, ERDP, dequeue)
        /\ Cardinality(Unseen(ebuf_, ERDP, enqueue, Looked)) < Last
    BY <1>h, <1>7, <1>8
  <2>3. /\ Cardinality(Unseen(ebuf_', ERDP, NextSlot(enqueue), Looked))
           = Cardinality(Unseen(ebuf_, ERDP, enqueue, Looked)) + 1
        /\ Points(Unseen(ebuf_', ERDP, NextSlot(enqueue), Looked), ebuf_', ERDP, dequeue + 1)
    BY <1>t, <1>2, <1>4, <1>6, <2>1, <2>2, CarriedUnseen
  <2> QED
    BY <1>7, <2>3
<1> QED
  BY <1>h, <1>s, <1>t, <1>1, <1>3, <1>9 DEF Holding

LEMMA ReportedKeeps ==
  ASSUME RingInv, ReportPort
  PROVE  Held' = Held /\ Holding'
<1>s. Last \in Nat /\ Last >= 2 /\ MaxUnderWay \in Nat /\ MaxUnderWay <= Last - 1
  BY Sizes
<1>t. /\ ERDP \in EventIndex /\ enqueue \in EventIndex /\ DOMAIN ebuf_ = EventIndex
      /\ write_index_ \in 0..Last /\ dequeue \in 0..Last
      /\ Pending \in Nat /\ Cardinality(Held) \in Nat
  BY HeldFinite, PendingBounded DEF RingInv, RingTypes, CommandEntry
<1>h. /\ Points(Held, ebuf_, ERDP, dequeue)
      /\ Pending + Cardinality(Held) <= MaxUnderWay
      /\ pc = "PushControl" => Pending + Cardinality(Held) < MaxUnderWay
  BY DEF RingInv, Holding
<1>1. /\ WriteEvent(-1) /\ UNCHANGED <<dequeue, ccs, pc, ERDP>>
      /\ UNCHANGED commandRing /\ Looked' = Looked
  BY DEF ReportPort, Looked, reader
<1>2. enqueue' = NextSlot(enqueue) /\ NextSlot(enqueue) # ERDP
  BY <1>t, <1>1, NextIsMod DEF WriteEvent, Room
<1>3. ebuf_' = [ebuf_ EXCEPT ![enqueue] = [pointer |-> -1, cycle |-> pcs]]
  BY <1>1 DEF WriteEvent
<1>4. Looked \in 0..1
  BY DEF Looked
<1>5. Held = Unseen(ebuf_, ERDP, enqueue, Looked) /\ Held' = Unseen(ebuf_', ERDP, NextSlot(enqueue), Looked)
  BY <1>1, <1>2 DEF Held
<1>6. Held' = Held /\ \A p \in Held : ebuf_'[p] = ebuf_[p]
  <2>1. ebuf_'[enqueue].pointer = -1 /\ \A p \in EventIndex : p # enqueue => ebuf_'[p] = ebuf_[p]
    BY <1>t, <1>3
  <2>2. ERDP \in EventIndex /\ enqueue \in EventIndex
    BY <1>t
  <2>3. /\ Unseen(ebuf_', ERDP, NextSlot(enqueue), Looked) = Unseen(ebuf_, ERDP, enqueue, Looked)
        /\ \A p \in Unseen(ebuf_, ERDP, enqueue, Looked) : ebuf_'[p] = ebuf_[p]
    BY <1>2, <1>4, <2>1, <2>2, ReportedUnseen
  <2> QED
    BY <1>5, <2>3
<1>7. Pending' = Pending
  BY <1>1 DEF Pending, commandRing
<1>8. Points(Held', ebuf_', ERDP', dequeue')
  BY <1>h, <1>1, <1>6 DEF Points
<1> QED
  BY <1>h, <1>1, <1>6, <1>7, <1>8 DEF Holding

LEMMA HoldingKept ==
  ASSUME RingInv, [RingNext]_ringVars
  PROVE  Holding'
<1>s. Last \in Nat /\ Last >= 2 /\ MaxUnderWay \in Nat /\ MaxUnderWay <= Last - 1
  BY Sizes
<1>t. /\ ERDP \in EventIndex /\ enqueue \in EventIndex /\ DOMAIN ebuf_ = EventIndex
      /\ write_index_ \in 0..Last /\ dequeue \in 0..Last
      /\ Pending \in Nat /\ Cardinality(Held) \in Nat
  BY HeldFinite, PendingBounded DEF RingInv, RingTypes, CommandEntry
<1>h. /\ Points(Held, ebuf_, ERDP, dequeue)
      /\ Pending + Cardinality(Held) <= MaxUnderWay
      /\ pc = "PushControl" => Pending + Cardinality(Held) < MaxUnderWay
  BY DEF RingInv, Holding
<1>e. ASSUME UNCHANGED eventRing, UNCHANGED writer, Looked' = Looked
      PROVE  Held' = Held /\ ebuf_' = ebuf_ /\ ERDP' = ERDP
  BY <1>e DEF Held, eventRing, writer
<1>k. ASSUME UNCHANGED eventRing, UNCHANGED writer, Looked' = Looked, UNCHANGED dequeue,
             Pending' \in Nat, Pending' + Cardinality(Held) <= MaxUnderWay,
             pc' = "PushControl" => Pending' + Cardinality(Held) < MaxUnderWay
      PROVE  Holding'
  BY <1>e, <1>h, <1>k DEF Holding
<1>q. ASSUME UNCHANGED eventRing, UNCHANGED writer, Looked' = Looked,
             UNCHANGED <<dequeue, ccs, cycle_bit_, write_index_>>, pc' # "PushControl"
      PROVE  Holding'
  <2>1. Pending' = Pending
    BY <1>q DEF Pending
  <2> QED
    BY <1>h, <1>k, <1>q, <1>t, <2>1
<1>1. ASSUME NEW c \in Command, PushData(c) PROVE Holding'
  <2>1. Looked' = Looked /\ UnderWay < MaxUnderWay
    BY <1>1 DEF PushData, Looked
  <2>2. Pending' = Pending
    BY <1>1 DEF PushData, reader, Pending
  <2>3. Pending + Cardinality(Held) < MaxUnderWay
    BY <2>1, UnderWayNow
  <2> QED
    BY <1>1, <1>k, <1>s, <1>t, <1>h, <2>1, <2>2, <2>3 DEF PushData, reader
<1>2. CASE PushControl
  <2>1. /\ Looked' = Looked /\ pc = "PushControl" /\ pc' # "PushControl"
        /\ UNCHANGED eventRing /\ UNCHANGED writer
        /\ UNCHANGED <<dequeue, ccs, cycle_bit_>> /\ write_index_' = write_index_ + 1
    BY <1>2 DEF PushControl, Looked, reader
  <2>2. Pending' = Pending + 1
    BY <1>s, <1>t, <2>1 DEF Pending
  <2> QED
    BY <1>k, <1>s, <1>t, <1>h, <2>1, <2>2
<1>3. CASE PushLinkData
  BY <1>3, <1>q DEF PushLinkData, reader, Looked
<1>4. CASE PushLinkControl
  <2>1. /\ Looked' = Looked /\ pc' = "Doorbell" /\ write_index_ = Last /\ write_index_' = 0
        /\ UNCHANGED eventRing /\ UNCHANGED writer /\ UNCHANGED <<dequeue, ccs>>
    BY <1>4 DEF PushLinkControl, Looked, reader, RingInv, Linked
  <2>2. cycle_bit_' = ~cycle_bit_
    BY <1>4 DEF PushLinkControl
  <2>3. ccs = cycle_bit_
    BY <1>t, <2>1 DEF RingInv, CommandLap
  <2>4. ccs' # cycle_bit_'
    BY <2>1, <2>2, <2>3
  <2>5. Pending' = Pending
    BY <1>s, <1>t, <2>1, <2>3, <2>4 DEF Pending
  <2> QED
    BY <1>k, <1>t, <1>h, <2>1, <2>5
<1>5. CASE Doorbell
  BY <1>5, <1>q DEF Doorbell, commandRing, Looked
<1>6. CASE Front
  <2>1. /\ pc = "HasFront" /\ pc' = "OnEvent" /\ Looked = 0 /\ Looked' = 1
        /\ ebuf_' = ebuf_ /\ ERDP' = ERDP /\ enqueue' = enqueue /\ dequeue' = dequeue
        /\ Pending' = Pending
    BY <1>6 DEF Front, Looked, commandRing, eventRing, reader, writer, Pending
  <2>2. enqueue # ERDP
    <3>1. EventLap'
      BY EventLapKept
    <3> QED
      BY <2>1, <3>1 DEF EventLap
  <2>3. Held = Unseen(ebuf_, ERDP, enqueue, 0) /\ Held' = Unseen(ebuf_, ERDP, enqueue, 1)
    BY <2>1 DEF Held
  <2>4. /\ Points(Held', ebuf_, ERDP, dequeue)
        /\ Cardinality(Held') = Cardinality(Held) \/ Cardinality(Held) = Cardinality(Held') + 1
    BY <1>h, <1>t, <2>2, <2>3, LookedUnseen
  <2>5. Cardinality(Held') \in Nat
    BY <2>3, SlotsFinite DEF Unseen
  <2> QED
    BY <1>h, <1>s, <1>t, <2>1, <2>4, <2>5 DEF Holding
<1>7. CASE NoPush
  BY <1>7, <1>q DEF NoPush, commandRing, reader, Looked
<1>8. CASE Pop
  <2>1. /\ pc = "Pop" /\ pc' = "HasFront" /\ Looked = 1 /\ Looked' = 0 /\ ERDP' = NextSlot(ERDP)
        /\ ebuf_' = ebuf_ /\ enqueue' = enqueue /\ dequeue' = dequeue /\ Pending' = Pending
        /\ ERDP # enqueue
    BY <1>8
    DEF Pop, Looked, commandRing, reader, writer, Pending, NextSlot, RingInv, EventLap
  <2>2. Held = Unseen(ebuf_, ERDP, enqueue, 1) /\ Held' = Unseen(ebuf_, NextSlot(ERDP), enqueue, 0)
    BY <2>1 DEF Held
  <2>3. Held' = Held /\ Points(Held, ebuf_, NextSlot(ERDP), dequeue)
    BY <1>h, <1>t, <2>1, <2>2, PoppedUnseen
  <2> QED
    BY <1>h, <2>1, <2>3 DEF Holding
<1>9. CASE FollowLink
  <2>1. /\ dequeue = Last /\ dequeue' = 0 /\ ccs # cycle_bit_
        /\ UNCHANGED eventRing /\ UNCHANGED writer /\ Looked' = Looked /\ pc' = pc
        /\ UNCHANGED commandRing
    BY <1>9, LinkReached DEF FollowLink, Looked
  <2>2. ccs' = cycle_bit_'
    BY <1>9, <2>1, LinkReached DEF FollowLink, RingInv, RingTypes, CommandEntry, commandRing
  <2>3. Pending' = Pending
    BY <1>s, <1>t, <2>1, <2>2 DEF Pending, commandRing
  <2>4. Held' = Held /\ ebuf_' = ebuf_ /\ ERDP' = ERDP
    BY <1>e, <2>1
  <2>5. ASSUME NEW p \in Held PROVE ebuf_[p].pointer = Back(0, Cardinality(After(Held, ERDP, p)))
    <3> DEFINE R == After(Held, ERDP, p)
    <3>1. p \in EventIndex /\ R \subseteq Held
      BY HeldFinite DEF After
    <3>2. p \in R
      BY <1>t, <3>1, AheadInRing DEF After
    <3>3. ebuf_[p].pointer = Back(Last, Cardinality(R))
      BY <1>h, <2>1 DEF Points
    <3> HIDE DEF R
    <3>4. Cardinality(R) \in Nat /\ Cardinality(R) # 0 /\ Cardinality(R) <= Cardinality(Held)
      BY <3>1, <3>2, HeldFinite, FS_Subset, FS_CardinalityType, FS_EmptySet
    <3>5. Back(Last, Cardinality(R)) = Back(0, Cardinality(R))
      BY <1>h, <1>s, <1>t, <3>4 DEF Back
    <3> QED
      BY <3>3, <3>5 DEF R
  <2> QED
    BY <1>h, <2>1, <2>3, <2>4, <2>5 DEF Holding, Points
<1>10. CASE CarryOut
  BY <1>10, CarriedKeeps
<1>11. CASE Stop
  <2>1. pc' = pc /\ UNCHANGED commandRing
    BY <1>11 DEF Stop
  <2> QED
    BY <1>11, <1>h, <1>k, <1>t, <2>1 DEF Stop, commandRing, Looked, Pending
<1>12. CASE ReportPort
  BY <1>12, ReportedKeeps
<1>13. CASE UNCHANGED ringVars
  <2>1. UNCHANGED <<commandRing, eventRing, reader, writer, pc>>
    BY <1>13 DEF ringVars
  <2> QED
    BY <1>h, <1>k, <1>t, <2>1 DEF commandRing, reader, Looked, Pending
<1> QED
  BY <1>1, <1>2, <1>3, <1>4, <1>5, <1>6, <1>7, <1>8, <1>9, <1>10, <1>11, <1>12, <1>13
  DEF RingNext, Driver, Push, Controller

LEMMA EqualCommands ==
  ASSUME NEW b, NEW c, NEW v, NEW w, NEW u \in Nat,
         \A j \in 1..u : c[Back(v, j)].data = b[Back(w, j)].data
  PROVE  Commands(c, v, u) = Commands(b, w, u)
<1>1. \A k \in 1..u : u - k + 1 \in 1..u
  OBVIOUS
<1> QED
  BY <1>1 DEF Commands

LEMMA OneCommandMore ==
  ASSUME NEW b, NEW c, NEW w \in 0..(Last - 1), NEW u \in Nat, u + 1 <= Last - 1,
         \A i \in 0..Last : c[i].data = b[i].data
  PROVE  Commands(c, w + 1, u + 1) = Append(Commands(b, w, u), b[w].data)
<1>s. Last \in Nat
  BY Sizes
<1>1. ASSUME NEW j \in 1..(u + 1)
      PROVE  Back(w + 1, j) = IF j = 1 THEN w ELSE Back(w, j - 1)
  BY <1>s DEF Back
<1>2. ASSUME NEW j \in 1..(u + 1) PROVE Back(w + 1, j) \in 0..Last
  BY <1>s DEF Back
<1>3. ASSUME NEW k \in 1..(u + 1)
      PROVE  c[Back(w + 1, (u + 1) - k + 1)].data
                = IF k = u + 1 THEN b[w].data ELSE b[Back(w, u - k + 1)].data
  <2>1. (u + 1) - k + 1 \in 1..(u + 1) /\ ((u + 1) - k + 1) - 1 = u - k + 1
    OBVIOUS
  <2>2. c[Back(w + 1, (u + 1) - k + 1)].data = b[Back(w + 1, (u + 1) - k + 1)].data
    BY <1>2, <2>1
  <2>3. CASE k = u + 1
    <3>1. (u + 1) - k + 1 = 1
      BY <2>3
    <3> QED
      BY <1>1, <2>1, <2>2, <2>3, <3>1
  <2>4. CASE k # u + 1
    <3>1. (u + 1) - k + 1 # 1
      BY <2>4
    <3> QED
      BY <1>1, <2>1, <2>2, <2>4, <3>1
  <2> QED
    BY <2>3, <2>4
<1> DEFINE s == Commands(b, w, u)
           t == Commands(c, w + 1, u + 1)
           S == {b[i].data : i \in 0..Last}
<1>4. ASSUME NEW k \in 1..u PROVE u - k + 1 \in 1..(u + 1) /\ Back(w, u - k + 1) \in 0..Last
  BY <1>s DEF Back
<1>5. w \in 0..Last
  BY <1>s
<1>6. \A k \in 1..u : b[Back(w, u - k + 1)].data \in S
  BY <1>4
<1>7. \A k \in 1..(u + 1) : c[Back(w + 1, (u + 1) - k + 1)].data \in S
  <2>1. \A k \in 1..(u + 1) : (u + 1) - k + 1 \in 1..(u + 1)
    OBVIOUS
  <2> QED
    BY <1>2, <2>1
<1>8. b[w].data \in S
  BY <1>5
<1> HIDE DEF S
<1>9. s \in Seq(S) /\ Len(s) = u /\ \A k \in 1..u : s[k] = b[Back(w, u - k + 1)].data
  BY <1>6 DEF Commands
<1>10. /\ t \in Seq(S) /\ Len(t) = u + 1
       /\ \A k \in 1..(u + 1) : t[k] = c[Back(w + 1, (u + 1) - k + 1)].data
  BY <1>7 DEF Commands
<1> HIDE DEF s, t
<1>11. /\ Append(s, b[w].data) \in Seq(S) /\ Len(Append(s, b[w].data)) = u + 1
       /\ \A k \in 1..(u + 1) : Append(s, b[w].data)[k] = IF k = u + 1 THEN b[w].data ELSE s[k]
  <2>1. /\ Append(s, b[w].data) \in Seq(S) /\ Len(Append(s, b[w].data)) = Len(s) + 1
        /\ \A k \in 1..Len(s) : Append(s, b[w].data)[k] = s[k]
        /\ Append(s, b[w].data)[Len(s) + 1] = b[w].data
    BY <1>8, <1>9, AppendProperties
  <2> QED
    BY <1>9, <2>1
<1>12. ASSUME NEW k \in 1..(u + 1) PROVE t[k] = Append(s, b[w].data)[k]
  <2>1. t[k] = IF k = u + 1 THEN b[w].data ELSE b[Back(w, u - k + 1)].data
    BY <1>3, <1>10
  <2>2. Append(s, b[w].data)[k] = IF k = u + 1 THEN b[w].data ELSE s[k]
    BY <1>11
  <2>3. k # u + 1 => s[k] = b[Back(w, u - k + 1)].data
    <3>1. k # u + 1 => k \in 1..u
      OBVIOUS
    <3> QED
      BY <1>9, <3>1
  <2> QED
    BY <2>1, <2>2, <2>3
<1>13. t = Append(s, b[w].data)
  BY <1>10, <1>11, <1>12, SeqEqual
<1> QED
  BY <1>13 DEF s, t

LEMMA OneCommandLess ==
  ASSUME NEW b, NEW w, NEW u \in Nat, u > 0
  PROVE  /\ Commands(b, w, u) # << >>
         /\ Head(Commands(b, w, u)) = b[Back(w, u)].data
         /\ Tail(Commands(b, w, u)) = Commands(b, w, u - 1)
<1> DEFINE s == Commands(b, w, u)
           t == Commands(b, w, u - 1)
           S == {b[Back(w, j)].data : j \in 1..u}
<1>1. /\ \A k \in 1..u : u - k + 1 \in 1..u
      /\ \A k \in 1..(u - 1) : (u - 1) - k + 1 \in 1..u
      /\ \A k \in 1..(u - 1) : k + 1 \in 1..u /\ u - (k + 1) + 1 = (u - 1) - k + 1
      /\ u - 1 \in Nat /\ 1 \in 1..u /\ u - 1 + 1 = u
  OBVIOUS
<1>a. /\ \A k \in 1..u : b[Back(w, u - k + 1)].data \in S
      /\ \A k \in 1..(u - 1) : b[Back(w, (u - 1) - k + 1)].data \in S
  BY <1>1
<1> HIDE DEF S
<1>2. s \in Seq(S) /\ Len(s) = u /\ \A k \in 1..u : s[k] = b[Back(w, u - k + 1)].data
  BY <1>a DEF Commands
<1>3. t \in Seq(S) /\ Len(t) = u - 1 /\ \A k \in 1..(u - 1) : t[k] = b[Back(w, (u - 1) - k + 1)].data
  BY <1>1, <1>a DEF Commands
<1> HIDE DEF s, t
<1>4. s # << >> /\ Head(s) = s[1]
  BY <1>2
<1>5. Tail(s) \in Seq(S) /\ Len(Tail(s)) = u - 1 /\ \A k \in 1..(u - 1) : Tail(s)[k] = s[k + 1]
  BY <1>2, <1>4, HeadTailProperties
<1>6. ASSUME NEW k \in 1..(u - 1) PROVE Tail(s)[k] = t[k]
  <2>1. Tail(s)[k] = s[k + 1] /\ t[k] = b[Back(w, (u - 1) - k + 1)].data
    BY <1>3, <1>5
  <2>2. k + 1 \in 1..u /\ u - (k + 1) + 1 = (u - 1) - k + 1
    BY <1>1
  <2>3. s[k + 1] = b[Back(w, u - (k + 1) + 1)].data
    BY <1>2, <2>2
  <2> QED
    BY <2>1, <2>2, <2>3
<1>7. Tail(s) = t
  BY <1>3, <1>5, <1>6, SeqEqual
<1> QED
  BY <1>1, <1>2, <1>4, <1>7 DEF s, t

\* The command the controller has gone past by m is the same from either end.
LEMMA SameEntry ==
  ASSUME RingInv, NEW m \in Nat, m >= 1, Pending + m <= Last - 1
  PROVE  Back(write_index_, Pending + m) = Back(dequeue, m)
<1>1. /\ Last \in Nat /\ write_index_ \in 0..Last /\ dequeue \in 0..Last
      /\ IF ccs = cycle_bit_ THEN dequeue <= write_index_ ELSE write_index_ < dequeue
  BY Sizes DEF RingInv, RingTypes, CommandEntry, CommandLap
<1>2. CASE ccs = cycle_bit_
  BY <1>1, <1>2 DEF Back, Pending
<1>3. CASE ccs # cycle_bit_
  BY <1>1, <1>3 DEF Back, Pending
<1> QED
  BY <1>2, <1>3

-----------------------------------------------------------------------------
(* The refinement *)

LEMMA QueueStep ==
  ASSUME RingInv, RingInv', [RingNext]_ringVars
  PROVE  [Queue!Next]_(Queue!vars)
<1> DEFINE u == UnderWay
           w == write_index_
<1>s. Last \in Nat /\ Last >= 2 /\ Index = 0..Last
  BY Sizes
<1>t. /\ w \in 0..Last /\ DOMAIN buf_ = 0..Last
      /\ Pending \in Nat /\ Cardinality(Held) \in Nat
      /\ \A i \in 0..Last : DOMAIN buf_[i] = {"data", "type", "cycle"}
  BY Sizes, HeldFinite, PendingBounded DEF RingInv, RingTypes, CommandEntry
<1>a. u = Pending + Cardinality(Held) /\ u \in Nat /\ u <= Last - 1 /\ AskedCommands = Commands(buf_, w, u)
  <2>1. /\ UnderWay = Pending + Cardinality(Held) /\ UnderWay \in 0..(Last - 1)
        /\ AskedCommands = Commands(buf_, write_index_, UnderWay)
    BY UnderWayNow
  <2> QED
    BY <1>s, <2>1
<1>b. /\ u' = Pending' + Cardinality(Held)' /\ u' \in Nat /\ u' <= Last - 1
      /\ AskedCommands' = Commands(buf_', w', u')
  <2>1. /\ UnderWay' = Pending' + Cardinality(Held)' /\ UnderWay' \in 0..(Last - 1)
        /\ AskedCommands' = Commands(buf_', write_index_', UnderWay')
    BY UnderWayThen
  <2> QED
    BY <1>s, <2>1
<1> HIDE DEF u
<1>n. \A j \in 1..u : Back(w, j) \in 0..Last /\ Back(w, j) # w
  BY <1>s, <1>t, <1>a DEF Back
<1>q. ASSUME AskedCommands' = AskedCommands, UNCHANGED issuer PROVE UNCHANGED Queue!vars
  BY <1>q DEF Queue!vars
<1>k. ASSUME UNCHANGED commandRing, u' = u, UNCHANGED issuer PROVE UNCHANGED Queue!vars
  BY <1>a, <1>b, <1>k, <1>q DEF commandRing
<1>d. ASSUME UNCHANGED w, u' = u, UNCHANGED issuer,
             \A j \in 1..u : buf_'[Back(w, j)].data = buf_[Back(w, j)].data
      PROVE  UNCHANGED Queue!vars
  <2>1. Commands(buf_', w', u') = Commands(buf_, w, u)
    BY <1>a, <1>d, EqualCommands
  <2> QED
    BY <1>a, <1>b, <1>d, <1>q, <2>1
<1>e. ASSUME UNCHANGED Pending, UNCHANGED Held PROVE u' = u
  BY <1>a, <1>b, <1>e
<1>h. ASSUME UNCHANGED eventRing, UNCHANGED writer, Looked' = Looked PROVE UNCHANGED Held
  BY <1>h DEF Held, eventRing, writer
<1>1. ASSUME NEW c \in Command, PushData(c) PROVE UNCHANGED Queue!vars
  <2>1. /\ buf_' = [buf_ EXCEPT ![w].data = c] /\ UNCHANGED w /\ UNCHANGED issuer
        /\ UNCHANGED Pending /\ UNCHANGED Held
    BY <1>1, <1>h DEF PushData, CopyData, reader, Pending, Looked
  <2>2. \A j \in 1..u : buf_'[Back(w, j)].data = buf_[Back(w, j)].data
    BY <1>n, <1>t, <2>1
  <2> QED
    BY <1>d, <1>e, <2>1, <2>2
<1>2. CASE PushControl
  <2>1. /\ pc = "PushControl" /\ w # Last /\ w' = w + 1 /\ UNCHANGED issuer /\ UNCHANGED Held
        /\ UNCHANGED <<dequeue, ccs, cycle_bit_>>
    BY <1>2, <1>h DEF PushControl, reader, Looked, RingInv, Linked
  <2>2. Pending' = Pending + 1
    BY <1>s, <1>t, <2>1 DEF Pending, RingInv, RingTypes, CommandEntry
  <2>3. u' = u + 1 /\ w \in 0..(Last - 1)
    BY <1>a, <1>b, <1>s, <1>t, <2>1, <2>2
  <2>4. \A i \in 0..Last : buf_'[i].data = buf_[i].data
    BY <1>2, <1>t DEF PushControl, CopyControl
  <2>5. Commands(buf_', w + 1, u + 1) = Append(Commands(buf_, w, u), buf_[w].data)
    <3>1. w \in 0..(Last - 1) /\ u \in Nat /\ u + 1 <= Last - 1
      BY <1>a, <1>b, <2>3
    <3> HIDE DEF w
    <3> QED
      BY <2>4, <3>1, OneCommandMore
  <2>6. AskedCommands' = Append(AskedCommands, buf_[w].data)
    BY <1>a, <1>b, <2>1, <2>3, <2>5
  <2>7. buf_[w].data \in Command
    BY <2>1 DEF RingInv, Linked
  <2> QED
    BY <2>1, <2>6, <2>7 DEF Queue!Next, Queue!Ask
<1>3. CASE PushLinkData
  <2>1. /\ buf_' = [buf_ EXCEPT ![w].data = 0] /\ UNCHANGED w /\ UNCHANGED issuer
        /\ UNCHANGED Pending /\ UNCHANGED Held
    BY <1>3, <1>h DEF PushLinkData, CopyData, reader, Pending, Looked
  <2>2. \A j \in 1..u : buf_'[Back(w, j)].data = buf_[Back(w, j)].data
    BY <1>n, <1>t, <2>1
  <2> QED
    BY <1>d, <1>e, <2>1, <2>2
<1>4. CASE PushLinkControl
  <2>1. /\ w = Last /\ w' = 0 /\ UNCHANGED issuer /\ UNCHANGED Held /\ UNCHANGED <<dequeue, ccs>>
    BY <1>4, <1>h DEF PushLinkControl, reader, Looked, RingInv, Linked
  <2>2. cycle_bit_' = ~cycle_bit_
    BY <1>4 DEF PushLinkControl
  <2>3. ccs = cycle_bit_
    BY <1>s, <2>1 DEF RingInv, RingTypes, CommandEntry, CommandLap
  <2>4. ccs' # cycle_bit_'
    BY <2>1, <2>2, <2>3
  <2>5. Pending' = Pending
    BY <1>s, <2>1, <2>3, <2>4 DEF Pending, RingInv, RingTypes, CommandEntry
  <2>6. u' = u
    BY <1>e, <2>1, <2>5
  <2>7. \A i \in 0..Last : buf_'[i].data = buf_[i].data
    BY <1>4, <1>t DEF PushLinkControl, CopyControl
  <2>8. \A j \in 1..u : Back(0, j) = Back(Last, j) /\ Back(Last, j) \in 0..Last
    BY <1>a, <1>s DEF Back
  <2>9. Commands(buf_', 0, u) = Commands(buf_, Last, u)
    BY <1>a, <2>7, <2>8, EqualCommands
  <2> QED
    BY <1>a, <1>b, <1>q, <2>1, <2>6, <2>9
<1>5. CASE Doorbell
  BY <1>5, <1>e, <1>h, <1>k DEF Doorbell, Looked, commandRing, Pending
<1>6. CASE Front
  <2>1. /\ pc = "HasFront" /\ pc' = "OnEvent" /\ Looked = 0 /\ Looked' = 1
        /\ UNCHANGED commandRing /\ UNCHANGED <<ebuf_, ERDP, enqueue>>
        /\ UNCHANGED Pending /\ issuer' = ReadIssuer(ebuf_[ERDP].pointer)
    BY <1>6 DEF Front, Looked, commandRing, eventRing, reader, writer, Pending
  <2>2. enqueue # ERDP
    <3>1. EventLap'
      BY DEF RingInv
    <3> QED
      BY <2>1, <3>1 DEF EventLap
  <2>3. Held = Unseen(ebuf_, ERDP, enqueue, 0) /\ Held' = Unseen(ebuf_, ERDP, enqueue, 1)
    BY <2>1 DEF Held
  <2>4. /\ ebuf_[ERDP].pointer = -1 => Held' = Held
        /\ ebuf_[ERDP].pointer # -1 => /\ ebuf_[ERDP].pointer = Back(dequeue, Cardinality(Held))
                                       /\ Cardinality(Held) = Cardinality(Held') + 1
    <3>1. Points(Unseen(ebuf_, ERDP, enqueue, 0), ebuf_, ERDP, dequeue)
      BY <2>3 DEF RingInv, Holding
    <3>2. ERDP \in EventIndex /\ enqueue \in EventIndex
      BY DEF RingInv, RingTypes, CommandEntry
    <3> QED
      BY <2>2, <2>3, <3>1, <3>2, LookedUnseen
  <2>5. CASE ebuf_[ERDP].pointer = -1
    <3>1. u' = u
      BY <1>e, <2>1, <2>4, <2>5
    <3>2. AskedCommands' = AskedCommands
      BY <1>a, <1>b, <2>1, <3>1 DEF commandRing
    <3> QED
      BY <2>1, <2>5, <3>2 DEF ReadIssuer, Queue!Next, Queue!Other
  <2>6. CASE ebuf_[ERDP].pointer # -1
    <3> DEFINE m == Cardinality(Held)
    <3>1. m \in Nat /\ m >= 1 /\ u = Pending + m /\ u' = u - 1 /\ u > 0
      <4>1. Cardinality(Held') \in Nat
        BY <2>3, SlotsFinite DEF Unseen
      <4> QED
        BY <1>a, <1>b, <1>t, <2>1, <2>4, <2>6, <4>1
    <3>2. Back(w, u) = Back(dequeue, m)
      <4> HIDE DEF m
      <4> QED
        BY <1>a, <3>1, SameEntry
    <3>3. /\ AskedCommands # << >> /\ Head(AskedCommands) = buf_[Back(w, u)].data
          /\ Tail(AskedCommands) = Commands(buf_, w, u - 1)
      BY <1>a, <3>1, OneCommandLess
    <3>4. AskedCommands' = Tail(AskedCommands)
      BY <1>b, <2>1, <3>1, <3>3 DEF commandRing
    <3>5. issuer' = {Head(AskedCommands)}
      BY <2>1, <2>4, <2>6, <3>2, <3>3 DEF ReadIssuer
    <3> QED
      BY <3>3, <3>4, <3>5 DEF Queue!Next, Queue!Answer
  <2> QED
    BY <2>5, <2>6
<1>7. CASE NoPush
  BY <1>7, <1>e, <1>h, <1>k DEF NoPush, Looked, commandRing, reader, Pending
<1>8. CASE Pop
  <2>1. /\ pc = "Pop" /\ pc' = "HasFront" /\ Looked = 1 /\ Looked' = 0 /\ ERDP' = NextSlot(ERDP)
        /\ ebuf_' = ebuf_ /\ enqueue' = enqueue /\ UNCHANGED Pending /\ UNCHANGED issuer
        /\ UNCHANGED commandRing /\ ERDP # enqueue
    BY <1>8
    DEF Pop, Looked, commandRing, reader, writer, Pending, NextSlot, RingInv, EventLap
  <2>2. Held = Unseen(ebuf_, ERDP, enqueue, 1) /\ Held' = Unseen(ebuf_, NextSlot(ERDP), enqueue, 0)
    BY <2>1 DEF Held
  <2>3. Points(Unseen(ebuf_, ERDP, enqueue, 1), ebuf_, ERDP, dequeue)
    BY <2>2 DEF RingInv, Holding
  <2>4. ERDP \in EventIndex /\ enqueue \in EventIndex
    BY DEF RingInv, RingTypes, CommandEntry
  <2>5. Held' = Held
    BY <2>1, <2>2, <2>3, <2>4, PoppedUnseen
  <2> QED
    BY <1>e, <1>k, <2>1, <2>5
<1>9. CASE FollowLink
  <2>1. /\ dequeue = Last /\ dequeue' = 0 /\ ccs # cycle_bit_
        /\ UNCHANGED Held /\ UNCHANGED commandRing /\ UNCHANGED issuer
    BY <1>9, <1>h, LinkReached DEF FollowLink, Looked
  <2>2. ccs' = cycle_bit_'
    BY <1>9, <2>1, LinkReached DEF FollowLink, RingInv, RingTypes, CommandEntry, commandRing
  <2>3. Pending' = Pending
    BY <1>s, <1>t, <2>1, <2>2 DEF Pending, commandRing
  <2> QED
    BY <1>e, <1>k, <2>1, <2>3
<1>10. CASE CarryOut
  <2>1. UNCHANGED commandRing /\ UNCHANGED issuer /\ Looked' = Looked
    BY <1>10 DEF CarryOut, Looked
  <2>2. u' = u
    BY <1>10, <1>a, <1>b, <1>t, CarriedKeeps
  <2> QED
    BY <1>k, <2>1, <2>2
<1>11. CASE Stop
  BY <1>11, <1>e, <1>h, <1>k DEF Stop, Looked, commandRing, Pending
<1>12. CASE ReportPort
  <2>1. UNCHANGED commandRing /\ UNCHANGED issuer /\ UNCHANGED Pending
    BY <1>12 DEF ReportPort, reader, commandRing, Pending
  <2>2. UNCHANGED Held
    BY <1>12, ReportedKeeps
  <2> QED
    BY <1>e, <1>k, <2>1, <2>2
<1>13. CASE UNCHANGED ringVars
  <2>1. UNCHANGED <<commandRing, eventRing, reader, writer, pc, issuer>>
    BY <1>13 DEF ringVars
  <2> QED
    BY <1>e, <1>h, <1>k, <2>1 DEF commandRing, reader, Looked, Pending
<1> QED
  BY <1>1, <1>2, <1>3, <1>4, <1>5, <1>6, <1>7, <1>8, <1>9, <1>10, <1>11, <1>12, <1>13
  DEF RingNext, Driver, Push, Controller

\* However the driver and the controller interleave and however often the
\* rings of usb/xhci/ring.cpp wrap, the commands found through the events of
\* ProcessEvents are the ones pushed, each once and in that order.
THEOREM CommandsAnsweredInOrder == RingSpec => AnsweredInOrder
<1>1. RingInit => RingInv /\ Queue!Init
  BY RingInitHolds DEF Queue!Init, RingInit
<1>2. RingInv /\ [RingNext]_ringVars => RingInv'
  BY TypesKept, CommandLapKept, LinkedKept, EventLapKept, HoldingKept DEF RingInv
<1>3. RingInv /\ RingInv' /\ [RingNext]_ringVars => [Queue!Next]_(Queue!vars)
  BY QueueStep
<1> QED
  BY <1>1, <1>2, <1>3, PTL DEF RingSpec, AnsweredInOrder, Queue!Spec

=============================================================================
