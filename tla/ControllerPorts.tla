-------------------------- MODULE ControllerPorts --------------------------
(***************************************************************************)
(* The controllers of one emulator: the tree of nodes that the library     *)
(* keeps (Emulator::root), the devices that the core made for it           *)
(* (ControllerPort::device), and the button values that the page sends,    *)
(* which the library keeps by port name and a device reads when the game   *)
(* polls it.  The page connects, disconnects and sends whenever its        *)
(* gamepads do, also between two games, when the library still holds the   *)
(* tree of the game before.  A device is modelled with one button.         *)
(***************************************************************************)
EXTENDS Naturals

CONSTANTS
  Port,         \* the controller ports, by name
  FirstPort,    \* the one that Emulator::load() plugs a gamepad into
  Value,        \* the values of a button
  Unplugged     \* no device, no button map

VARIABLES
  root,         \* Emulator::root: never loaded, of a loaded game, of an unloaded one
  node,         \* node[p]: the port of that tree has a peripheral
  device,       \* ControllerPort::device
  buttonMap,    \* Emulator::buttonMaps: the value of the button of each port
  sent          \* history: the values sent to each port since its device was made

portVars == <<root, node, device, buttonMap, sent>>

\* tagged: its node has the attribute portName; inTree: its node is in the tree.
Gamepads == [tagged : BOOLEAN, inTree : BOOLEAN, button : Value]

ASSUME PortAssumption ==
  FirstPort \in Port /\ 0 \in Value /\ Unplugged \notin Value \cup Gamepads

\* Gamepad::Gamepad copies the attributes of the node it is made for and appends its own
\* node to ControllerPort::port, which is a null pointer once the game is unloaded.
NewGamepad(tagged) == [tagged |-> tagged, inTree |-> root = "live", button |-> 0]

-----------------------------------------------------------------------------
(* Games.                                                                  *)

\* System::load unloads a game that is loaded, and makes new ports; a device that a
\* port was given between the games is still there.
Left(p) == IF root = "live" THEN Unplugged ELSE device[p]

LoadPorts ==
  /\ root' = "live"
  /\ node' = [p \in Port |-> p = FirstPort]
  /\ device' = [p \in Port |-> IF p = FirstPort
                               THEN [tagged |-> FALSE, inTree |-> TRUE, button |-> 0] ELSE Left(p)]
  /\ sent' = [sent EXCEPT ![FirstPort] = {0}]
  /\ UNCHANGED buttonMap

\* ControllerPort::unload; the library keeps the tree and the button maps.
UnloadPorts ==
  /\ root = "live" /\ root' = "stale"
  /\ device' = [p \in Port |-> Unplugged]
  /\ UNCHANGED <<node, buttonMap, sent>>

-----------------------------------------------------------------------------
(* The page; before the first game it would follow a null pointer.         *)

\* buttonMaps.insert replaces the map that the port has; one that keeps it does not.
MapAfterConnect_Kept(p) == IF buttonMap[p] = Unplugged THEN 0 ELSE buttonMap[p]

MapAfterConnect(p) == 0

\* Port::connect takes the old peripheral out and attaches the new one; no device is
\* made, and no node appended, for a name that the core does not know.
Connect(p) ==
  /\ root # "none"
  /\ \E known \in BOOLEAN :
       /\ device' = [device EXCEPT ![p] = IF known THEN NewGamepad(TRUE) ELSE Unplugged]
       /\ node' = [node EXCEPT ![p] = known /\ root = "live"]
  /\ buttonMap' = [buttonMap EXCEPT ![p] = MapAfterConnect(p)]
  /\ sent' = [sent EXCEPT ![p] = {0}]
  /\ UNCHANGED root

\* Port::disconnect detaches only what it finds in the tree.
DeviceAfterDisconnect_Kept(p) == device[p]

DeviceAfterDisconnect(p) == IF node[p] THEN Unplugged ELSE device[p]

Disconnect(p) ==
  /\ root # "none"
  /\ device' = [device EXCEPT ![p] = DeviceAfterDisconnect(p)]
  /\ node' = [node EXCEPT ![p] = FALSE]
  /\ buttonMap' = [buttonMap EXCEPT ![p] = Unplugged]
  /\ UNCHANGED <<root, sent>>

SetButton(p, v) ==
  /\ buttonMap[p] # Unplugged
  /\ buttonMap' = [buttonMap EXCEPT ![p] = v]
  /\ sent' = [sent EXCEPT ![p] = @ \cup {v}]
  /\ UNCHANGED <<root, node, device>>

\* Gamepad::latch or data, and Emulator::input: a device whose node has no portName, or
\* whose port has no map, keeps the value it has.
Poll(p) ==
  /\ root = "live" /\ device[p] # Unplugged
  /\ device[p].tagged /\ buttonMap[p] # Unplugged
  /\ device' = [device EXCEPT ![p].button = buttonMap[p]]
  /\ UNCHANGED <<root, node, buttonMap, sent>>

-----------------------------------------------------------------------------
PortsInit ==
  /\ root = "none"
  /\ node = [p \in Port |-> FALSE]
  /\ device = [p \in Port |-> Unplugged]
  /\ buttonMap = [p \in Port |-> Unplugged]
  /\ sent = [p \in Port |-> {0}]

PortsNext ==
  \/ LoadPorts \/ UnloadPorts
  \/ \E p \in Port : Connect(p) \/ Disconnect(p) \/ Poll(p)
  \/ \E p \in Port, v \in Value : SetButton(p, v)

PortsSpec == PortsInit /\ [][PortsNext]_portVars

-----------------------------------------------------------------------------
(* Properties.                                                             *)

\* While a game is loaded, the tree that the library searches for ports and the devices
\* that the game polls agree, whatever was plugged, replaced and unplugged: a peripheral
\* in the tree has its device, and the device of a node of the tree is plugged.  (Only a device
\* made between two games is in no tree: Disconnect does not find it.)
PluggedIsShown ==
  root = "live" => \A p \in Port : node[p] <=> device[p] # Unplugged /\ device[p].inTree

\* A button that is held down when its controller is replaced, or when another game is
\* loaded, is not held down on the new controller: what a device shows was
\* sent to its port after it was made.
NoHeldButton ==
  \A p \in Port : device[p] # Unplugged => device[p].button \in sent[p]
=============================================================================
