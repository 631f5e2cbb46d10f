------------------------ MODULE NodeFactoryProofs -------------------------
(***************************************************************************)
(* Theorems about NodeFactory for any cameras, both builds and any number  *)
(* of mishaps and transitions.                                             *)
(***************************************************************************)
EXTENDS NodeFactory, SequenceTheorems, TLAPS

\* A serial number that was asked for is the one sought.  Unless on_configure
\* found a device held, the device held and the cameras started are the one of
\* the serial number taken.
Chosen ==
  /\ requested # Any => serial_no = requested
  /\ ~inherited =>
       /\ device # None => device.id = serial_no
       /\ \A d \in started : d = serial_no

\* While no threads cross, at most one starts a node, with the device held.
OneStarts ==
  ~crossed => \A t \in Thread : pc[t] = "starting" =>
    /\ target[t] = device
    /\ \A u \in Thread : pc[u] = "starting" => u = t

NodeIsHandle == node # None => node.handle # None

Inv == TypeOK /\ Chosen /\ OneStarts /\ NodeIsHandle /\ NodeHasDevice

---------------------------------------------------------------------------
Place == {"idle", "query", "asleep", "register", "start", "starting", "look",
          "cleanup", "shutdown", "done"}
State == {"unmanaged", "unconfigured", "inactive", "active", "finalized"}

\* The node starts with well-typed variables.
LEMMA InitType == Init => TypeOK
<1> SUFFICES ASSUME Init PROVE TypeOK
  OBVIOUS
<1>1. events \in Seq(Event)
  BY DEF Init
<1>2. QED BY <1>1, BuildAssumption DEF Init, TypeOK, Unmanaged, Thread

\* Handles are those of cameras.
LEMMA Handles ==
  ASSUME TypeOK
  PROVE  /\ \A d \in Device : Handle(d) \in HandleType
         /\ Connected \subseteq HandleType
  BY DEF TypeOK, Handle, Connected, HandleType

\* What is announced is an event.
LEMMA Announced ==
  ASSUME TypeOK, NEW removed \in SUBSET HandleType, NEW added \in SUBSET HandleType,
         Announce(removed, added)
  PROVE  events' \in Seq(Event)
<1>1. [removed |-> removed, added |-> added] \in Event
  BY DEF Event
<1>2. events \in Seq(Event)
  BY DEF TypeOK
<1>3. QED BY <1>1, <1>2 DEF Announce

\* Finding a device keeps the types, and takes a device only as its own.
LEMMA FindType ==
  ASSUME TypeOK, NEW list \in SUBSET HandleType, Find(list)
  PROVE  /\ device' \in HandleType \cup {None}
         /\ serial_no' \in Device \cup {Any}
         /\ initial_reset' \in BOOLEAN
         /\ rebooting' \subseteq Device
<1>1. CASE UNCHANGED <<device, serial_no, initial_reset, rebooting>>
  BY <1>1 DEF TypeOK
<1>2. CASE \E h \in {g \in list : serial_no \in {Any, g.id}} :
             /\ serial_no' = h.id
             /\ initial_reset' = FALSE
             /\ \/ initial_reset /\ device' = None /\ Reset(h)
                \/ device' = h /\ UNCHANGED rebooting
  BY <1>2, Handles DEF TypeOK, Reset, HandleType
<1>3. QED BY <1>1, <1>2 DEF Find

\* A thread that goes anywhere but to the start of a node keeps the places typed.
LEMMA MoveType ==
  ASSUME TypeOK, NEW u \in Thread, NEW place \in Place \ {"starting"},
         pc' = [pc EXCEPT ![u] = place], UNCHANGED target
  PROVE  /\ pc' \in [Thread -> Place]
         /\ \A t \in Thread : pc'[t] = "starting" => target'[t] # None
<1>1. pc \in [Thread -> Place]
  BY DEF TypeOK, Place
<1>2. \A t \in Thread : pc[t] = "starting" => target[t] # None
  BY DEF TypeOK
<1>3. QED BY <1>1, <1>2

\* Every step keeps the types.
LEMMA NextType == TypeOK /\ [Next]_vars => TypeOK'
<1> SUFFICES ASSUME TypeOK, [Next]_vars PROVE TypeOK'
  OBVIOUS
<1> USE DEF world, members, threads, choice, history
<1>1. ASSUME NEW d \in Device, Unplug(d) PROVE TypeOK'
  <2>1. events' \in Seq(Event)
    BY <1>1, Handles, Announced DEF Unplug
  <2>2. QED BY <1>1, <2>1 DEF Unplug, TypeOK, Event
<1>2. ASSUME NEW d \in Device, Plug(d) PROVE TypeOK'
  <2>1. generation[d] + 1 \in Nat /\ generation' \in [Device -> Nat]
    BY <1>2 DEF Plug, TypeOK
  <2>2. {[id |-> d, generation |-> generation[d] + 1]} \subseteq HandleType
    BY <2>1 DEF HandleType
  <2>3. events' \in Seq(Event)
    BY <1>2, <2>2, Announced DEF Plug
  <2>4. QED BY <1>2, <2>1, <2>3 DEF Plug, TypeOK, Event
<1>3. ASSUME NEW t \in Thread, StartDevice(t) PROVE TypeOK'
  <2>1. started' \subseteq Device
    BY <1>3 DEF StartDevice, TypeOK, HandleType
  <2>2. crossed' \in BOOLEAN
    BY <1>3 DEF StartDevice, TypeOK, Crossing, Starting
  <2>3. QED BY <1>3, <2>1, <2>2 DEF StartDevice, TypeOK, After
<1>4. ASSUME NEW t \in Thread, StartSucceeds(t) PROVE TypeOK'
  BY <1>4, Handles DEF StartSucceeds, TypeOK, After
<1>5. ASSUME NEW t \in Thread, BackendError(t) PROVE TypeOK'
  BY <1>5, Handles DEF BackendError, Failing, Reset, TypeOK, After, HandleType
<1>6. ASSUME NEW t \in Thread, OtherError(t) PROVE TypeOK'
  BY <1>6 DEF OtherError, Failing, TypeOK, After
<1>7. ASSUME QueryDevices PROVE TypeOK'
  <2>1. CASE is_alive /\ device = None
    BY <1>7, <2>1, Handles, FindType DEF QueryDevices, TypeOK
  <2>2. CASE ~(is_alive /\ device = None)
    BY <1>7, <2>2 DEF QueryDevices, TypeOK
  <2>3. QED BY <2>1, <2>2
<1>8. ASSUME QueryWakes \/ Register PROVE TypeOK'
  <2>1. CASE QueryWakes
    <3>1. "query" \in Thread /\ "query" \in Place \ {"starting"}
      BY DEF Thread, Place
    <3>2. /\ pc' \in [Thread -> Place]
          /\ \A t \in Thread : pc'[t] = "starting" => target'[t] # None
      BY <2>1, <3>1, MoveType DEF QueryWakes
    <3>3. QED BY <2>1, <3>2 DEF QueryWakes, TypeOK, Place
  <2>2. CASE Register
    <3>1. PICK place \in {"start", "query"} : pc' = [pc EXCEPT !["query"] = place]
      BY <2>2 DEF Register
    <3>2. "query" \in Thread /\ place \in Place \ {"starting"}
      BY DEF Thread, Place
    <3>3. /\ pc' \in [Thread -> Place]
          /\ \A t \in Thread : pc'[t] = "starting" => target'[t] # None
      BY <2>2, <3>1, <3>2, MoveType DEF Register
    <3>4. QED BY <2>2, <3>3 DEF Register, TypeOK, Place
  <2>3. QED BY <1>8, <2>1, <2>2
<1>9. ASSUME DeviceChanged PROVE TypeOK'
  <2>1. Head(events) \in Event /\ events' \in Seq(Event)
    <3>1. events \in Seq(Event) /\ events # <<>> /\ events' = Tail(events)
      BY <1>9 DEF DeviceChanged, TypeOK
    <3>2. QED BY <3>1
  <2>2. seen' \subseteq HandleType
    BY <1>9, <2>1 DEF DeviceChanged, Event
  <2>3. device' \in HandleType \cup {None}
        /\ node' \in [handle : HandleType, up : BOOLEAN] \cup {None}
    BY <1>9 DEF DeviceChanged, TypeOK
  <2>4. crossed' \in BOOLEAN
    BY <1>9 DEF DeviceChanged, TypeOK
  <2>5. QED BY <1>9, <2>1, <2>2, <2>3, <2>4 DEF DeviceChanged, TypeOK
<1>10. ASSUME NewDevices PROVE TypeOK'
  <2>1. /\ device' \in HandleType \cup {None}
        /\ serial_no' \in Device \cup {Any}
        /\ initial_reset' \in BOOLEAN
        /\ rebooting' \subseteq Device
    <3>1. CASE device = None
      BY <1>10, <3>1, FindType DEF NewDevices, TypeOK
    <3>2. CASE device # None
      BY <1>10, <3>2 DEF NewDevices, TypeOK
    <3>3. QED BY <3>1, <3>2
  <2>2. PICK place \in {"start", "idle"} : pc' = [pc EXCEPT !["callback"] = place]
    BY <1>10 DEF NewDevices
  <2>3. "callback" \in Thread /\ place \in Place \ {"starting"}
    BY DEF Thread, Place
  <2>4. /\ pc' \in [Thread -> Place]
        /\ \A t \in Thread : pc'[t] = "starting" => target'[t] # None
    BY <1>10, <2>2, <2>3, MoveType DEF NewDevices
  <2>5. crossed' \in BOOLEAN
    BY <1>10 DEF NewDevices, TypeOK, Crossing, Starting
  <2>6. QED BY <1>10, <2>1, <2>4, <2>5 DEF NewDevices, TypeOK, Place
<1>11. ASSUME OnConfigure \/ OnActivate \/ OnDeactivate \/ OnCleanup \/ OnShutdown
       PROVE  TypeOK'
  <2>1. CASE OnConfigure
    <3>1. inherited' \in BOOLEAN
      BY <2>1 DEF OnConfigure
    <3>2. "query" \in Thread /\ "query" \in Place \ {"starting"}
      BY DEF Thread, Place
    <3>3. /\ pc' \in [Thread -> Place]
          /\ \A t \in Thread : pc'[t] = "starting" => target'[t] # None
      BY <2>1, <3>2, MoveType DEF OnConfigure
    <3>4. QED BY <2>1, <3>1, <3>3 DEF OnConfigure, Transition, TypeOK, Place
  <2>2. CASE OnActivate \/ OnDeactivate
    BY <2>2 DEF OnActivate, OnDeactivate, Transition, TypeOK
  <2>3. CASE OnCleanup \/ OnShutdown
    <3>1. PICK place \in {"cleanup", "shutdown"} : CloseDevice(place)
      BY <2>3 DEF OnCleanup, OnShutdown
    <3>2. "executor" \in Thread /\ place \in Place \ {"starting"}
      BY DEF Thread, Place
    <3>3. /\ pc' \in [Thread -> Place]
          /\ \A t \in Thread : pc'[t] = "starting" => target'[t] # None
      BY <3>1, <3>2, MoveType DEF CloseDevice
    <3>4. /\ UNCHANGED <<world, is_registered, device, node, serial_no,
                          initial_reset, target, seen, state, choice>>
          /\ is_alive' \in BOOLEAN
      BY <3>1 DEF CloseDevice
    <3>5. crossed' = crossed /\ missed' = missed /\ refused' = refused
      BY <2>3 DEF OnCleanup, OnShutdown, Transition
    <3>6. crossed' \in BOOLEAN /\ missed' \in BOOLEAN /\ refused' \in BOOLEAN
      BY <3>5 DEF TypeOK
    <3>7. QED BY <3>3, <3>4, <3>6 DEF TypeOK, Place
  <2>4. QED BY <1>11, <2>1, <2>2, <2>3
<1>12. ASSUME DeviceClosed PROVE TypeOK'
  <2>1. is_registered' \in BOOLEAN /\ crossed' \in BOOLEAN
    BY <1>12 DEF DeviceClosed, TypeOK
  <2>2. events' \in Seq(Event)
    BY <1>12 DEF DeviceClosed, TypeOK
  <2>3. QED BY <1>12, <2>1, <2>2 DEF DeviceClosed, TypeOK
<1>13. ASSUME UNCHANGED vars PROVE TypeOK'
  BY <1>13 DEF vars, TypeOK
<1>14. QED
  BY <1>1, <1>2, <1>3, <1>4, <1>5, <1>6, <1>7, <1>8, <1>9, <1>10, <1>11, <1>12,
     <1>13 DEF Next, Cameras, Start, Query, Executor

---------------------------------------------------------------------------
\* A find takes a device as its own, and a start before it holds the serial
\* number fast.
LEMMA ChosenStays ==
  ASSUME TypeOK, Chosen, NEW list \in SUBSET HandleType, Find(list),
         UNCHANGED choice
  PROVE  Chosen'
<1> USE DEF choice
<1>1. device' # None => device'.id = serial_no' \/ (device' = device /\ serial_no' = serial_no)
  BY DEF Find
<1>2. serial_no' = serial_no \/ serial_no = Any
  BY DEF Find
<1>3. requested' # Any => serial_no' = requested'
  BY <1>2 DEF Chosen
<1>4. ASSUME ~inherited', NEW d \in started' PROVE d = serial_no'
  <2>1. d \in Device /\ d = serial_no
    BY <1>4 DEF TypeOK, Chosen
  <2>2. QED BY <1>2, <2>1, DeviceAssumption
<1>5. ~inherited' => (device' # None => device'.id = serial_no')
  BY <1>1 DEF Chosen
<1>6. QED BY <1>3, <1>4, <1>5 DEF Chosen

\* Every step keeps the invariant.
LEMMA NextInv == Inv /\ [Next]_vars => Inv'
<1> SUFFICES ASSUME Inv, [Next]_vars PROVE Inv'
  OBVIOUS
<1> DEFINE Rest == Chosen /\ OneStarts /\ NodeIsHandle /\ NodeHasDevice
<1> USE DEF world, members, threads, choice, history
<1>1. TypeOK /\ TypeOK' /\ Rest
  BY NextType DEF Inv
<1>2. ASSUME UNCHANGED <<device, serial_no, node, pc, target, crossed, choice>>
      PROVE  Rest'
  BY <1>1, <1>2 DEF Chosen, OneStarts, NodeIsHandle, NodeHasDevice
<1>3. ASSUME Cameras \/ UNCHANGED vars PROVE Rest'
  BY <1>2, <1>3 DEF Cameras, Unplug, Plug, vars
<1>4. ASSUME NEW t \in Thread, StartDevice(t) PROVE Rest'
  <2>1. NodeIsHandle' /\ NodeHasDevice'
    BY <1>1, <1>4 DEF StartDevice, NodeIsHandle, NodeHasDevice
  <2>2. /\ pc'[t] = "starting" => device # None
        /\ target' = [target EXCEPT ![t] = device]
        /\ target \in [Thread -> HandleType \cup {None}]
        /\ \A u \in Thread \ {t} : pc'[u] = pc[u]
    BY <1>1, <1>4 DEF StartDevice, TypeOK, After
  <2>3. Chosen'
    <3>1. /\ UNCHANGED <<serial_no, device, requested, inherited>>
          /\ started' = IF device = None THEN started ELSE started \cup {device.id}
      BY <1>4 DEF StartDevice
    <3>2. QED BY <1>1, <3>1 DEF Chosen
  <2>4. ~crossed' => ~crossed /\ \A u \in Thread \ {t} : pc[u] # "starting"
    BY <1>4 DEF StartDevice, Crossing, Starting
  <2>5. OneStarts'
    BY <1>4, <2>2, <2>4 DEF StartDevice, OneStarts
  <2>6. QED BY <2>1, <2>3, <2>5
<1>5. ASSUME NEW t \in Thread,
             StartSucceeds(t) \/ BackendError(t) \/ OtherError(t)
      PROVE  Rest'
  <2>1. /\ pc[t] = "starting" /\ pc'[t] # "starting" /\ target' = target
        /\ \A u \in Thread \ {t} : pc'[u] = pc[u]
        /\ UNCHANGED <<crossed, serial_no, choice>>
        /\ node' \in [handle : {target[t]}, up : BOOLEAN]
        /\ device' = device \/ (device' = None /\ ~node'.up)
    <3>1. CASE StartSucceeds(t)
      BY <1>1, <3>1 DEF StartSucceeds, After, TypeOK
    <3>2. CASE BackendError(t)
      BY <1>1, <3>2 DEF BackendError, Failing, After, TypeOK
    <3>3. CASE OtherError(t)
      BY <1>1, <3>3 DEF OtherError, Failing, After, TypeOK
    <3>4. QED BY <1>5, <3>1, <3>2, <3>3
  <2>2. target[t] # None /\ node'.handle = target[t]
    BY <1>1, <2>1 DEF TypeOK
  <2>3. Chosen' /\ NodeIsHandle'
    BY <1>1, <2>1, <2>2 DEF Chosen, NodeIsHandle
  <2>4. OneStarts' /\ NodeHasDevice'
    BY <1>1, <2>1, <2>2 DEF OneStarts, NodeHasDevice
  <2>5. QED BY <2>3, <2>4
<1>6. ASSUME QueryDevices PROVE Rest'
  <2>1. pc["query"] = "query" /\ pc'["query"] # "starting"
        /\ \A u \in Thread \ {"query"} : pc'[u] = pc[u]
    BY <1>1, <1>6 DEF QueryDevices, TypeOK, Thread
  <2>2. UNCHANGED <<node, target, crossed, choice>>
    BY <1>6 DEF QueryDevices
  <2>3. CASE is_alive /\ device = None
    <3>1. Find(Connected) /\ Connected \in SUBSET HandleType
      BY <1>1, <1>6, <2>3, Handles DEF QueryDevices
    <3>2. Chosen'
      BY <1>1, <2>2, <3>1, ChosenStays
    <3>3. \A u \in Thread : pc[u] = "starting" => target[u] # device
      BY <1>1, <2>3 DEF TypeOK
    <3>4. ~crossed => \A u \in Thread : pc[u] # "starting"
      BY <1>1, <3>3 DEF OneStarts
    <3>5. OneStarts'
      BY <2>1, <2>2, <3>4 DEF OneStarts, Thread
    <3>6. NodeIsHandle' /\ NodeHasDevice'
      BY <1>1, <2>2, <2>3 DEF NodeIsHandle, NodeHasDevice
    <3>7. QED BY <3>2, <3>5, <3>6
  <2>4. CASE ~(is_alive /\ device = None)
    BY <1>1, <1>6, <2>1, <2>2, <2>4 DEF QueryDevices, Chosen, OneStarts,
       NodeIsHandle, NodeHasDevice, Thread
  <2>5. QED BY <2>3, <2>4
<1>7. ASSUME NEW t \in Thread,
             pc'[t] # "starting", \A u \in Thread \ {t} : pc'[u] = pc[u],
             UNCHANGED <<device, target, crossed>>,
             node' \in {node, None}
      PROVE  OneStarts' /\ NodeIsHandle' /\ NodeHasDevice'
  BY <1>1, <1>7 DEF OneStarts, NodeIsHandle, NodeHasDevice
<1>16. ASSUME UNCHANGED <<device, serial_no, choice>> PROVE Chosen'
  BY <1>1, <1>16 DEF Chosen
<1>8. ASSUME QueryWakes \/ Register PROVE Rest'
  <2>1. pc'["query"] # "starting" /\ \A u \in Thread \ {"query"} : pc'[u] = pc[u]
    BY <1>1, <1>8 DEF QueryWakes, Register, TypeOK, Thread
  <2>2. UNCHANGED <<device, serial_no, node, target, crossed, choice>>
    BY <1>8 DEF QueryWakes, Register
  <2>3. QED BY <1>7, <1>16, <2>1, <2>2 DEF Thread
<1>9. ASSUME DeviceChanged PROVE Rest'
  <2>1. pc["callback"] = "idle" /\ pc'["callback"] # "starting"
        /\ \A u \in Thread \ {"callback"} : pc'[u] = pc[u]
    BY <1>1, <1>9 DEF DeviceChanged, TypeOK, Thread
  <2>2. UNCHANGED <<serial_no, target, choice>>
    BY <1>9 DEF DeviceChanged
  <2>3. \/ UNCHANGED <<device, node, crossed>>
        \/ /\ device' = None /\ node' = None
           /\ ~crossed' => \A u \in Thread \ {"callback"} : pc[u] # "starting"
    BY <1>1, <1>9 DEF DeviceChanged, Crossing, Starting, TypeOK
  <2>4. CASE UNCHANGED <<device, node, crossed>>
    BY <1>7, <1>16, <2>1, <2>2, <2>4 DEF Thread
  <2>5. CASE /\ device' = None /\ node' = None
             /\ ~crossed' => \A u \in Thread \ {"callback"} : pc[u] # "starting"
    BY <1>1, <2>1, <2>2, <2>5 DEF Chosen, OneStarts, NodeIsHandle, NodeHasDevice
  <2>6. QED BY <2>3, <2>4, <2>5
<1>10. ASSUME NewDevices PROVE Rest'
  <2>1. pc["callback"] = "look" /\ pc'["callback"] # "starting"
        /\ \A u \in Thread \ {"callback"} : pc'[u] = pc[u]
    BY <1>1, <1>10 DEF NewDevices, TypeOK, Thread
  <2>2. /\ UNCHANGED <<node, target, choice>>
        /\ ~crossed' => ~crossed
        /\ ~crossed' => \A u \in Thread \ {"callback"} : pc[u] # "starting"
    BY <1>1, <1>10 DEF NewDevices, Crossing, Starting, TypeOK
  <2>3. OneStarts'
    BY <2>1, <2>2 DEF OneStarts
  <2>4. CASE device = None
    <3>1. Find(seen) /\ seen \in SUBSET HandleType
      BY <1>1, <1>10, <2>4 DEF NewDevices, TypeOK
    <3>2. Chosen'
      BY <1>1, <2>2, <3>1, ChosenStays
    <3>3. NodeIsHandle' /\ NodeHasDevice'
      BY <1>1, <2>2, <2>4 DEF NodeIsHandle, NodeHasDevice
    <3>4. QED BY <2>3, <3>2, <3>3
  <2>5. CASE device # None
    BY <1>1, <1>10, <1>16, <2>2, <2>3, <2>5 DEF NewDevices, NodeIsHandle,
       NodeHasDevice
  <2>6. QED BY <2>4, <2>5
<1>11. ASSUME OnConfigure PROVE Rest'
  <2>1. pc'["query"] # "starting" /\ \A u \in Thread \ {"query"} : pc'[u] = pc[u]
    BY <1>1, <1>11 DEF OnConfigure, TypeOK, Thread
  <2>2. UNCHANGED <<device, node, target, crossed>>
    BY <1>11 DEF OnConfigure, Transition
  <2>3. Chosen'
    BY <1>11, <2>2 DEF OnConfigure, Chosen
  <2>4. QED BY <1>7, <2>1, <2>2, <2>3 DEF Thread
<1>12. ASSUME OnActivate \/ OnCleanup \/ OnShutdown \/ OnDeactivate PROVE Rest'
  <2>1. /\ pc'["executor"] # "starting"
        /\ \A u \in Thread \ {"executor"} : pc'[u] = pc[u]
    BY <1>1, <1>12 DEF OnActivate, OnDeactivate, OnCleanup, OnShutdown,
       CloseDevice, Transition, TypeOK, Thread
  <2>2. /\ UNCHANGED <<device, serial_no, target, crossed, choice>>
        /\ node' \in {node, None}
    BY <1>12 DEF OnActivate, OnDeactivate, OnCleanup, OnShutdown, CloseDevice,
       Transition
  <2>3. QED BY <1>7, <1>16, <2>1, <2>2 DEF Thread
<1>13. ASSUME DeviceClosed PROVE Rest'
  <2>1. /\ device' = None /\ node' = None /\ UNCHANGED <<serial_no, target, choice>>
        /\ pc["query"] = "done" /\ pc'["executor"] = "idle"
        /\ \A u \in Thread \ {"executor"} : pc'[u] = pc[u]
        /\ ~crossed' => pc["callback"] = "idle"
    BY <1>1, <1>13 DEF DeviceClosed, TypeOK, Thread
  <2>2. ~crossed' => \A u \in Thread : pc'[u] # "starting"
    BY <2>1 DEF Thread
  <2>3. QED BY <1>1, <2>1, <2>2 DEF Chosen, OneStarts, NodeIsHandle,
       NodeHasDevice, Thread
<1>14. Rest'
  BY <1>3, <1>4, <1>5, <1>6, <1>8, <1>9, <1>10, <1>11, <1>12, <1>13
     DEF Next, Start, Query, Executor
<1>15. QED BY <1>1, <1>14 DEF Inv

\* NodeFactory starts with the invariant.
LEMMA InitInv == Init => Inv
<1> SUFFICES ASSUME Init PROVE Inv
  OBVIOUS
<1>1. \A t \in Thread : pc[t] # "starting"
  BY DEF Init, Thread
<1>2. QED BY <1>1, InitType DEF Init, Inv, Chosen, OneStarts, NodeIsHandle,
     NodeHasDevice

LEMMA Invariance == Spec => []Inv
  BY InitInv, NextInv, PTL DEF Spec

---------------------------------------------------------------------------
\* Every variable keeps its type.
THEOREM TypeCorrect == Spec => []TypeOK
<1>1. Inv => TypeOK
  BY DEF Inv
<1>2. QED BY <1>1, Invariance, PTL

\* Whatever threads, devices and transitions do, and even if threads cross, the
\* starts made from one reading of the parameters to the next are on one camera,
\* the one requested if one was, unless that reading found a device held.
THEOREM KeepsToOneCamera == Spec => []OneCamera
<1>1. Inv => OneCamera
  BY DEF Inv, Chosen, OneCamera
<1>2. QED BY <1>1, Invariance, PTL

\* As long as no threads cross, a node that is up is one on the device held: its
\* removal takes the node down.
THEOREM NodeKeepsDevice == Spec => []NodeHasDevice
<1>1. Inv => NodeHasDevice
  BY DEF Inv
<1>2. QED BY <1>1, Invariance, PTL
===========================================================================
