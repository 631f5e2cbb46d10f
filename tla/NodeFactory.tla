---------------------------- MODULE NodeFactory ----------------------------
(***************************************************************************)
(* RealSenseNodeFactory: the process waits for a device, runs a node on it *)
(* and follows its disconnections.  Three threads run the same functions   *)
(* on the same members, _device and _realSenseNode, and no lock guards     *)
(* them: the query thread of init(), the thread on which librealsense      *)
(* calls changeDeviceCallback(), and the executor, which in a build with   *)
(* USE_LIFECYCLE_NODE makes the transitions of a managed node.             *)
(***************************************************************************)
EXTENDS Naturals, Sequences

CONSTANTS
  Device,        \* the cameras
  Any,           \* no serial number is requested
  None,
  Builds,        \* of {"unmanaged", "unconfigured"}: without and with
                 \* USE_LIFECYCLE_NODE
  MaxMishaps,    \* bound: cameras plugged or unplugged by hand, and failures to
                 \* start one that is there
  MaxTransitions, \* bound: lifecycle transitions
  MaxEvents      \* bound: all of these together

ASSUME DeviceAssumption == Any \notin Device /\ None \notin Device
ASSUME BuildAssumption == Builds \subseteq {"unmanaged", "unconfigured"}
ASSUME BoundAssumption ==
  MaxMishaps \in Nat /\ MaxTransitions \in Nat /\ MaxEvents \in Nat

Thread == {"query", "callback", "executor"}

VARIABLES
  present,       \* the cameras librealsense enumerates
  generation,    \* how often each was connected: a handle is good for one
  rebooting,     \* the cameras told to reset that are not back yet
  events,        \* the device events on their way to the callback
  is_registered, \* the callback is set
  device,        \* _device: a handle or None
  node,          \* _realSenseNode: the handle it has, and whether it is up
  serial_no, initial_reset, is_alive,
  pc,            \* where each thread is
  target,        \* the handle each thread starts a node with
  seen,          \* the new devices of the event being handled
  state,         \* the lifecycle state, or "unmanaged"
  crossed,       \* history: two threads were inside startDevice() at once, or
                 \* one was while another one changed _device
  missed,        \* history: the device went away before the callback was set
  refused,       \* history: a start failed otherwise than in the backend
  requested,     \* history: the parameter serial_no as init() last read it
  started,       \* history: the cameras that starts were made on since then
  inherited,     \* history: a device was already held then
  mishaps, transitions

world   == <<present, generation, rebooting, events>>
members == <<is_registered, device, node, serial_no, initial_reset, is_alive>>
threads == <<pc, target, seen>>
choice  == <<requested, started, inherited>>
history == <<crossed, missed, refused, choice, mishaps, transitions>>
vars == <<world, members, threads, state, history>>

Handle(d) == [id |-> d, generation |-> generation[d]]
Connected == {Handle(d) : d \in present}

Unmanaged == state = "unmanaged"

Starting(t) == pc[t] \in {"start", "starting"}
Crossing(t) == \E u \in Thread \ {t} : Starting(u)

\* The bounds leave room for another mishap.
MishapLeft == mishaps < MaxMishaps /\ mishaps + transitions < MaxEvents

---------------------------------------------------------------------------
\* Without the lifecycle the constructor runs init(), which reads the parameters;
\* a managed node reads them in on_configure, and uses neither before.
Init ==
  /\ present \in SUBSET Device /\ generation = [d \in Device |-> 0]
  /\ rebooting = {} /\ events = <<>>
  /\ is_registered = FALSE /\ device = None /\ node = None
  /\ serial_no \in Device \cup {Any} /\ initial_reset \in BOOLEAN
  /\ state \in Builds /\ is_alive = Unmanaged
  /\ ~Unmanaged => serial_no = Any /\ ~initial_reset
  /\ pc = [t \in Thread |-> IF t # "query" THEN "idle"
                            ELSE IF Unmanaged THEN "query" ELSE "done"]
  /\ target = [t \in Thread |-> None] /\ seen = {}
  /\ crossed = FALSE /\ missed = FALSE /\ refused = FALSE
  /\ requested = serial_no /\ started = {} /\ inherited = FALSE
  /\ mishaps = 0 /\ transitions = 0

---------------------------------------------------------------------------
(* librealsense and the cameras.                                           *)

\* Events reach a callback that is set.
Announce(removed, added) ==
  events' = IF is_registered
            THEN Append(events, [removed |-> removed, added |-> added]) ELSE events

\* A camera is unplugged, or goes away because it was told to reset.
Unplug(d) ==
  /\ d \in present
  /\ d \in rebooting \/ MishapLeft
  /\ present' = present \ {d}
  /\ Announce({Handle(d)}, {})
  /\ missed' = (missed \/ (pc["query"] = "register" /\ device = Handle(d)))
  /\ mishaps' = IF d \in rebooting THEN mishaps ELSE mishaps + 1
  /\ UNCHANGED <<generation, rebooting, members, threads, state, crossed,
                 refused, choice, transitions>>

Plug(d) ==
  /\ d \notin present
  /\ d \in rebooting \/ MishapLeft
  /\ present' = present \cup {d}
  /\ generation' = [generation EXCEPT ![d] = @ + 1]
  /\ rebooting' = rebooting \ {d}
  /\ Announce({}, {[id |-> d, generation |-> generation[d] + 1]})
  /\ mishaps' = IF d \in rebooting THEN mishaps ELSE mishaps + 1
  /\ UNCHANGED <<members, threads, state, crossed, missed, refused, choice,
                 transitions>>

---------------------------------------------------------------------------
(* getDevice and startDevice, on any thread.                               *)

\* hardware_reset() of the camera a handle is good for.
Reset(h) == rebooting' = IF h \in Connected THEN rebooting \cup {h.id} ELSE rebooting

\* Variant: the serial number is not remembered.
FindUnpinned(list) ==
  LET chosen == {h \in list : serial_no \in {Any, h.id}}
  IN  \/ chosen = {}
         /\ UNCHANGED <<device, serial_no, initial_reset, rebooting>>
      \/ \E h \in chosen :
           /\ UNCHANGED serial_no
           /\ initial_reset' = FALSE
           /\ \/ initial_reset /\ device' = None /\ Reset(h)
              \/ device' = h /\ UNCHANGED rebooting

\* getDevice, when there is no device: the first that matches is taken, and its
\* serial number remembered.  The initial reset gives it up again, unless
\* hardware_reset() throws.
Find(list) ==
  LET chosen == {h \in list : serial_no \in {Any, h.id}}
  IN  \/ chosen = {}
         /\ UNCHANGED <<device, serial_no, initial_reset, rebooting>>
      \/ \E h \in chosen :
           /\ serial_no' = h.id
           /\ initial_reset' = FALSE
           /\ \/ initial_reset /\ device' = None /\ Reset(h)
              \/ device' = h /\ UNCHANGED rebooting

\* Where a thread goes when startDevice() returns or throws.
After(t) == IF t = "query" THEN "query" ELSE "idle"

\* Variant: a handle to no device is used.
StartDeviceUnchecked(t) ==
  /\ pc[t] = "start"
  /\ node' = None
  /\ target' = [target EXCEPT ![t] = device]
  /\ pc' = [pc EXCEPT ![t] = "starting"]
  /\ crossed' = (crossed \/ Crossing(t))
  /\ UNCHANGED <<world, is_registered, device, serial_no, initial_reset,
                 is_alive, seen, state, missed, refused, choice, mishaps,
                 transitions>>

\* The node there is, if any, is destroyed, and the handle is used.
StartDevice(t) ==
  /\ pc[t] = "start"
  /\ node' = None
  /\ target' = [target EXCEPT ![t] = device]
  /\ pc' = [pc EXCEPT ![t] = IF device = None THEN After(t) ELSE "starting"]
  /\ state' = IF t = "executor" /\ device = None THEN "finalized" ELSE state
  /\ crossed' = (crossed \/ Crossing(t))
  /\ started' = IF device = None THEN started ELSE started \cup {device.id}
  /\ UNCHANGED <<world, is_registered, device, serial_no, initial_reset,
                 is_alive, seen, missed, refused, requested, inherited, mishaps,
                 transitions>>

\* The new node sets itself up.
StartSucceeds(t) ==
  /\ pc[t] = "starting" /\ target[t] \in Connected
  /\ node' = [handle |-> target[t], up |-> TRUE]
  /\ pc' = [pc EXCEPT ![t] = After(t)]
  /\ state' = IF t = "executor" THEN "active" ELSE state
  /\ UNCHANGED <<world, is_registered, device, serial_no, initial_reset,
                 is_alive, target, seen, history>>

\* The camera is gone, or it fails.
Failing(t) ==
  /\ pc[t] = "starting"
  /\ target[t] \notin Connected \/ MishapLeft
  /\ mishaps' = IF target[t] \in Connected THEN mishaps + 1 ELSE mishaps

\* With a backend_error: the camera is reset and the handle given up, the node
\* stays, half set up.
BackendError(t) ==
  /\ Failing(t)
  /\ node' = [handle |-> target[t], up |-> FALSE]
  /\ Reset(target[t])
  /\ device' = None
  /\ pc' = [pc EXCEPT ![t] = After(t)]
  /\ state' = IF t = "executor" THEN "active" ELSE state
  /\ UNCHANGED <<present, generation, events, is_registered, serial_no,
                 initial_reset, is_alive, target, seen, crossed, missed,
                 refused, choice, transitions>>

\* With another exception, or one from the reset of a camera that is gone: the
\* handle and the half set up node stay.
OtherError(t) ==
  /\ Failing(t)
  /\ node' = [handle |-> target[t], up |-> FALSE]
  /\ pc' = [pc EXCEPT ![t] = After(t)]
  /\ state' = IF t = "executor" THEN "finalized" ELSE state
  /\ refused' = TRUE
  /\ UNCHANGED <<world, is_registered, device, serial_no, initial_reset,
                 is_alive, target, seen, crossed, missed, choice, transitions>>

---------------------------------------------------------------------------
(* The query thread.                                                       *)

QueryDevices ==
  /\ pc["query"] = "query"
  /\ IF is_alive /\ device = None
     THEN /\ Find(Connected)
          /\ pc' = [pc EXCEPT !["query"] = IF device' = None THEN "asleep"
                                                              ELSE "register"]
     ELSE /\ pc' = [pc EXCEPT !["query"] = "done"]
          /\ UNCHANGED <<device, serial_no, initial_reset, rebooting>>
  /\ UNCHANGED <<present, generation, events, is_registered, node, is_alive,
                 target, seen, state, history>>

\* _reconnect_timeout is over.
QueryWakes ==
  /\ pc["query"] = "asleep"
  /\ pc' = [pc EXCEPT !["query"] = "query"]
  /\ UNCHANGED <<world, members, target, seen, state, history>>

\* Variant: the callback is not set.
RegisterNot ==
  /\ pc["query"] = "register"
  /\ pc' = [pc EXCEPT !["query"] = IF Unmanaged THEN "start" ELSE "query"]
  /\ UNCHANGED <<world, members, target, seen, state, history>>

\* A managed node waits for its activation.
Register ==
  /\ pc["query"] = "register"
  /\ is_registered' = TRUE
  /\ pc' = [pc EXCEPT !["query"] = IF Unmanaged THEN "start" ELSE "query"]
  /\ UNCHANGED <<world, device, node, serial_no, initial_reset, is_alive,
                 target, seen, state, history>>

---------------------------------------------------------------------------
(* changeDeviceCallback.                                                   *)

\* Variant: the node outlives its device.
DeviceChangedKeepsNode ==
  /\ pc["callback"] = "idle" /\ events # <<>>
  /\ LET removed == device \in Head(events).removed
     IN  /\ device' = IF removed THEN None ELSE device
         /\ crossed' = (crossed \/ (removed /\ Crossing("callback")))
  /\ seen' = Head(events).added
  /\ pc' = [pc EXCEPT !["callback"] =
              IF device' = None /\ seen' # {} THEN "look" ELSE "idle"]
  /\ events' = Tail(events)
  /\ UNCHANGED <<present, generation, rebooting, is_registered, node, serial_no,
                 initial_reset, is_alive, target, state, missed, refused,
                 choice, mishaps, transitions>>

DeviceChanged ==
  /\ pc["callback"] = "idle" /\ events # <<>>
  /\ LET removed == device \in Head(events).removed
     IN  /\ node' = IF removed THEN None ELSE node
         /\ device' = IF removed THEN None ELSE device
         /\ crossed' = (crossed \/ (removed /\ Crossing("callback")))
  /\ seen' = Head(events).added
  /\ pc' = [pc EXCEPT !["callback"] =
              IF device' = None /\ seen' # {} THEN "look" ELSE "idle"]
  /\ events' = Tail(events)
  /\ UNCHANGED <<present, generation, rebooting, is_registered, serial_no,
                 initial_reset, is_alive, target, state, missed, refused,
                 choice, mishaps, transitions>>

NewDevices ==
  /\ pc["callback"] = "look"
  /\ IF device = None THEN Find(seen)
     ELSE UNCHANGED <<device, serial_no, initial_reset, rebooting>>
  /\ pc' = [pc EXCEPT !["callback"] = IF device' # None THEN "start" ELSE "idle"]
  /\ crossed' = (crossed \/ Crossing("callback"))
  /\ UNCHANGED <<present, generation, events, is_registered, node, is_alive,
                 target, seen, state, missed, refused, choice, mishaps,
                 transitions>>

---------------------------------------------------------------------------
(* The transitions of a managed node.                                      *)

Transition(from) ==
  /\ state = from
  /\ pc["executor"] = "idle"
  /\ transitions < MaxTransitions /\ mishaps + transitions < MaxEvents
  /\ transitions' = transitions + 1
  /\ UNCHANGED <<crossed, missed, refused, mishaps>>

\* Variant: the serial number that was taken is kept.
OnConfigureKeeps ==
  /\ Transition("unconfigured")
  /\ is_alive' = TRUE
  /\ initial_reset' \in BOOLEAN
  /\ requested' \in Device \cup {Any}
  /\ started' = {} /\ inherited' = (device # None)
  /\ pc' = [pc EXCEPT !["query"] = "query"]
  /\ state' = "inactive"
  /\ UNCHANGED <<world, is_registered, device, node, serial_no, target, seen>>

\* init() reads its parameters again, and anyone may have set them meanwhile.
OnConfigure ==
  /\ Transition("unconfigured")
  /\ is_alive' = TRUE
  /\ serial_no' \in Device \cup {Any}
  /\ initial_reset' \in BOOLEAN
  /\ requested' = serial_no' /\ started' = {} /\ inherited' = (device # None)
  /\ pc' = [pc EXCEPT !["query"] = "query"]
  /\ state' = "inactive"
  /\ UNCHANGED <<world, is_registered, device, node, target, seen>>

OnActivate ==
  /\ Transition("inactive")
  /\ pc' = [pc EXCEPT !["executor"] = "start"]
  /\ UNCHANGED <<world, members, target, seen, state, choice>>

OnDeactivate ==
  /\ Transition("active")
  /\ node' = None
  /\ state' = "inactive"
  /\ UNCHANGED <<world, is_registered, device, serial_no, initial_reset,
                 is_alive, threads, choice>>

\* closeDevice, for on_cleanup and on_shutdown: ends the query thread,
CloseDevice(place) ==
  /\ is_alive' = FALSE
  /\ pc' = [pc EXCEPT !["executor"] = place]
  /\ UNCHANGED <<world, is_registered, device, node, serial_no, initial_reset,
                 target, seen, state, choice>>

OnCleanup == Transition("inactive") /\ CloseDevice("cleanup")

OnShutdown ==
  /\ \E from \in {"unconfigured", "inactive", "active"} : Transition(from)
  /\ CloseDevice("shutdown")

\* joins it, destroys the node, and gives the device and the callback up.
DeviceClosed ==
  /\ pc["executor"] \in {"cleanup", "shutdown"} /\ pc["query"] = "done"
  /\ node' = None
  /\ device' = None
  /\ is_registered' = (is_registered /\ device = None)
  /\ events' = IF device = None THEN events ELSE <<>>
  /\ pc' = [pc EXCEPT !["executor"] = "idle"]
  /\ state' = IF pc["executor"] = "cleanup" THEN "unconfigured" ELSE "finalized"
  /\ crossed' = (crossed \/ pc["callback"] # "idle")
  /\ UNCHANGED <<present, generation, rebooting, serial_no, initial_reset,
                 is_alive, target, seen, missed, refused, choice, mishaps,
                 transitions>>

---------------------------------------------------------------------------
Cameras == \E d \in Device : Unplug(d) \/ Plug(d)

Start(t) == StartDevice(t) \/ StartSucceeds(t) \/ BackendError(t) \/ OtherError(t)

Query == QueryDevices \/ QueryWakes \/ Register

Executor ==
  \/ OnConfigure \/ OnActivate \/ OnDeactivate \/ OnCleanup \/ OnShutdown
  \/ DeviceClosed

Next ==
  \/ Cameras
  \/ \E t \in Thread : Start(t)
  \/ Query
  \/ DeviceChanged \/ NewDevices
  \/ Executor

\* The threads run, a sleep ends, librealsense reports its events, and a camera
\* that was told to reset goes away and comes back.
Fairness ==
  /\ \A t \in Thread : WF_vars(Start(t))
  /\ WF_vars(Query)
  /\ WF_vars(DeviceChanged \/ NewDevices)
  /\ WF_vars(DeviceClosed)
  /\ \A d \in Device : WF_vars(d \in rebooting /\ (Unplug(d) \/ Plug(d)))

Spec == Init /\ [][Next]_vars
FairSpec == Spec /\ Fairness

---------------------------------------------------------------------------
(* Properties.                                                             *)

HandleType == [id : Device, generation : Nat]
Event == [removed : SUBSET HandleType, added : SUBSET HandleType]

TypeOK ==
  /\ present \subseteq Device /\ rebooting \subseteq Device
  /\ generation \in [Device -> Nat]
  /\ events \in Seq(Event)
  /\ device \in HandleType \cup {None}
  /\ node \in [handle : HandleType, up : BOOLEAN] \cup {None}
  /\ serial_no \in Device \cup {Any}
  /\ is_registered \in BOOLEAN /\ initial_reset \in BOOLEAN
  /\ is_alive \in BOOLEAN /\ crossed \in BOOLEAN
  /\ missed \in BOOLEAN /\ refused \in BOOLEAN
  /\ requested \in Device \cup {Any} /\ started \subseteq Device
  /\ inherited \in BOOLEAN
  /\ pc \in [Thread -> {"idle", "query", "asleep", "register", "start",
                        "starting", "look", "cleanup", "shutdown", "done"}]
  /\ target \in [Thread -> HandleType \cup {None}]
  /\ \A t \in Thread : pc[t] = "starting" => target[t] # None
  /\ seen \subseteq HandleType
  /\ state \in {"unmanaged", "unconfigured", "inactive", "active", "finalized"}

\* A node that is up has the handle the process holds, so a removal of that
\* device is one that takes the node down.
NodeHasDevice ==
  ~crossed /\ node # None /\ node.up => device = node.handle

\* From one reading of the parameters to the next, every start is made on one
\* and the same camera, the one requested if one was, whichever thread makes it
\* and whatever was plugged, unplugged or reset in between; unless on_configure
\* found a device held, one the callback took after on_cleanup.
OneCamera ==
  ~inherited => \A c, d \in started : c = d /\ requested \in {Any, c}

\* Without the lifecycle, a camera that stays connected ends up with a node on
\* it, after any number of removals, resets and backend errors, unless threads
\* crossed, a removal came before the callback was set, or a start failed
\* otherwise.
Up(d) == node # None /\ node.up /\ node.handle = Handle(d)
Recovers ==
  \A d \in Device :
    <>[](d \in present /\ serial_no = d /\ rebooting = {}) =>
      <>[](Up(d) \/ crossed \/ missed \/ refused \/ ~Unmanaged)
===========================================================================
