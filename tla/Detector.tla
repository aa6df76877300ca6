------------------------------- MODULE Detector -------------------------------
(***************************************************************************)
(* How the native side learns of devices: DeviceDetectorFragment.kt with   *)
(* its USBMonitor, and DeviceDetector.kt, which keeps the devices by name  *)
(* and hands file descriptors to the USB library.                          *)
(*                                                                         *)
(* Three threads, no lock but mConnectors': the platform thread runs the   *)
(* fragment's life cycle, the monitor's thread its callbacks, the handler  *)
(* thread the refreshes that the native side asks for.  The fragment is    *)
(* retained: when its activity is made anew it is detached and attached    *)
(* again, with a new monitor and a new handler but the same connectors,    *)
(* and a callback of the old monitor may still be running then.            *)
(*                                                                         *)
(* External: USBMonitor (its callbacks are serial, register() and          *)
(* refreshDevices() announce what is plugged in, unregister() may leave    *)
(* callbacks queued, destroy() drops those that have not begun), and the   *)
(* library's table of descriptors.                                         *)
(***************************************************************************)
EXTENDS Naturals, Sequences, FiniteSets

CONSTANTS Device,
          MaxAttach,   \* bound: how often the fragment is attached
          MaxStarts,   \* bound: how often it is started
          MaxPlugs,    \* bound: how often a device is plugged in
          MaxRequests  \* bound: refreshes the native side asks for

ASSUME DetectorAssumption ==
    /\ IsFiniteSet(Device) /\ Device # {}
    /\ {MaxAttach, MaxStarts, MaxPlugs, MaxRequests} \subseteq Nat

None == 0                    \* no monitor, no handler, no connector
Instance == 1..MaxAttach     \* a monitor and a handler for each attachment

VARIABLES
    plugged, permitted, asked,       \* devices: plugged in, ours to open, permission asked
    fragment,                        \* where the life cycle is
    mUSBMonitor, mAsyncHandler,
    listening,                       \* is mDeviceDetectorCallback registered?
    registered,                      \* is mUSBMonitor?
    queue,                           \* callbacks each monitor has yet to make
    pc, device, connector,           \* where its thread is, with which device and connector
    posted, handler,                 \* a refresh each handler has yet to run, and is running
    mConnectors, mDevices,
    native,                          \* the connector whose descriptor the library has
    opened, open,                    \* connectors opened so far, and not closed yet
    crashed,                         \* where mUSBMonitor!! met null, or "no"
    late,                            \* history: something was under way when onStop cleared
    again,                           \* history: devices were announced more than once
    failed,                          \* history: a device there to open was not opened when last tried
    attaches, starts, plugs, requests

usbVars       == <<plugged, permitted, asked>>
fragmentVars  == <<fragment, mUSBMonitor, mAsyncHandler, listening, registered>>
monitorVars   == <<queue, pc, device, connector>>
handlerVars   == <<posted, handler>>
connectorVars == <<mConnectors, opened, open>>
tableVars     == <<connectorVars, mDevices, native>>
historyVars   == <<late, again, failed>>
boundVars     == <<attaches, starts, plugs, requests>>
vars == <<usbVars, fragmentVars, monitorVars, handlerVars, tableVars, crashed,
          historyVars, boundVars>>

Event == [kind : {"attach", "permission", "detach"}, device : Device]
Adding == {"test", "open", "put", "note", "nativeAdd"}
Removing == {"nativeRemove", "forget", "close"}
Reads == {"hasPermission", "openDevice", "isRegistered", "refreshDevices"}

TypeOK ==
    /\ plugged \subseteq Device /\ permitted \subseteq plugged /\ asked \subseteq plugged
    /\ fragment \in {"none", "pending", "attached", "started", "clearing", "stopped",
                     "destroying", "quitting", "detached", "gone"}
    /\ mUSBMonitor \in 0..attaches /\ mAsyncHandler \in 0..attaches
    /\ listening \in BOOLEAN
    /\ registered \in BOOLEAN /\ (registered => mUSBMonitor # None)
    /\ queue \in [Instance -> Seq(Event)]
    /\ pc \in [Instance -> {"idle"} \cup Adding \cup Removing]
    /\ device \in [Instance -> Device]
    /\ connector \in [Instance -> Nat]
    /\ posted \in [Instance -> BOOLEAN]
    /\ handler \in [Instance -> {"idle", "clear", "test", "registered", "refresh"}]
    /\ mConnectors \in [Device -> Nat]
    /\ mDevices \subseteq Device
    /\ native \in [Device -> Nat]
    /\ opened \in [Device -> Nat]
    /\ open \in [Device -> SUBSET Nat]
    /\ crashed \in {"no"} \cup Reads
    /\ late \in BOOLEAN /\ again \in BOOLEAN /\ failed \subseteq permitted
    /\ attaches \in 0..MaxAttach /\ starts \in 0..MaxStarts
    /\ plugs \in 0..MaxPlugs /\ requests \in 0..MaxRequests

Nothing == [d \in Device |-> None]

Init ==
    /\ plugged = {} /\ permitted = {} /\ asked = {}
    /\ fragment = "none" /\ mUSBMonitor = None /\ mAsyncHandler = None
    /\ listening = FALSE /\ registered = FALSE
    /\ queue = [m \in Instance |-> <<>>]
    /\ pc = [m \in Instance |-> "idle"]
    /\ device \in [Instance -> {CHOOSE d \in Device : TRUE}]
    /\ connector = [m \in Instance |-> None]
    /\ posted = [m \in Instance |-> FALSE]
    /\ handler = [m \in Instance |-> "idle"]
    /\ mConnectors = Nothing /\ mDevices = {} /\ native = Nothing
    /\ opened = Nothing /\ open = [d \in Device |-> {}]
    /\ crashed = "no" /\ late = FALSE /\ again = FALSE /\ failed = {}
    /\ attaches = 0 /\ starts = 0 /\ plugs = 0 /\ requests = 0

-----------------------------------------------------------------------------
(* USBMonitor, seen from outside.                                          *)

Orders(S) == {s \in [1..Cardinality(S) -> S] : \A i, j \in DOMAIN s : s[i] = s[j] => i = j}

\* Everything that is plugged in is announced, in some order.
Announce(m) ==
    \E s \in Orders(plugged) :
        queue' = [queue EXCEPT ![m] = @ \o [i \in DOMAIN s |-> [kind |-> "attach", device |-> s[i]]]]

\* The system's broadcasts reach a monitor that is registered.
Broadcast(k, d) ==
    queue' = IF registered
             THEN [queue EXCEPT ![mUSBMonitor] = Append(@, [kind |-> k, device |-> d])]
             ELSE queue

\* A callback about d is being made.
Touched(d) == \E m \in Instance : pc[m] # "idle" /\ device[m] = d

\* A device, which is to say its name, may come with a permission that the user
\* gave for good.  The kernel numbers names on: one is not used again while callbacks
\* about it are under way.
Plug(d) ==
    /\ d \notin plugged /\ plugs < MaxPlugs
    /\ ~Touched(d)
    /\ \A m \in Instance : \A i \in DOMAIN queue[m] : queue[m][i].device # d
    /\ plugs' = plugs + 1
    /\ plugged' = plugged \cup {d}
    /\ permitted' \in {permitted, permitted \cup {d}}
    /\ Broadcast("attach", d)
    /\ UNCHANGED <<asked, fragmentVars, pc, device, connector, handlerVars, tableVars,
                   crashed, historyVars, attaches, starts, requests>>

Unplug(d) ==
    /\ d \in plugged
    /\ plugged' = plugged \ {d} /\ permitted' = permitted \ {d} /\ asked' = asked \ {d}
    /\ failed' = failed \ {d}
    /\ Broadcast("detach", d)
    /\ UNCHANGED <<fragmentVars, pc, device, connector, handlerVars, tableVars,
                   crashed, late, again, boundVars>>

\* The user answers the dialog.
Grant(d) ==
    /\ d \in asked
    /\ asked' = asked \ {d} /\ permitted' = permitted \cup {d}
    /\ Broadcast("permission", d)
    /\ UNCHANGED <<plugged, fragmentVars, pc, device, connector, handlerVars, tableVars,
                   crashed, historyVars, boundVars>>

-----------------------------------------------------------------------------
(* The life cycle of the fragment, on the platform thread.                 *)

To(l) == fragment' = l

\* initDeviceDetector: one fragment, found by its tag from then on.
InitDeviceDetector ==
    /\ fragment = "none"
    /\ To("pending")
    /\ UNCHANGED <<usbVars, mUSBMonitor, mAsyncHandler, listening, registered, monitorVars,
                   handlerVars, tableVars, crashed, historyVars, boundVars>>

OnAttach ==
    /\ fragment \in {"pending", "detached"} /\ attaches < MaxAttach
    /\ attaches' = attaches + 1
    /\ To("attached")
    /\ mAsyncHandler' = attaches' /\ mUSBMonitor' = attaches'
    /\ listening' = TRUE
    /\ UNCHANGED <<usbVars, registered, monitorVars, handlerVars, tableVars, crashed,
                   historyVars, starts, plugs, requests>>

OnStart ==
    /\ fragment \in {"attached", "stopped"} /\ starts < MaxStarts
    /\ starts' = starts + 1
    /\ To("started")
    /\ registered' = TRUE
    /\ Announce(mUSBMonitor)
    /\ again' = (again \/ starts > 0)
    /\ UNCHANGED <<usbVars, mUSBMonitor, mAsyncHandler, listening, pc, device, connector,
                   handlerVars, tableVars, crashed, late, failed, attaches, plugs, requests>>

\* Mutation of OnStop: the monitor stays registered.
OnStopRegistered ==
    /\ fragment = "started"
    /\ To("clearing")
    /\ UNCHANGED <<usbVars, mUSBMonitor, mAsyncHandler, listening, registered, monitorVars,
                   handlerVars, tableVars, crashed, historyVars, boundVars>>

\* unregister(): nothing is announced any more, what is queued may be dropped.
OnStop ==
    /\ fragment = "started"
    /\ To("clearing")
    /\ registered' = FALSE
    /\ queue' \in {queue, [queue EXCEPT ![mUSBMonitor] = <<>>]}
    /\ UNCHANGED <<usbVars, mUSBMonitor, mAsyncHandler, listening, pc, device, connector,
                   handlerVars, tableVars, crashed, historyVars, boundVars>>

\* A callback runs or is queued, or a refresh has found the monitor registered.
UnderWay == \E m \in Instance : pc[m] # "idle" \/ queue[m] # <<>> \/ handler[m] = "refresh"

\* Mutation of OnStopClears: onStop keeps the native side's devices.
OnStopKeeps ==
    /\ fragment = "clearing"
    /\ To("stopped")
    /\ late' = UnderWay
    /\ UNCHANGED <<usbVars, mUSBMonitor, mAsyncHandler, listening, registered, monitorVars,
                   handlerVars, tableVars, crashed, again, failed, boundVars>>

\* clearAll() at the end of onStop: the library forgets its descriptors,
\* mDevices and mConnectors stay as they are.
OnStopClears ==
    /\ fragment = "clearing"
    /\ To("stopped")
    /\ native' = Nothing
    /\ late' = UnderWay
    /\ UNCHANGED <<usbVars, mUSBMonitor, mAsyncHandler, listening, registered, monitorVars,
                   handlerVars, connectorVars, mDevices, crashed, again, failed, boundVars>>

\* onDetach: the callback goes first, ...
OnDetach ==
    /\ fragment \in {"attached", "stopped"}
    /\ To("destroying")
    /\ listening' = FALSE
    /\ UNCHANGED <<usbVars, mUSBMonitor, mAsyncHandler, registered, monitorVars, handlerVars,
                   tableVars, crashed, historyVars, boundVars>>

\* Mutation of DestroyMonitor: the monitor is dropped while registered, if onStop left it so.
DestroyRegistered ==
    /\ fragment = "destroying"
    /\ To("quitting")
    /\ mUSBMonitor' = None /\ registered' = TRUE
    /\ UNCHANGED <<usbVars, mAsyncHandler, listening, monitorVars, handlerVars,
                   tableVars, crashed, historyVars, boundVars>>

\* ... then the monitor with its queue, but not with the callback it is making, ...
DestroyMonitor ==
    /\ fragment = "destroying"
    /\ To("quitting")
    /\ queue' = [queue EXCEPT ![mUSBMonitor] = <<>>]
    /\ mUSBMonitor' = None /\ registered' = FALSE
    /\ UNCHANGED <<usbVars, mAsyncHandler, listening, pc, device, connector, handlerVars,
                   tableVars, crashed, historyVars, boundVars>>

\* ... and the handler with what was posted to it.  The activity is made anew,
\* or the fragment was removed with it.
QuitHandler ==
    /\ fragment = "quitting"
    /\ \E l \in {"detached", "gone"} : To(l)
    /\ posted' = [posted EXCEPT ![mAsyncHandler] = FALSE]
    /\ mAsyncHandler' = None
    /\ UNCHANGED <<usbVars, mUSBMonitor, listening, registered, monitorVars, handler, tableVars,
                   crashed, historyVars, boundVars>>

PlatformStep == OnStopClears \/ DestroyMonitor \/ QuitHandler

-----------------------------------------------------------------------------
(* mOnDeviceConnectListener, on the thread of monitor m.                   *)

PcTo(m, l) == pc' = [pc EXCEPT ![m] = l]

\* mUSBMonitor!! at one of its reads meets null.
Crash(read) == crashed' = read

Callback(m) ==
    /\ pc[m] = "idle" /\ queue[m] # <<>>
    /\ queue' = [queue EXCEPT ![m] = Tail(@)]
    /\ device' = [device EXCEPT ![m] = Head(queue[m]).device]
    /\ PcTo(m, IF Head(queue[m]).kind = "detach" THEN "nativeRemove" ELSE "test")
    /\ UNCHANGED <<usbVars, fragmentVars, connector, handlerVars, tableVars, crashed,
                   historyVars, boundVars>>

\* onAttach and addDevice: without a permission it is asked for.  (onPermission
\* asks for nothing: its device has one, or is gone.)
HasPermission(m) ==
    /\ pc[m] = "test"
    /\ IF mUSBMonitor = None
       THEN Crash("hasPermission") /\ UNCHANGED <<pc, asked>>
       ELSE /\ PcTo(m, IF device[m] \in permitted THEN "open" ELSE "idle")
            /\ asked' = IF device[m] \in plugged \ permitted THEN asked \cup {device[m]} ELSE asked
            /\ UNCHANGED crashed
    /\ UNCHANGED <<plugged, permitted, fragmentVars, queue, device, connector, handlerVars,
                   tableVars, historyVars, boundVars>>

\* openDevice gives a connector of its own, or throws an IOException: the device is
\* gone, or the system does not open it.  It is not tried again.
OpenDevice(m) ==
    /\ pc[m] = "open"
    /\ LET d == device[m] IN
       \/ /\ mUSBMonitor = None
          /\ Crash("openDevice")
          /\ UNCHANGED <<pc, connector, opened, open, failed>>
       \/ /\ mUSBMonitor # None /\ d \in permitted
          /\ opened' = [opened EXCEPT ![d] = @ + 1]
          /\ open' = [open EXCEPT ![d] = @ \cup {opened'[d]}]
          /\ connector' = [connector EXCEPT ![m] = opened'[d]]
          /\ failed' = failed \ {d}
          /\ PcTo(m, "put")
          /\ UNCHANGED crashed
       \/ /\ mUSBMonitor # None
          /\ failed' = failed \cup ({d} \cap permitted)
          /\ PcTo(m, "idle")
          /\ UNCHANGED <<connector, opened, open, crashed>>
    /\ UNCHANGED <<usbVars, fragmentVars, queue, device, handlerVars, mConnectors, mDevices,
                   native, late, again, boundVars>>

\* Mutation of PutConnector: the library gets the descriptor before the connector is
\* kept.
AddBeforePut(m) ==
    /\ pc[m] = "put"
    /\ IF native[device[m]] # connector[m]
       THEN /\ native' = [native EXCEPT ![device[m]] = connector[m]]
            /\ mDevices' = mDevices \cup {device[m]}
            /\ UNCHANGED <<pc, mConnectors>>
       ELSE /\ mConnectors' = [mConnectors EXCEPT ![device[m]] = connector[m]]
            /\ PcTo(m, "idle")
            /\ UNCHANGED <<mDevices, native>>
    /\ UNCHANGED <<usbVars, fragmentVars, queue, device, connector, handlerVars, opened, open,
                   crashed, historyVars, boundVars>>

\* An older connector of the device is overwritten, and stays open.
PutConnector(m) ==
    /\ pc[m] = "put"
    /\ mConnectors' = [mConnectors EXCEPT ![device[m]] = connector[m]]
    /\ PcTo(m, "note")
    /\ UNCHANGED <<usbVars, fragmentVars, queue, device, connector, handlerVars, opened, open,
                   mDevices, native, crashed, historyVars, boundVars>>

\* DeviceDetector.add: mDevices, then the library.
NoteDevice(m) ==
    /\ pc[m] = "note"
    /\ mDevices' = mDevices \cup {device[m]}
    /\ PcTo(m, "nativeAdd")
    /\ UNCHANGED <<usbVars, fragmentVars, queue, device, connector, handlerVars, connectorVars,
                   native, crashed, historyVars, boundVars>>

NativeAdd(m) ==
    /\ pc[m] = "nativeAdd"
    /\ native' = [native EXCEPT ![device[m]] = connector[m]]
    /\ PcTo(m, "idle")
    /\ UNCHANGED <<usbVars, fragmentVars, queue, device, connector, handlerVars, connectorVars,
                   mDevices, crashed, historyVars, boundVars>>

\* removeDevice: DeviceDetector.remove is the library, then mDevices, ...
NativeRemove(m) ==
    /\ pc[m] = "nativeRemove"
    /\ native' = [native EXCEPT ![device[m]] = None]
    /\ PcTo(m, "forget")
    /\ UNCHANGED <<usbVars, fragmentVars, queue, device, connector, handlerVars, connectorVars,
                   mDevices, crashed, historyVars, boundVars>>

ForgetDevice(m) ==
    /\ pc[m] = "forget"
    /\ mDevices' = mDevices \ {device[m]}
    /\ PcTo(m, "close")
    /\ UNCHANGED <<usbVars, fragmentVars, queue, device, connector, handlerVars, connectorVars,
                   native, crashed, historyVars, boundVars>>

\* Mutation of CloseConnector: removed from mConnectors and never closed.
CloseNothing(m) ==
    /\ pc[m] = "close"
    /\ mConnectors' = [mConnectors EXCEPT ![device[m]] = None]
    /\ PcTo(m, "idle")
    /\ UNCHANGED <<usbVars, fragmentVars, queue, device, connector, handlerVars, opened, open,
                   mDevices, native, crashed, historyVars, boundVars>>

\* ... then the connector, if there is one.
CloseConnector(m) ==
    /\ pc[m] = "close"
    /\ mConnectors' = [mConnectors EXCEPT ![device[m]] = None]
    /\ open' = [open EXCEPT ![device[m]] = @ \ {mConnectors[device[m]]}]
    /\ PcTo(m, "idle")
    /\ UNCHANGED <<usbVars, fragmentVars, queue, device, connector, handlerVars, opened,
                   mDevices, native, crashed, historyVars, boundVars>>

MonitorStep(m) ==
    \/ Callback(m) \/ HasPermission(m) \/ OpenDevice(m)
    \/ PutConnector(m) \/ NoteDevice(m) \/ NativeAdd(m)
    \/ NativeRemove(m) \/ ForgetDevice(m) \/ CloseConnector(m)

-----------------------------------------------------------------------------
(* onRequestRefreshDevices: the native side asks, a handler thread does it. *)

RequestRefresh ==
    /\ listening /\ mAsyncHandler # None /\ requests < MaxRequests
    /\ requests' = requests + 1
    /\ posted' = [posted EXCEPT ![mAsyncHandler] = TRUE]
    /\ UNCHANGED <<usbVars, fragmentVars, monitorVars, handler, tableVars, crashed,
                   historyVars, attaches, starts, plugs>>

HandlerTo(m, l) == handler' = [handler EXCEPT ![m] = l]

RunPosted(m) ==
    /\ handler[m] = "idle" /\ posted[m]
    /\ posted' = [posted EXCEPT ![m] = FALSE]
    /\ HandlerTo(m, "clear")
    /\ UNCHANGED <<usbVars, fragmentVars, monitorVars, tableVars, crashed, historyVars, boundVars>>

RefreshClears(m) ==
    /\ handler[m] = "clear"
    /\ native' = Nothing
    /\ HandlerTo(m, "test")
    /\ UNCHANGED <<usbVars, fragmentVars, monitorVars, posted, connectorVars, mDevices, crashed,
                   historyVars, boundVars>>

\* mUSBMonitor is read for the test, ...
HasMonitor(m) ==
    /\ handler[m] = "test"
    /\ HandlerTo(m, IF mUSBMonitor # None THEN "registered" ELSE "idle")
    /\ UNCHANGED <<usbVars, fragmentVars, monitorVars, posted, tableVars, crashed, historyVars,
                   boundVars>>

\* Mutation of IsRegistered: the test is the wrong way round.
IsNotRegistered(m) ==
    /\ handler[m] = "registered"
    /\ IF mUSBMonitor = None
       THEN Crash("isRegistered") /\ UNCHANGED handler
       ELSE HandlerTo(m, IF ~registered THEN "refresh" ELSE "idle") /\ UNCHANGED crashed
    /\ UNCHANGED <<usbVars, fragmentVars, monitorVars, posted, tableVars, historyVars, boundVars>>

\* ... again for isRegistered, ...
IsRegistered(m) ==
    /\ handler[m] = "registered"
    /\ IF mUSBMonitor = None
       THEN Crash("isRegistered") /\ UNCHANGED handler
       ELSE HandlerTo(m, IF registered THEN "refresh" ELSE "idle") /\ UNCHANGED crashed
    /\ UNCHANGED <<usbVars, fragmentVars, monitorVars, posted, tableVars, historyVars, boundVars>>

\* ... and once more for refreshDevices().
RefreshDevices(m) ==
    /\ handler[m] = "refresh"
    /\ IF mUSBMonitor = None
       THEN Crash("refreshDevices") /\ UNCHANGED queue
       ELSE Announce(mUSBMonitor) /\ UNCHANGED crashed
    /\ HandlerTo(m, "idle")
    /\ again' = TRUE
    /\ UNCHANGED <<usbVars, fragmentVars, pc, device, connector, posted, tableVars, late,
                   failed, boundVars>>

HandlerStep(m) ==
    RunPosted(m) \/ RefreshClears(m) \/ HasMonitor(m) \/ IsRegistered(m) \/ RefreshDevices(m)

-----------------------------------------------------------------------------
\* An exception that nobody catches ends the process.
Next ==
    /\ crashed = "no"
    /\ \/ \E d \in Device : Plug(d) \/ Unplug(d) \/ Grant(d)
       \/ InitDeviceDetector \/ OnAttach \/ OnStart \/ OnStop \/ OnDetach
       \/ PlatformStep \/ RequestRefresh
       \/ \E m \in Instance : MonitorStep(m) \/ HandlerStep(m)

\* Threads run on.  Nothing makes anyone plug, permit, start or ask.
Fairness ==
    /\ WF_vars(crashed = "no" /\ PlatformStep)
    /\ \A m \in Instance : /\ WF_vars(crashed = "no" /\ MonitorStep(m))
                           /\ WF_vars(crashed = "no" /\ HandlerStep(m))

Spec == Init /\ [][Next]_vars /\ Fairness

-----------------------------------------------------------------------------
(* Properties.                                                             *)

\* The connector that a claim for d reaches: onRequestClaimInterfaces of
\* DeviceDetector finds the device by its name, that of the fragment its connector.
Claimed(d) == IF d \in mDevices /\ listening THEN mConnectors[d] ELSE None

\* Between the two ends of addDevice: c is kept for d, the library does not know yet.
Replaces(c, d) ==
    \E m \in Instance : pc[m] \in {"note", "nativeAdd"} /\ device[m] = d /\ connector[m] = c

\* Unless something was under way when onStop cleared the library: while the library
\* has a descriptor of a device, its connector is open, and a claim of an interface
\* reaches an open connector too - that very one, or the one that addDevice, called
\* for the device again, is about to give in its place.  And when addDevice comes to
\* the library, whose own claims may come from within that call, a claim reaches the
\* connector whose descriptor it brings.  So DeviceDetector.add has to come last in
\* addDevice, remove first in removeDevice, with refreshes and restarts between.
ClaimsServed ==
    ~late =>
        /\ \A d \in Device : native[d] # None =>
               /\ {native[d], Claimed(d)} \subseteq open[d]
               /\ Claimed(d) = native[d] \/ Replaces(Claimed(d), d)
        /\ \A m \in Instance : pc[m] = "nativeAdd" =>
               /\ Claimed(device[m]) = connector[m]
               /\ connector[m] \in open[device[m]]

\* With the activity stopped the library has no device, unless a callback or a
\* refresh was under way when onStop cleared it: what that adds stays, plugged in
\* or not.
ForgottenWhenStopped ==
    (fragment \in {"stopped", "destroying", "quitting", "detached", "gone"} /\ ~late) => native = Nothing

\* The callbacks' mUSBMonitor!! and that of refreshDevices() find a monitor, unless
\* something was under way when the fragment stopped: only then are they left to be
\* made after onDetach.  (Not so the one of isRegistered.)
MonitorFound == crashed \notin {"no", "isRegistered"} => late

\* What the code of the refresh says by its test, mUSBMonitor != null && ...: that the
\* mUSBMonitor!!.isRegistered behind it finds the monitor the test found.
TestedMonitorFound == crashed # "isRegistered"

\* Every device is opened once: what is open is in mConnectors or being added
\* or removed, as long as no restart and no refresh announces it again.
NothingLost ==
    ~again => \A d \in Device : ~Touched(d) => open[d] = {mConnectors[d]} \ {None}

\* In an activity that stays started, without left-overs of an earlier stop, the
\* library comes to know exactly the devices that are plugged in and permitted,
\* whatever came and went, was granted or refreshed before - but for one that the
\* system did not open when it was last tried.
Converges ==
    <>[](fragment = "started" /\ ~late) =>
        <>[](\A d \in Device : /\ native[d] # None => d \in permitted
                              /\ d \in permitted \ failed => native[d] # None)
=============================================================================
