--------------------------- MODULE Detector_proofs ---------------------------
(***************************************************************************)
(* Theorems about Detector, for any set of devices and any number of       *)
(* attachments, starts, plugs and refreshes.                               *)
(***************************************************************************)
EXTENDS Detector, FiniteSetTheorems, TLAPS

-----------------------------------------------------------------------------
(* Type correctness.                                                       *)

\* TypeOK in four parts, of which most steps leave two alone.
FragmentType ==
    /\ plugged \subseteq Device /\ permitted \subseteq plugged /\ asked \subseteq plugged
    /\ fragment \in {"none", "pending", "attached", "started", "clearing", "stopped",
                     "destroying", "quitting", "detached", "gone"}
    /\ mUSBMonitor \in 0..attaches /\ mAsyncHandler \in 0..attaches
    /\ listening \in BOOLEAN
    /\ registered \in BOOLEAN /\ (registered => mUSBMonitor # None)
    /\ crashed \in {"no"} \cup Reads
    /\ late \in BOOLEAN /\ again \in BOOLEAN /\ failed \subseteq permitted
    /\ attaches \in 0..MaxAttach /\ starts \in 0..MaxStarts
    /\ plugs \in 0..MaxPlugs /\ requests \in 0..MaxRequests

ThreadType ==
    /\ pc \in [Instance -> {"idle"} \cup Adding \cup Removing]
    /\ device \in [Instance -> Device]
    /\ connector \in [Instance -> Nat]
    /\ posted \in [Instance -> BOOLEAN]
    /\ handler \in [Instance -> {"idle", "clear", "test", "registered", "refresh"}]

TableType ==
    /\ mConnectors \in [Device -> Nat]
    /\ mDevices \subseteq Device
    /\ native \in [Device -> Nat]
    /\ opened \in [Device -> Nat]
    /\ open \in [Device -> SUBSET Nat]

QueueType == queue \in [Instance -> Seq(Event)]

\* The monitor is there from onAttach to onDetach, and registered while the activity
\* is started; a claim finds its way from onAttach to onDetach too.
Life ==
    /\ fragment \in {"attached", "started", "clearing", "stopped", "destroying"} => mUSBMonitor # None
    /\ fragment \in {"attached", "started", "clearing", "stopped"} => listening
    /\ fragment # "started" => ~registered

TypeInv == FragmentType /\ ThreadType /\ TableType /\ QueueType /\ Life

\* The parts together are the type invariant of the model.
LEMMA TypeParts == TypeInv => TypeOK
BY DEF TypeInv, FragmentType, ThreadType, TableType, QueueType, TypeOK

\* The monitor of the present, if there is one, and the next one, have a number.
LEMMA MonitorNumber ==
    /\ FragmentType /\ mUSBMonitor # None => mUSBMonitor \in Instance
    /\ \A n \in 0..MaxAttach : n < MaxAttach => n + 1 \in Instance /\ n + 1 \in 0..MaxAttach
    /\ 0 \in 0..MaxAttach
BY DetectorAssumption DEF FragmentType, Instance, None

\* What is announced are attach events of the devices plugged in, at the end of the queue.
LEMMA AnnounceType ==
    ASSUME TypeInv, NEW m \in Instance, Announce(m)
    PROVE  QueueType' /\ \A n \in Instance : n # m => queue'[n] = queue[n]
<1>1. PICK s \in Orders(plugged) :
        queue' = [queue EXCEPT ![m] =
                    queue[m] \o [i \in DOMAIN s |-> [kind |-> "attach", device |-> s[i]]]]
  BY DEF Announce
<1>2. Cardinality(plugged) \in Nat
  BY FS_Subset, FS_CardinalityType, DetectorAssumption DEF TypeInv, FragmentType
<1>3. s \in [1..Cardinality(plugged) -> Device]
  BY DEF Orders, TypeInv, FragmentType
<1>4. [i \in DOMAIN s |-> [kind |-> "attach", device |-> s[i]]] \in Seq(Event)
  <2>1. [i \in DOMAIN s |-> [kind |-> "attach", device |-> s[i]]]
            \in [1..Cardinality(plugged) -> Event]
    BY <1>3 DEF Event
  <2> QED
    BY <1>2, <2>1
<1>5. queue[m] \o [i \in DOMAIN s |-> [kind |-> "attach", device |-> s[i]]] \in Seq(Event)
  BY <1>4 DEF TypeInv, QueueType
<1> QED
  BY <1>1, <1>5 DEF TypeInv, QueueType

\* A broadcast goes into the queue of the monitor that is registered.
LEMMA BroadcastType ==
    ASSUME TypeInv, NEW d \in Device, NEW k \in {"attach", "permission", "detach"}, Broadcast(k, d)
    PROVE  /\ QueueType'
           /\ \A n \in Instance : ~registered \/ n # mUSBMonitor => queue'[n] = queue[n]
<1>1. CASE registered
  <2>1. mUSBMonitor \in Instance
    BY <1>1, MonitorNumber DEF TypeInv, FragmentType
  <2>2. [kind |-> k, device |-> d] \in Event
    BY DEF Event
  <2>3. Append(queue[mUSBMonitor], [kind |-> k, device |-> d]) \in Seq(Event)
    BY <2>1, <2>2 DEF TypeInv, QueueType
  <2>4. queue' = [queue EXCEPT ![mUSBMonitor] =
                    Append(queue[mUSBMonitor], [kind |-> k, device |-> d])]
    BY <1>1 DEF Broadcast
  <2>5. QueueType'
    BY <2>3, <2>4 DEF TypeInv, QueueType
  <2>6. \A n \in Instance : n # mUSBMonitor => queue'[n] = queue[n]
    BY <2>4 DEF TypeInv
  <2> QED
    BY <1>1, <2>5, <2>6
<1>2. CASE ~registered
  BY <1>2 DEF Broadcast, TypeInv, QueueType
<1> QED
  BY <1>1, <1>2

\* A process that starts has all parts in type.
LEMMA TypeInit == Init => TypeInv
<1> SUFFICES ASSUME Init PROVE TypeInv
  OBVIOUS
<1>1. (CHOOSE d \in Device : TRUE) \in Device
  BY DetectorAssumption
<1>2. FragmentType /\ Life
  <2>1. MaxAttach \in Nat /\ MaxStarts \in Nat /\ MaxPlugs \in Nat /\ MaxRequests \in Nat
    BY DetectorAssumption
  <2>2. FragmentType
    <3>1. /\ plugged = {} /\ permitted = {} /\ asked = {} /\ fragment = "none"
          /\ mUSBMonitor = 0 /\ mAsyncHandler = 0
          /\ attaches = 0 /\ starts = 0 /\ plugs = 0 /\ requests = 0
      BY DEF Init, None
    <3>2. /\ listening \in BOOLEAN /\ registered \in BOOLEAN /\ ~registered
          /\ crashed = "no" /\ late \in BOOLEAN /\ again \in BOOLEAN /\ failed = {}
      BY DEF Init
    <3>3. /\ mUSBMonitor \in 0..attaches /\ mAsyncHandler \in 0..attaches
          /\ attaches \in 0..MaxAttach /\ starts \in 0..MaxStarts
          /\ plugs \in 0..MaxPlugs /\ requests \in 0..MaxRequests
      BY <2>1, <3>1
    <3> QED
      BY <3>1, <3>2, <3>3 DEF FragmentType
  <2>3. Life
    BY DEF Init, Life, None
  <2> QED
    BY <2>2, <2>3
<1>3. ThreadType
  BY <1>1 DEF Init, ThreadType, None
<1>4. TableType
  BY DEF Init, TableType, Nothing, None
<1>5. QueueType
  <2>1. <<>> \in Seq(Event)
    OBVIOUS
  <2> QED
    BY <2>1 DEF Init, QueueType
<1> QED
  BY <1>2, <1>3, <1>4, <1>5 DEF TypeInv

\* Every step keeps every part in type, and the monitor where the life cycle wants it.
LEMMA TypeStep == TypeInv /\ [Next]_vars => TypeInv'
<1> SUFFICES ASSUME TypeInv, [Next]_vars PROVE TypeInv'
  OBVIOUS
<1> USE DetectorAssumption DEF TypeInv
<1>1. ASSUME NEW d \in Device, Plug(d) PROVE TypeInv'
  <2>1. FragmentType' /\ Life'
    BY <1>1 DEF Plug, FragmentType, Life, fragmentVars, historyVars
  <2>2. ThreadType'
    BY <1>1 DEF Plug, ThreadType, handlerVars
  <2>3. TableType'
    BY <1>1 DEF Plug, TableType, tableVars, connectorVars
  <2>4. QueueType'
    BY <1>1, BroadcastType DEF Plug
  <2> QED
    BY <2>1, <2>2, <2>3, <2>4
<1>2. ASSUME NEW d \in Device, Unplug(d) PROVE TypeInv'
  <2>1. FragmentType' /\ Life'
    BY <1>2 DEF Unplug, FragmentType, Life, fragmentVars, historyVars, boundVars
  <2>2. ThreadType'
    BY <1>2 DEF Unplug, ThreadType, handlerVars
  <2>3. TableType'
    BY <1>2 DEF Unplug, TableType, tableVars, connectorVars
  <2>4. QueueType'
    BY <1>2, BroadcastType DEF Unplug
  <2> QED
    BY <2>1, <2>2, <2>3, <2>4
<1>3. ASSUME NEW d \in Device, Grant(d) PROVE TypeInv'
  <2>1. FragmentType' /\ Life'
    BY <1>3 DEF Grant, FragmentType, Life, fragmentVars, historyVars, boundVars
  <2>2. ThreadType'
    BY <1>3 DEF Grant, ThreadType, handlerVars
  <2>3. TableType'
    BY <1>3 DEF Grant, TableType, tableVars, connectorVars
  <2>4. QueueType'
    BY <1>3, BroadcastType DEF Grant
  <2> QED
    BY <2>1, <2>2, <2>3, <2>4
<1>4. CASE InitDeviceDetector
  <2>1. FragmentType' /\ Life'
    BY <1>4 DEF InitDeviceDetector, To, FragmentType, Life, usbVars,
       historyVars, boundVars
  <2>2. ThreadType'
    BY <1>4 DEF InitDeviceDetector, ThreadType, monitorVars, handlerVars
  <2>3. TableType'
    BY <1>4 DEF InitDeviceDetector, TableType, tableVars, connectorVars
  <2>4. QueueType'
    BY <1>4 DEF InitDeviceDetector, QueueType, monitorVars
  <2> QED
    BY <2>1, <2>2, <2>3, <2>4
<1>5. CASE OnAttach
  <2>1. FragmentType' /\ Life'
    BY <1>5, MonitorNumber DEF OnAttach, To, FragmentType, Life, None, usbVars, historyVars
  <2>2. ThreadType'
    BY <1>5 DEF OnAttach, ThreadType, monitorVars, handlerVars
  <2>3. TableType'
    BY <1>5 DEF OnAttach, TableType, tableVars, connectorVars
  <2>4. QueueType'
    BY <1>5 DEF OnAttach, QueueType, monitorVars
  <2> QED
    BY <2>1, <2>2, <2>3, <2>4
<1>6. CASE OnStart
  <2>1. FragmentType' /\ Life'
    BY <1>6, MonitorNumber DEF OnStart, To, FragmentType, Life, usbVars
  <2>2. ThreadType'
    BY <1>6 DEF OnStart, ThreadType, handlerVars
  <2>3. TableType'
    BY <1>6 DEF OnStart, TableType, tableVars, connectorVars
  <2>4. QueueType'
    <3>1. mUSBMonitor \in Instance
      BY <1>6, MonitorNumber DEF OnStart, Life
    <3> QED
      BY <1>6, <3>1, AnnounceType DEF OnStart
  <2> QED
    BY <2>1, <2>2, <2>3, <2>4
<1>7. CASE OnStop
  <2>1. FragmentType' /\ Life'
    BY <1>7 DEF OnStop, To, FragmentType, Life, usbVars, historyVars, boundVars
  <2>2. ThreadType'
    BY <1>7 DEF OnStop, ThreadType, handlerVars
  <2>3. TableType'
    BY <1>7 DEF OnStop, TableType, tableVars, connectorVars
  <2>4. QueueType'
    <3>1. <<>> \in Seq(Event)
      OBVIOUS
    <3> QED
      BY <1>7, <3>1 DEF OnStop, QueueType
  <2> QED
    BY <2>1, <2>2, <2>3, <2>4
<1>8. CASE OnDetach
  <2>1. FragmentType' /\ Life'
    BY <1>8 DEF OnDetach, To, FragmentType, Life, usbVars, historyVars,
       boundVars
  <2>2. ThreadType'
    BY <1>8 DEF OnDetach, ThreadType, monitorVars, handlerVars
  <2>3. TableType'
    BY <1>8 DEF OnDetach, TableType, tableVars, connectorVars
  <2>4. QueueType'
    BY <1>8 DEF OnDetach, QueueType, monitorVars
  <2> QED
    BY <2>1, <2>2, <2>3, <2>4
<1>9. CASE OnStopClears
  <2>1. FragmentType' /\ Life'
    <3>1. UnderWay \in BOOLEAN
      BY DEF UnderWay
    <3>2. late' \in BOOLEAN
      BY <1>9, <3>1 DEF OnStopClears
    <3> QED
      BY <1>9, <3>2 DEF OnStopClears, To, FragmentType, Life, usbVars, boundVars
  <2>2. ThreadType'
    BY <1>9 DEF OnStopClears, ThreadType, monitorVars, handlerVars
  <2>3. TableType'
    BY <1>9 DEF OnStopClears, TableType, Nothing, None, connectorVars
  <2>4. QueueType'
    BY <1>9 DEF OnStopClears, QueueType, monitorVars
  <2> QED
    BY <2>1, <2>2, <2>3, <2>4
<1>10. CASE DestroyMonitor
  <2>1. FragmentType' /\ Life'
    <3>1. /\ 0 \in 0..attaches
          /\ mUSBMonitor' = 0 /\ fragment' = "quitting" /\ registered' = FALSE
          /\ UNCHANGED <<usbVars, mAsyncHandler, listening, crashed, historyVars, boundVars>>
      BY <1>10 DEF DestroyMonitor, To, FragmentType, None
    <3> QED
      BY <3>1 DEF FragmentType, Life, usbVars, historyVars, boundVars
  <2>2. ThreadType'
    BY <1>10 DEF DestroyMonitor, ThreadType, handlerVars
  <2>3. TableType'
    BY <1>10 DEF DestroyMonitor, TableType, tableVars, connectorVars
  <2>4. QueueType'
    <3>1. <<>> \in Seq(Event)
      OBVIOUS
    <3> QED
      BY <1>10, <3>1 DEF DestroyMonitor, QueueType
  <2> QED
    BY <2>1, <2>2, <2>3, <2>4
<1>11. CASE QuitHandler
  <2>1. FragmentType' /\ Life'
    BY <1>11 DEF QuitHandler, To, FragmentType, Life, None, usbVars,
       historyVars, boundVars
  <2>2. ThreadType'
    BY <1>11 DEF QuitHandler, ThreadType, monitorVars
  <2>3. TableType'
    BY <1>11 DEF QuitHandler, TableType, tableVars, connectorVars
  <2>4. QueueType'
    BY <1>11 DEF QuitHandler, QueueType, monitorVars
  <2> QED
    BY <2>1, <2>2, <2>3, <2>4
<1>12. CASE RequestRefresh
  <2>1. FragmentType' /\ Life'
    BY <1>12 DEF RequestRefresh, FragmentType, Life, usbVars, fragmentVars,
       historyVars
  <2>2. ThreadType'
    BY <1>12 DEF RequestRefresh, ThreadType, monitorVars
  <2>3. TableType'
    BY <1>12 DEF RequestRefresh, TableType, tableVars, connectorVars
  <2>4. QueueType'
    BY <1>12 DEF RequestRefresh, QueueType, monitorVars
  <2> QED
    BY <2>1, <2>2, <2>3, <2>4
<1>13. ASSUME NEW m \in Instance, Callback(m) PROVE TypeInv'
  <2>1. FragmentType' /\ Life'
    BY <1>13 DEF Callback, FragmentType, Life, usbVars, fragmentVars,
       historyVars, boundVars
  <2>2. ThreadType'
    <3>1. Head(queue[m]) \in Event
      BY <1>13 DEF Callback, QueueType
    <3>2. Head(queue[m]).device \in Device
      BY <3>1 DEF Event
    <3> QED
      BY <1>13, <3>2 DEF Callback, PcTo, ThreadType, Adding, Removing, handlerVars
  <2>3. TableType'
    BY <1>13 DEF Callback, TableType, tableVars, connectorVars
  <2>4. QueueType'
    BY <1>13 DEF Callback, QueueType
  <2> QED
    BY <2>1, <2>2, <2>3, <2>4
<1>14. ASSUME NEW m \in Instance, HasPermission(m) PROVE TypeInv'
  <2>1. FragmentType' /\ Life'
    BY <1>14 DEF HasPermission, PcTo, Crash, Reads, FragmentType, Life,
       fragmentVars, historyVars, boundVars
  <2>2. ThreadType'
    BY <1>14 DEF HasPermission, PcTo, ThreadType, Adding, handlerVars
  <2>3. TableType'
    BY <1>14 DEF HasPermission, TableType, tableVars, connectorVars
  <2>4. QueueType'
    BY <1>14 DEF HasPermission, QueueType
  <2> QED
    BY <2>1, <2>2, <2>3, <2>4
<1>15. ASSUME NEW m \in Instance, OpenDevice(m) PROVE TypeInv'
  <2>1. FragmentType' /\ Life'
    BY <1>15 DEF OpenDevice, Crash, Reads, FragmentType, Life, usbVars,
       fragmentVars, historyVars, boundVars
  <2>2. ThreadType'
    <3>1. /\ \E l \in {"open", "put", "idle"} : pc' = [pc EXCEPT ![m] = l]
          /\ \/ UNCHANGED connector
             \/ connector' = [connector EXCEPT ![m] = opened'[device[m]]]
      BY <1>15 DEF OpenDevice, PcTo, ThreadType
    <3>2. opened' \in [Device -> Nat]
      BY <1>15 DEF OpenDevice, TableType
    <3>3. UNCHANGED <<device, handlerVars>>
      BY <1>15 DEF OpenDevice
    <3> QED
      BY <3>1, <3>2, <3>3 DEF ThreadType, Adding, handlerVars
  <2>3. TableType'
    BY <1>15 DEF OpenDevice, TableType
  <2>4. QueueType'
    BY <1>15 DEF OpenDevice, QueueType
  <2> QED
    BY <2>1, <2>2, <2>3, <2>4
<1>16. ASSUME NEW m \in Instance, PutConnector(m) PROVE TypeInv'
  <2>1. FragmentType' /\ Life'
    BY <1>16 DEF PutConnector, FragmentType, Life, usbVars, fragmentVars,
       historyVars, boundVars
  <2>2. ThreadType'
    BY <1>16 DEF PutConnector, PcTo, ThreadType, Adding, handlerVars
  <2>3. TableType'
    BY <1>16 DEF PutConnector, TableType, ThreadType
  <2>4. QueueType'
    BY <1>16 DEF PutConnector, QueueType
  <2> QED
    BY <2>1, <2>2, <2>3, <2>4
<1>17. ASSUME NEW m \in Instance, NoteDevice(m) PROVE TypeInv'
  <2>1. FragmentType' /\ Life'
    BY <1>17 DEF NoteDevice, FragmentType, Life, usbVars, fragmentVars,
       historyVars, boundVars
  <2>2. ThreadType'
    BY <1>17 DEF NoteDevice, PcTo, ThreadType, Adding, handlerVars
  <2>3. TableType'
    BY <1>17 DEF NoteDevice, TableType, ThreadType, connectorVars
  <2>4. QueueType'
    BY <1>17 DEF NoteDevice, QueueType
  <2> QED
    BY <2>1, <2>2, <2>3, <2>4
<1>18. ASSUME NEW m \in Instance, NativeAdd(m) PROVE TypeInv'
  <2>1. FragmentType' /\ Life'
    BY <1>18 DEF NativeAdd, FragmentType, Life, usbVars, fragmentVars,
       historyVars, boundVars
  <2>2. ThreadType'
    BY <1>18 DEF NativeAdd, PcTo, ThreadType, handlerVars
  <2>3. TableType'
    BY <1>18 DEF NativeAdd, TableType, ThreadType, connectorVars
  <2>4. QueueType'
    BY <1>18 DEF NativeAdd, QueueType
  <2> QED
    BY <2>1, <2>2, <2>3, <2>4
<1>19. ASSUME NEW m \in Instance, NativeRemove(m) PROVE TypeInv'
  <2>1. FragmentType' /\ Life'
    BY <1>19 DEF NativeRemove, FragmentType, Life, usbVars, fragmentVars,
       historyVars, boundVars
  <2>2. ThreadType'
    BY <1>19 DEF NativeRemove, PcTo, ThreadType, Removing, handlerVars
  <2>3. TableType'
    BY <1>19 DEF NativeRemove, TableType, None, connectorVars
  <2>4. QueueType'
    BY <1>19 DEF NativeRemove, QueueType
  <2> QED
    BY <2>1, <2>2, <2>3, <2>4
<1>20. ASSUME NEW m \in Instance, ForgetDevice(m) PROVE TypeInv'
  <2>1. FragmentType' /\ Life'
    BY <1>20 DEF ForgetDevice, FragmentType, Life, usbVars, fragmentVars,
       historyVars, boundVars
  <2>2. ThreadType'
    BY <1>20 DEF ForgetDevice, PcTo, ThreadType, Removing, handlerVars
  <2>3. TableType'
    BY <1>20 DEF ForgetDevice, TableType, connectorVars
  <2>4. QueueType'
    BY <1>20 DEF ForgetDevice, QueueType
  <2> QED
    BY <2>1, <2>2, <2>3, <2>4
<1>21. ASSUME NEW m \in Instance, CloseConnector(m) PROVE TypeInv'
  <2>1. FragmentType' /\ Life'
    BY <1>21 DEF CloseConnector, FragmentType, Life, usbVars, fragmentVars,
       historyVars, boundVars
  <2>2. ThreadType'
    BY <1>21 DEF CloseConnector, PcTo, ThreadType, handlerVars
  <2>3. TableType'
    BY <1>21 DEF CloseConnector, TableType, None
  <2>4. QueueType'
    BY <1>21 DEF CloseConnector, QueueType
  <2> QED
    BY <2>1, <2>2, <2>3, <2>4
<1>22. ASSUME NEW m \in Instance, RunPosted(m) PROVE TypeInv'
  <2>1. FragmentType' /\ Life'
    BY <1>22 DEF RunPosted, FragmentType, Life, usbVars, fragmentVars,
       historyVars, boundVars
  <2>2. ThreadType'
    BY <1>22 DEF RunPosted, HandlerTo, ThreadType, monitorVars
  <2>3. TableType'
    BY <1>22 DEF RunPosted, TableType, tableVars, connectorVars
  <2>4. QueueType'
    BY <1>22 DEF RunPosted, QueueType, monitorVars
  <2> QED
    BY <2>1, <2>2, <2>3, <2>4
<1>23. ASSUME NEW m \in Instance, RefreshClears(m) PROVE TypeInv'
  <2>1. FragmentType' /\ Life'
    BY <1>23 DEF RefreshClears, FragmentType, Life, usbVars, fragmentVars,
       historyVars, boundVars
  <2>2. ThreadType'
    BY <1>23 DEF RefreshClears, HandlerTo, ThreadType, monitorVars
  <2>3. TableType'
    BY <1>23 DEF RefreshClears, TableType, Nothing, None, connectorVars
  <2>4. QueueType'
    BY <1>23 DEF RefreshClears, QueueType, monitorVars
  <2> QED
    BY <2>1, <2>2, <2>3, <2>4
<1>24a. ASSUME NEW m \in Instance, HasMonitor(m) PROVE TypeInv'
  <2>1. FragmentType' /\ Life'
    BY <1>24a DEF HasMonitor, FragmentType, Life, usbVars, fragmentVars,
       historyVars, boundVars
  <2>2. ThreadType'
    BY <1>24a DEF HasMonitor, HandlerTo, ThreadType, monitorVars
  <2>3. TableType'
    BY <1>24a DEF HasMonitor, TableType, tableVars, connectorVars
  <2>4. QueueType'
    BY <1>24a DEF HasMonitor, QueueType, monitorVars
  <2> QED
    BY <2>1, <2>2, <2>3, <2>4
<1>24. ASSUME NEW m \in Instance, IsRegistered(m) PROVE TypeInv'
  <2>1. FragmentType' /\ Life'
    BY <1>24 DEF IsRegistered, Crash, Reads, FragmentType, Life, usbVars, fragmentVars,
       historyVars, boundVars
  <2>2. ThreadType'
    BY <1>24 DEF IsRegistered, HandlerTo, ThreadType, monitorVars
  <2>3. TableType'
    BY <1>24 DEF IsRegistered, TableType, tableVars, connectorVars
  <2>4. QueueType'
    BY <1>24 DEF IsRegistered, QueueType, monitorVars
  <2> QED
    BY <2>1, <2>2, <2>3, <2>4
<1>25. ASSUME NEW m \in Instance, RefreshDevices(m) PROVE TypeInv'
  <2>1. FragmentType' /\ Life'
    BY <1>25 DEF RefreshDevices, Crash, Reads, FragmentType, Life, usbVars,
       fragmentVars, boundVars
  <2>2. ThreadType'
    BY <1>25 DEF RefreshDevices, HandlerTo, ThreadType
  <2>3. TableType'
    BY <1>25 DEF RefreshDevices, TableType, tableVars, connectorVars
  <2>4. QueueType'
    BY <1>25, MonitorNumber, AnnounceType DEF RefreshDevices, QueueType
  <2> QED
    BY <2>1, <2>2, <2>3, <2>4
<1>26. CASE UNCHANGED vars
  BY <1>26 DEF vars, FragmentType, Life, ThreadType, TableType, QueueType, usbVars,
     fragmentVars, monitorVars, handlerVars, connectorVars, tableVars, historyVars,
     boundVars
<1> QED
  BY <1>1, <1>2, <1>3, <1>4, <1>5, <1>6, <1>7, <1>8, <1>9, <1>10, <1>11, <1>12, <1>13,
     <1>14, <1>15, <1>16, <1>17, <1>18, <1>19, <1>20, <1>21, <1>22, <1>23, <1>24,
     <1>24a, <1>25, <1>26 DEF Next, PlatformStep, MonitorStep, HandlerStep

\* The fragment, the monitors, the handlers and the tables stay in type.
THEOREM DetectorTypeCorrect == Spec => []TypeOK
<1> QED
  BY TypeInit, TypeStep, TypeParts, PTL DEF Spec

-----------------------------------------------------------------------------
(* With the activity stopped nothing is under way.                         *)

\* If onStop cleared the library when nothing was under way, nothing is until the next start.
QuietOutside ==
    (fragment \notin {"started", "clearing"} /\ ~late) => ~UnderWay /\ native = Nothing

\* And only the monitor of the present has callbacks to make.
OneMonitor ==
    ~late => \A m \in Instance : pc[m] # "idle" \/ queue[m] # <<>> => m = mUSBMonitor

LifeInv == TypeInv /\ QuietOutside /\ OneMonitor

\* A process that starts has nothing under way.
LEMMA LifeInit == Init => LifeInv
BY TypeInit DEF Init, LifeInv, QuietOutside, OneMonitor, UnderWay

\* No step leaves work under way outside the time the activity is started, unless onStop
\* had cleared the library too early; and no monitor but the present one gets work.
LEMMA LifeStep == LifeInv /\ [Next]_vars => LifeInv'
<1> SUFFICES ASSUME LifeInv, [Next]_vars PROVE LifeInv'
  OBVIOUS
<1>0. TypeInv'
  BY TypeStep DEF LifeInv
<1> USE DEF LifeInv, TypeInv
<1>1. ASSUME NEW d \in Device, Plug(d) PROVE QuietOutside' /\ OneMonitor'
  <2>1. QuietOutside'
    BY <1>1, BroadcastType DEF Plug, QuietOutside, Life, UnderWay, fragmentVars,
       handlerVars, tableVars, historyVars
  <2>2. OneMonitor'
    BY <1>1, BroadcastType DEF Plug, OneMonitor, fragmentVars, historyVars
  <2> QED
    BY <1>0, <2>1, <2>2
<1>2. ASSUME NEW d \in Device, Unplug(d) PROVE QuietOutside' /\ OneMonitor'
  <2>1. QuietOutside'
    BY <1>2, BroadcastType DEF Unplug, QuietOutside, Life, UnderWay, fragmentVars,
       handlerVars, tableVars, historyVars
  <2>2. OneMonitor'
    BY <1>2, BroadcastType DEF Unplug, OneMonitor, fragmentVars, historyVars
  <2> QED
    BY <1>0, <2>1, <2>2
<1>3. ASSUME NEW d \in Device, Grant(d) PROVE QuietOutside' /\ OneMonitor'
  <2>1. QuietOutside'
    BY <1>3, BroadcastType DEF Grant, QuietOutside, Life, UnderWay, fragmentVars,
       handlerVars, tableVars, historyVars
  <2>2. OneMonitor'
    BY <1>3, BroadcastType DEF Grant, OneMonitor, fragmentVars, historyVars
  <2> QED
    BY <1>0, <2>1, <2>2
<1>4. CASE InitDeviceDetector
  <2>1. QuietOutside'
    BY <1>4 DEF InitDeviceDetector, QuietOutside, UnderWay, monitorVars, handlerVars,
       tableVars, historyVars
  <2>2. OneMonitor'
    BY <1>4 DEF InitDeviceDetector, OneMonitor, monitorVars, historyVars
  <2> QED
    BY <1>0, <2>1, <2>2
<1>5. CASE OnAttach
  <2>1. QuietOutside'
    BY <1>5 DEF OnAttach, QuietOutside, UnderWay, monitorVars, handlerVars, tableVars,
       historyVars
  <2>2. OneMonitor'
    BY <1>5 DEF OnAttach, OneMonitor, QuietOutside, UnderWay, monitorVars, historyVars
  <2> QED
    BY <1>0, <2>1, <2>2
<1>6. CASE OnStart
  <2>1. QuietOutside'
    BY <1>6, AnnounceType, MonitorNumber DEF OnStart, To, QuietOutside
  <2>2. OneMonitor'
    BY <1>6, AnnounceType, MonitorNumber DEF OnStart, OneMonitor, Life
  <2> QED
    BY <1>0, <2>1, <2>2
<1>7. CASE OnStop
  <2>1. QuietOutside'
    BY <1>7 DEF OnStop, To, QuietOutside
  <2>2. OneMonitor'
    BY <1>7 DEF OnStop, OneMonitor, QueueType, historyVars
  <2> QED
    BY <1>0, <2>1, <2>2
<1>8. CASE OnDetach
  <2>1. QuietOutside'
    BY <1>8 DEF OnDetach, QuietOutside, UnderWay, monitorVars, handlerVars, tableVars,
       historyVars
  <2>2. OneMonitor'
    BY <1>8 DEF OnDetach, OneMonitor, monitorVars, historyVars
  <2> QED
    BY <1>0, <2>1, <2>2
<1>9. CASE OnStopClears
  <2>1. QuietOutside'
    BY <1>9 DEF OnStopClears, QuietOutside, UnderWay, monitorVars, handlerVars
  <2>2. OneMonitor'
    BY <1>9 DEF OnStopClears, OneMonitor, UnderWay, monitorVars
  <2> QED
    BY <1>0, <2>1, <2>2
<1>10. CASE DestroyMonitor
  <2>1. QuietOutside'
    BY <1>10 DEF DestroyMonitor, QuietOutside, UnderWay, handlerVars, tableVars, historyVars
  <2>2. OneMonitor'
    BY <1>10 DEF DestroyMonitor, OneMonitor, QuietOutside, UnderWay, historyVars
  <2> QED
    BY <1>0, <2>1, <2>2
<1>11. CASE QuitHandler
  <2>1. QuietOutside'
    BY <1>11 DEF QuitHandler, QuietOutside, UnderWay, monitorVars, tableVars, historyVars
  <2>2. OneMonitor'
    BY <1>11 DEF QuitHandler, OneMonitor, monitorVars, historyVars
  <2> QED
    BY <1>0, <2>1, <2>2
<1>12. CASE RequestRefresh
  <2>1. QuietOutside'
    BY <1>12 DEF RequestRefresh, QuietOutside, UnderWay, fragmentVars, monitorVars,
       tableVars, historyVars
  <2>2. OneMonitor'
    BY <1>12 DEF RequestRefresh, OneMonitor, fragmentVars, monitorVars, historyVars
  <2> QED
    BY <1>0, <2>1, <2>2
<1>13. ASSUME NEW m \in Instance, Callback(m) PROVE QuietOutside' /\ OneMonitor'
  <2>1. QuietOutside'
    BY <1>13 DEF Callback, QuietOutside, UnderWay, fragmentVars, historyVars
  <2>2. OneMonitor'
    BY <1>13 DEF Callback, PcTo, OneMonitor, fragmentVars, historyVars
  <2> QED
    BY <1>0, <2>1, <2>2
<1>14. ASSUME NEW m \in Instance, HasPermission(m) PROVE QuietOutside' /\ OneMonitor'
  <2>1. QuietOutside'
    BY <1>14 DEF HasPermission, QuietOutside, UnderWay, fragmentVars, historyVars
  <2>2. OneMonitor'
    BY <1>14 DEF HasPermission, PcTo, OneMonitor, ThreadType, fragmentVars, historyVars
  <2> QED
    BY <1>0, <2>1, <2>2
<1>15. ASSUME NEW m \in Instance, OpenDevice(m) PROVE QuietOutside' /\ OneMonitor'
  <2>1. QuietOutside'
    BY <1>15 DEF OpenDevice, QuietOutside, UnderWay, fragmentVars, historyVars
  <2>2. OneMonitor'
    BY <1>15 DEF OpenDevice, PcTo, OneMonitor, ThreadType, fragmentVars, historyVars
  <2> QED
    BY <1>0, <2>1, <2>2
<1>16. ASSUME NEW m \in Instance, PutConnector(m) PROVE QuietOutside' /\ OneMonitor'
  <2>1. QuietOutside'
    BY <1>16 DEF PutConnector, QuietOutside, UnderWay, fragmentVars, historyVars
  <2>2. OneMonitor'
    BY <1>16 DEF PutConnector, PcTo, OneMonitor, fragmentVars, historyVars
  <2> QED
    BY <1>0, <2>1, <2>2
<1>17. ASSUME NEW m \in Instance, NoteDevice(m) PROVE QuietOutside' /\ OneMonitor'
  <2>1. QuietOutside'
    BY <1>17 DEF NoteDevice, QuietOutside, UnderWay, fragmentVars, historyVars
  <2>2. OneMonitor'
    BY <1>17 DEF NoteDevice, PcTo, OneMonitor, fragmentVars, historyVars
  <2> QED
    BY <1>0, <2>1, <2>2
<1>18. ASSUME NEW m \in Instance, NativeAdd(m) PROVE QuietOutside' /\ OneMonitor'
  <2>1. QuietOutside'
    BY <1>18 DEF NativeAdd, QuietOutside, UnderWay, fragmentVars, historyVars
  <2>2. OneMonitor'
    BY <1>18 DEF NativeAdd, PcTo, OneMonitor, fragmentVars, historyVars
  <2> QED
    BY <1>0, <2>1, <2>2
<1>19. ASSUME NEW m \in Instance, NativeRemove(m) PROVE QuietOutside' /\ OneMonitor'
  <2>1. QuietOutside'
    BY <1>19 DEF NativeRemove, QuietOutside, UnderWay, fragmentVars, historyVars
  <2>2. OneMonitor'
    BY <1>19 DEF NativeRemove, PcTo, OneMonitor, fragmentVars, historyVars
  <2> QED
    BY <1>0, <2>1, <2>2
<1>20. ASSUME NEW m \in Instance, ForgetDevice(m) PROVE QuietOutside' /\ OneMonitor'
  <2>1. QuietOutside'
    BY <1>20 DEF ForgetDevice, QuietOutside, UnderWay, fragmentVars, historyVars
  <2>2. OneMonitor'
    BY <1>20 DEF ForgetDevice, PcTo, OneMonitor, fragmentVars, historyVars
  <2> QED
    BY <1>0, <2>1, <2>2
<1>21. ASSUME NEW m \in Instance, CloseConnector(m) PROVE QuietOutside' /\ OneMonitor'
  <2>1. QuietOutside'
    BY <1>21 DEF CloseConnector, QuietOutside, UnderWay, fragmentVars, historyVars
  <2>2. OneMonitor'
    BY <1>21 DEF CloseConnector, PcTo, OneMonitor, fragmentVars, historyVars
  <2> QED
    BY <1>0, <2>1, <2>2
<1>22. ASSUME NEW m \in Instance, RunPosted(m) PROVE QuietOutside' /\ OneMonitor'
  <2>1. QuietOutside'
    BY <1>22 DEF RunPosted, HandlerTo, QuietOutside, UnderWay, fragmentVars, monitorVars,
       tableVars, historyVars
  <2>2. OneMonitor'
    BY <1>22 DEF RunPosted, OneMonitor, fragmentVars, monitorVars, historyVars
  <2> QED
    BY <1>0, <2>1, <2>2
<1>23. ASSUME NEW m \in Instance, RefreshClears(m) PROVE QuietOutside' /\ OneMonitor'
  <2>1. QuietOutside'
    BY <1>23 DEF RefreshClears, HandlerTo, QuietOutside, UnderWay, fragmentVars,
       monitorVars, historyVars
  <2>2. OneMonitor'
    BY <1>23 DEF RefreshClears, OneMonitor, fragmentVars, monitorVars, historyVars
  <2> QED
    BY <1>0, <2>1, <2>2
<1>24a. ASSUME NEW m \in Instance, HasMonitor(m) PROVE QuietOutside' /\ OneMonitor'
  <2>1. QuietOutside'
    BY <1>24a DEF HasMonitor, HandlerTo, QuietOutside, UnderWay, fragmentVars, monitorVars,
       tableVars, historyVars
  <2>2. OneMonitor'
    BY <1>24a DEF HasMonitor, OneMonitor, fragmentVars, monitorVars, historyVars
  <2> QED
    BY <1>0, <2>1, <2>2
<1>24. ASSUME NEW m \in Instance, IsRegistered(m) PROVE QuietOutside' /\ OneMonitor'
  <2>1. QuietOutside'
    <3>1. CASE UNCHANGED handler
      BY <1>24, <3>1 DEF IsRegistered, QuietOutside, UnderWay, fragmentVars, monitorVars,
         tableVars, historyVars
    <3>2. CASE HandlerTo(m, IF registered THEN "refresh" ELSE "idle")
      BY <1>24, <3>2 DEF IsRegistered, HandlerTo, QuietOutside, Life, UnderWay, ThreadType,
         fragmentVars, monitorVars, tableVars, historyVars
    <3> QED
      BY <1>24, <3>1, <3>2 DEF IsRegistered
  <2>2. OneMonitor'
    BY <1>24 DEF IsRegistered, OneMonitor, fragmentVars, monitorVars, historyVars
  <2> QED
    BY <1>0, <2>1, <2>2
<1>25. ASSUME NEW m \in Instance, RefreshDevices(m) PROVE QuietOutside' /\ OneMonitor'
  <2>1. QuietOutside'
    BY <1>25, AnnounceType, MonitorNumber DEF RefreshDevices, QuietOutside, UnderWay,
       fragmentVars
  <2>2. OneMonitor'
    BY <1>25, AnnounceType, MonitorNumber DEF RefreshDevices, OneMonitor, fragmentVars
  <2> QED
    BY <1>0, <2>1, <2>2
<1>26. CASE UNCHANGED vars
  <2>1. QuietOutside'
    BY <1>26 DEF vars, QuietOutside, UnderWay, fragmentVars, monitorVars, handlerVars,
       tableVars, historyVars
  <2>2. OneMonitor'
    BY <1>26 DEF vars, OneMonitor, fragmentVars, monitorVars, historyVars
  <2> QED
    BY <1>0, <2>1, <2>2
<1> QED
  BY <1>0, <1>1, <1>2, <1>3, <1>4, <1>5, <1>6, <1>7, <1>8, <1>9, <1>10, <1>11, <1>12, <1>13,
     <1>14, <1>15, <1>16, <1>17, <1>18, <1>19, <1>20, <1>21, <1>22, <1>23, <1>24,
     <1>24a, <1>25, <1>26 DEF Next, PlatformStep, MonitorStep, HandlerStep

\* The two lemmas together.
LEMMA LifeInductive == Spec => []LifeInv
BY LifeInit, LifeStep, PTL DEF Spec

\* The library has no device while the activity is stopped, unless something was under
\* way when onStop cleared it.
THEOREM NothingWhileStopped == Spec => []ForgottenWhenStopped
<1>1. LifeInv => ForgottenWhenStopped
  BY DEF LifeInv, QuietOutside, ForgottenWhenStopped
<1> QED
  BY <1>1, LifeInductive, PTL

-----------------------------------------------------------------------------
(* No callback and no refresh under way asks for a monitor that is gone.    *)

\* A callback runs for the present monitor alone, a refresh while there is one.
LEMMA FoundStep == LifeInv /\ MonitorFound /\ [Next]_vars => MonitorFound'
<1> SUFFICES ASSUME LifeInv, MonitorFound, [Next]_vars PROVE MonitorFound'
  OBVIOUS
<1> USE DEF LifeInv, TypeInv, FragmentType, ThreadType
<1>1. ASSUME NEW m \in Instance, pc[m] # "idle", mUSBMonitor = None PROVE late
  BY <1>1 DEF OneMonitor, Instance, None
<1>2. ASSUME NEW m \in Instance, handler[m] = "refresh", mUSBMonitor = None PROVE late
  BY <1>2 DEF QuietOutside, UnderWay, Life
<1>3. ASSUME NEW m \in Instance, HasPermission(m) PROVE MonitorFound'
  BY <1>1, <1>3 DEF HasPermission, MonitorFound, historyVars
<1>4. ASSUME NEW m \in Instance, OpenDevice(m) PROVE MonitorFound'
  BY <1>1, <1>4 DEF OpenDevice, MonitorFound, historyVars
<1>5. ASSUME NEW m \in Instance, RefreshDevices(m) PROVE MonitorFound'
  BY <1>2, <1>5 DEF RefreshDevices, MonitorFound
<1>6. CASE Next /\ (crashed' = crashed \/ crashed' = "isRegistered")
  BY <1>6 DEF Next, MonitorFound
<1>7. CASE UNCHANGED vars
  BY <1>7 DEF vars, MonitorFound, historyVars
<1>8. ASSUME NEW m \in Instance, MonitorStep(m), ~HasPermission(m), ~OpenDevice(m)
      PROVE  crashed' = crashed
  BY <1>8 DEF MonitorStep, Callback, PutConnector, NoteDevice, NativeAdd, NativeRemove,
              ForgetDevice, CloseConnector
<1>9. ASSUME NEW m \in Instance, HandlerStep(m), ~RefreshDevices(m)
      PROVE  crashed' = crashed \/ crashed' = "isRegistered"
  BY <1>9 DEF HandlerStep, RunPosted, RefreshClears, HasMonitor, IsRegistered, Crash
<1>10. ASSUME \/ \E d \in Device : Plug(d) \/ Unplug(d) \/ Grant(d)
              \/ InitDeviceDetector \/ OnAttach \/ OnStart \/ OnStop \/ OnDetach
              \/ PlatformStep \/ RequestRefresh
       PROVE  crashed' = crashed
  BY <1>10 DEF Plug, Unplug, Grant, InitDeviceDetector, OnAttach, OnStart, OnStop, OnDetach,
               PlatformStep, OnStopClears, DestroyMonitor, QuitHandler, RequestRefresh
<1> QED
  BY <1>3, <1>4, <1>5, <1>6, <1>7, <1>8, <1>9, <1>10 DEF Next

\* Unless something was under way when the fragment stopped, the callbacks' mUSBMonitor!!
\* finds a monitor, and so does refreshDevices() - all but the test before it.
THEOREM MonitorIsFound == Spec => []MonitorFound
<1>1. Init => MonitorFound
  BY DEF Init, MonitorFound
<1> QED
  BY <1>1, FoundStep, LifeInductive, PTL DEF Spec

-----------------------------------------------------------------------------
(* A claim reaches the connector whose descriptor the library has.         *)

\* What the library has is open, and so is what it is about to get.
OpenInLibrary ==
    /\ \A d \in Device : native[d] # None => native[d] \in open[d]
    /\ \A m \in Instance : pc[m] \in {"put", "note", "nativeAdd"} =>
            connector[m] \in open[device[m]]

\* What the library has is what mConnectors has, but for a device being added; what
\* is being removed it no longer has.
Settled(d) == native[d] # None => d \in mDevices /\ mConnectors[d] = native[d]

KeptAlike ==
    /\ \A d \in Device : native[d] # None => d \in mDevices
    /\ \A d \in Device :
            (\A m \in Instance : device[m] = d => pc[m] \notin {"note", "nativeAdd"}) => Settled(d)
    /\ \A m \in Instance :
            /\ pc[m] \in {"note", "nativeAdd"} => mConnectors[device[m]] = connector[m]
            /\ pc[m] = "nativeAdd" => device[m] \in mDevices
            /\ pc[m] \in {"forget", "close"} => native[device[m]] = None

ServeInv == ~late => OpenInLibrary /\ KeptAlike

\* The library starts with nothing.
LEMMA ServeInit == Init => ServeInv
BY DEF Init, ServeInv, OpenInLibrary, KeptAlike, Settled, Nothing

\* Steps of the platform thread, the handlers and the user leave the tables alone, and
\* where the monitors' threads are.
LEMMA ServeApart ==
    ASSUME ServeInv, UNCHANGED <<pc, device, connector, tableVars, late>>
    PROVE  ServeInv'
BY DEF ServeInv, OpenInLibrary, KeptAlike, Settled, tableVars, connectorVars

\* Every step of addDevice, removeDevice and a refresh keeps the tables alike.
LEMMA ServeStep == LifeInv /\ ServeInv /\ [Next]_vars => ServeInv'
<1> SUFFICES ASSUME LifeInv, ServeInv, [Next]_vars PROVE ServeInv'
  OBVIOUS
<1>1. ASSUME NEW d \in Device, Plug(d) PROVE ServeInv'
  BY <1>1, ServeApart DEF Plug, historyVars
<1>2. ASSUME NEW d \in Device, Unplug(d) PROVE ServeInv'
  BY <1>2, ServeApart DEF Unplug, historyVars
<1>3. ASSUME NEW d \in Device, Grant(d) PROVE ServeInv'
  BY <1>3, ServeApart DEF Grant, historyVars
<1>4. CASE InitDeviceDetector
  BY <1>4, ServeApart DEF InitDeviceDetector, monitorVars, historyVars
<1>5. CASE OnAttach
  BY <1>5, ServeApart DEF OnAttach, monitorVars, historyVars
<1>6. CASE OnStart
  BY <1>6, ServeApart DEF OnStart
<1>7. CASE OnStop
  BY <1>7, ServeApart DEF OnStop, historyVars
<1>8. CASE OnDetach
  BY <1>8, ServeApart DEF OnDetach, monitorVars, historyVars
<1>9. CASE OnStopClears
  BY <1>9 DEF OnStopClears, ServeInv, OpenInLibrary, KeptAlike, Settled, UnderWay, Nothing,
     monitorVars
<1>10. CASE DestroyMonitor
  BY <1>10, ServeApart DEF DestroyMonitor, historyVars
<1>11. CASE QuitHandler
  BY <1>11, ServeApart DEF QuitHandler, monitorVars, historyVars
<1>12. CASE RequestRefresh
  BY <1>12, ServeApart DEF RequestRefresh, monitorVars, historyVars
<1>13. ASSUME NEW m \in Instance, Callback(m) PROVE ServeInv'
  <2> SUFFICES ASSUME ~late' PROVE OpenInLibrary' /\ KeptAlike'
    BY DEF ServeInv
  <2>1. ~late /\ OpenInLibrary /\ KeptAlike
    BY <1>13 DEF Callback, ServeInv, historyVars
  <2>2. \A n \in Instance : n # m => pc[n] = "idle"
    BY <1>13, <2>1 DEF Callback, LifeInv, OneMonitor
  <2> USE DEF LifeInv, TypeInv, ThreadType, TableType
  <2>3. OpenInLibrary'
    BY <1>13, <2>1, <2>2 DEF Callback, PcTo, OpenInLibrary, tableVars, connectorVars
  <2>4. KeptAlike'
    BY <1>13, <2>1, <2>2 DEF Callback, PcTo, KeptAlike, Settled, tableVars, connectorVars
  <2> QED
    BY <2>3, <2>4
<1>14. ASSUME NEW m \in Instance, HasPermission(m) PROVE ServeInv'
  <2> SUFFICES ASSUME ~late' PROVE OpenInLibrary' /\ KeptAlike'
    BY DEF ServeInv
  <2>1. ~late /\ OpenInLibrary /\ KeptAlike
    BY <1>14 DEF HasPermission, ServeInv, historyVars
  <2>2. \A n \in Instance : n # m => pc[n] = "idle"
    BY <1>14, <2>1 DEF HasPermission, LifeInv, OneMonitor
  <2> USE DEF LifeInv, TypeInv, ThreadType, TableType
  <2>3. OpenInLibrary'
    BY <1>14, <2>1, <2>2 DEF HasPermission, PcTo, OpenInLibrary, tableVars, connectorVars
  <2>4. KeptAlike'
    BY <1>14, <2>1, <2>2 DEF HasPermission, PcTo, KeptAlike, Settled, tableVars, connectorVars
  <2> QED
    BY <2>3, <2>4
<1>15. ASSUME NEW m \in Instance, OpenDevice(m) PROVE ServeInv'
  <2> SUFFICES ASSUME ~late' PROVE OpenInLibrary' /\ KeptAlike'
    BY DEF ServeInv
  <2>1. ~late /\ OpenInLibrary /\ KeptAlike
    BY <1>15 DEF OpenDevice, ServeInv, historyVars
  <2>2. \A n \in Instance : n # m => pc[n] = "idle"
    BY <1>15, <2>1 DEF OpenDevice, LifeInv, OneMonitor
  <2> USE DEF LifeInv, TypeInv, ThreadType, TableType
  <2>3. OpenInLibrary'
    BY <1>15, <2>1, <2>2 DEF OpenDevice, PcTo, OpenInLibrary
  <2>4. KeptAlike'
    BY <1>15, <2>1, <2>2 DEF OpenDevice, PcTo, KeptAlike, Settled
  <2> QED
    BY <2>3, <2>4
<1>16. ASSUME NEW m \in Instance, PutConnector(m) PROVE ServeInv'
  <2> SUFFICES ASSUME ~late' PROVE OpenInLibrary' /\ KeptAlike'
    BY DEF ServeInv
  <2>1. ~late /\ OpenInLibrary /\ KeptAlike
    BY <1>16 DEF PutConnector, ServeInv, historyVars
  <2>2. \A n \in Instance : n # m => pc[n] = "idle"
    BY <1>16, <2>1 DEF PutConnector, LifeInv, OneMonitor
  <2> USE DEF LifeInv, TypeInv, ThreadType, TableType
  <2>3. OpenInLibrary'
    BY <1>16, <2>1, <2>2 DEF PutConnector, PcTo, OpenInLibrary
  <2>4. KeptAlike'
    BY <1>16, <2>1, <2>2 DEF PutConnector, PcTo, KeptAlike, Settled
  <2> QED
    BY <2>3, <2>4
<1>17. ASSUME NEW m \in Instance, NoteDevice(m) PROVE ServeInv'
  <2> SUFFICES ASSUME ~late' PROVE OpenInLibrary' /\ KeptAlike'
    BY DEF ServeInv
  <2>1. ~late /\ OpenInLibrary /\ KeptAlike
    BY <1>17 DEF NoteDevice, ServeInv, historyVars
  <2>2. \A n \in Instance : n # m => pc[n] = "idle"
    BY <1>17, <2>1 DEF NoteDevice, LifeInv, OneMonitor
  <2> USE DEF LifeInv, TypeInv, ThreadType, TableType
  <2>3. OpenInLibrary'
    BY <1>17, <2>1, <2>2 DEF NoteDevice, PcTo, OpenInLibrary, connectorVars
  <2>4. KeptAlike'
    BY <1>17, <2>1, <2>2 DEF NoteDevice, PcTo, KeptAlike, Settled, connectorVars
  <2> QED
    BY <2>3, <2>4
<1>18. ASSUME NEW m \in Instance, NativeAdd(m) PROVE ServeInv'
  <2> SUFFICES ASSUME ~late' PROVE OpenInLibrary' /\ KeptAlike'
    BY DEF ServeInv
  <2>1. ~late /\ OpenInLibrary /\ KeptAlike
    BY <1>18 DEF NativeAdd, ServeInv, historyVars
  <2>2. \A n \in Instance : n # m => pc[n] = "idle"
    BY <1>18, <2>1 DEF NativeAdd, LifeInv, OneMonitor
  <2> USE DEF LifeInv, TypeInv, ThreadType, TableType
  <2>3. OpenInLibrary'
    BY <1>18, <2>1, <2>2 DEF NativeAdd, PcTo, OpenInLibrary, connectorVars
  <2>4. KeptAlike'
    BY <1>18, <2>1, <2>2 DEF NativeAdd, PcTo, KeptAlike, Settled, connectorVars
  <2> QED
    BY <2>3, <2>4
<1>19. ASSUME NEW m \in Instance, NativeRemove(m) PROVE ServeInv'
  <2> SUFFICES ASSUME ~late' PROVE OpenInLibrary' /\ KeptAlike'
    BY DEF ServeInv
  <2>1. ~late /\ OpenInLibrary /\ KeptAlike
    BY <1>19 DEF NativeRemove, ServeInv, historyVars
  <2>2. \A n \in Instance : n # m => pc[n] = "idle"
    BY <1>19, <2>1 DEF NativeRemove, LifeInv, OneMonitor
  <2> USE DEF LifeInv, TypeInv, ThreadType, TableType
  <2>3. OpenInLibrary'
    BY <1>19, <2>1, <2>2 DEF NativeRemove, PcTo, OpenInLibrary, connectorVars
  <2>4. KeptAlike'
    BY <1>19, <2>1, <2>2 DEF NativeRemove, PcTo, KeptAlike, Settled, connectorVars
  <2> QED
    BY <2>3, <2>4
<1>20. ASSUME NEW m \in Instance, ForgetDevice(m) PROVE ServeInv'
  <2> SUFFICES ASSUME ~late' PROVE OpenInLibrary' /\ KeptAlike'
    BY DEF ServeInv
  <2>1. ~late /\ OpenInLibrary /\ KeptAlike
    BY <1>20 DEF ForgetDevice, ServeInv, historyVars
  <2>2. \A n \in Instance : n # m => pc[n] = "idle"
    BY <1>20, <2>1 DEF ForgetDevice, LifeInv, OneMonitor
  <2> USE DEF LifeInv, TypeInv, ThreadType, TableType
  <2>3. OpenInLibrary'
    BY <1>20, <2>1, <2>2 DEF ForgetDevice, PcTo, OpenInLibrary, connectorVars
  <2>4. KeptAlike'
    BY <1>20, <2>1, <2>2 DEF ForgetDevice, PcTo, KeptAlike, Settled, connectorVars
  <2> QED
    BY <2>3, <2>4
<1>21. ASSUME NEW m \in Instance, CloseConnector(m) PROVE ServeInv'
  <2> SUFFICES ASSUME ~late' PROVE OpenInLibrary' /\ KeptAlike'
    BY DEF ServeInv
  <2>1. ~late /\ OpenInLibrary /\ KeptAlike
    BY <1>21 DEF CloseConnector, ServeInv, historyVars
  <2>2. \A n \in Instance : n # m => pc[n] = "idle"
    BY <1>21, <2>1 DEF CloseConnector, LifeInv, OneMonitor
  <2> USE DEF LifeInv, TypeInv, ThreadType, TableType
  <2>3. OpenInLibrary'
    BY <1>21, <2>1, <2>2 DEF CloseConnector, PcTo, OpenInLibrary, KeptAlike
  <2>4. KeptAlike'
    BY <1>21, <2>1, <2>2 DEF CloseConnector, PcTo, KeptAlike, Settled
  <2> QED
    BY <2>3, <2>4
<1>22. ASSUME NEW m \in Instance, RunPosted(m) PROVE ServeInv'
  BY <1>22, ServeApart DEF RunPosted, monitorVars, historyVars
<1>23. ASSUME NEW m \in Instance, RefreshClears(m) PROVE ServeInv'
  BY <1>23 DEF RefreshClears, ServeInv, OpenInLibrary, KeptAlike, Settled, Nothing,
     LifeInv, TypeInv, ThreadType,
                monitorVars, connectorVars, historyVars
<1>24a. ASSUME NEW m \in Instance, HasMonitor(m) PROVE ServeInv'
  BY <1>24a, ServeApart DEF HasMonitor, monitorVars, historyVars
<1>24. ASSUME NEW m \in Instance, IsRegistered(m) PROVE ServeInv'
  BY <1>24, ServeApart DEF IsRegistered, monitorVars, historyVars
<1>25. ASSUME NEW m \in Instance, RefreshDevices(m) PROVE ServeInv'
  BY <1>25, ServeApart DEF RefreshDevices
<1>26. CASE UNCHANGED vars
  BY <1>26, ServeApart DEF vars, monitorVars, historyVars
<1> QED
  BY <1>1, <1>2, <1>3, <1>4, <1>5, <1>6, <1>7, <1>8, <1>9, <1>10, <1>11, <1>12, <1>13,
     <1>14, <1>15, <1>16, <1>17, <1>18, <1>19, <1>20, <1>21, <1>22, <1>23, <1>24,
     <1>24a, <1>25, <1>26 DEF Next, PlatformStep, MonitorStep, HandlerStep

\* Unless something was under way when onStop cleared the library: a claim for a device
\* that the library has reaches the connector it has the descriptor of, or the one that is
\* about to take its place, open in either case; and a claim made from within the call
\* that brings a descriptor reaches the connector it is of.
THEOREM ClaimsAreServed == Spec => []ClaimsServed
<1>1. LifeInv /\ ServeInv => ClaimsServed
  <2> SUFFICES ASSUME LifeInv, ~late, OpenInLibrary, KeptAlike PROVE ClaimsServed
    BY DEF ClaimsServed, ServeInv
  <2> USE DEF LifeInv, TypeInv, ThreadType
  <2>1. ASSUME NEW d \in Device, native[d] # None
        PROVE  {native[d], Claimed(d)} \subseteq open[d]
                 /\ (Claimed(d) = native[d] \/ Replaces(Claimed(d), d))
    <3>1. native[d] \in open[d] /\ d \in mDevices
      BY <2>1 DEF OpenInLibrary, KeptAlike
    <3>2. listening
      BY <2>1 DEF Life, QuietOutside, Nothing
    <3>3. Claimed(d) = mConnectors[d]
      BY <3>1, <3>2 DEF Claimed
    <3>4. CASE \A m \in Instance : device[m] = d => pc[m] \notin {"note", "nativeAdd"}
      <4>1. Settled(d)
        BY <3>4 DEF KeptAlike
      <4> QED
        BY <2>1, <3>1, <3>3, <4>1 DEF Settled
    <3>5. ASSUME NEW m \in Instance, device[m] = d, pc[m] \in {"note", "nativeAdd"}
          PROVE  Claimed(d) \in open[d] /\ Replaces(Claimed(d), d)
      BY <3>3, <3>5 DEF OpenInLibrary, KeptAlike, Replaces
    <3> QED
      BY <3>1, <3>4, <3>5
  <2>2. ASSUME NEW m \in Instance, pc[m] = "nativeAdd"
        PROVE  Claimed(device[m]) = connector[m] /\ connector[m] \in open[device[m]]
    <3>1. listening
      BY <2>2 DEF Life, QuietOutside, UnderWay
    <3>2. device[m] \in mDevices /\ mConnectors[device[m]] = connector[m]
      BY <2>2 DEF KeptAlike
    <3> QED
      BY <2>2, <3>1, <3>2 DEF Claimed, OpenInLibrary
  <2> QED
    BY <2>1, <2>2 DEF ClaimsServed
<1> QED
  BY <1>1, ServeInit, ServeStep, LifeInductive, PTL DEF Spec

-----------------------------------------------------------------------------
(* A device that is announced once is opened once.                         *)

Busy(m) == pc[m] # "idle" \/ queue[m] # <<>>

\* Up to the first start nothing has happened; from then on, unless devices are announced
\* again, one monitor alone has callbacks to make.
OneAnnounced ==
    /\ registered => starts > 0
    /\ starts = 0 => mConnectors = Nothing /\ (\A d \in Device : open[d] = {}) /\ asked = {}
    /\ \A m \in Instance : Busy(m) =>
            /\ starts > 0
            /\ registered => m = mUSBMonitor
            /\ \A n \in Instance : Busy(n) => n = m

\* Entry i of the queue of m may have d opened.
Opens(m, i, d) == queue[m][i].device = d /\ queue[m][i].kind # "detach"

\* Monitor m is about to open d.
Opening(m, d) == pc[m] \in {"test", "open"} /\ device[m] = d

ToOpen(d) ==
    \/ d \in asked
    \/ \E m \in Instance : Opening(m, d) \/ \E i \in DOMAIN queue[m] : Opens(m, i, d)

\* There is one reason to open a device: an answer to wait for, a callback, or an entry
\* of the queue.
OneReason ==
    \A d \in Device, m \in Instance :
        /\ Opening(m, d) => d \notin asked
        /\ \A i \in DOMAIN queue[m] : Opens(m, i, d) =>
              /\ d \notin asked /\ ~Opening(m, d)
              /\ \A j \in DOMAIN queue[m] : Opens(m, j, d) => i = j

\* As long as there is one, it has not been opened.
NotYet == \A d \in Device : ToOpen(d) => open[d] = {} /\ mConnectors[d] = None

\* What is open is in mConnectors, or about to be put there.
Putting(m, d) == pc[m] = "put" /\ device[m] = d

KeptOpen ==
    \A d \in Device :
        /\ \A m \in Instance : Putting(m, d) =>
              open[d] = {connector[m]} /\ connector[m] # None /\ mConnectors[d] = None
        /\ (\A m \in Instance : ~Putting(m, d)) => open[d] = {mConnectors[d]} \ {None}

\* A device that went while the monitor was registered is closed, or will be.
Leaving(m, d) ==
    \/ pc[m] \in Removing /\ device[m] = d
    \/ \E i \in DOMAIN queue[m] : queue[m][i].device = d /\ queue[m][i].kind = "detach"

Leaves ==
    registered => \A d \in Device \ plugged :
        (open[d] = {} /\ mConnectors[d] = None) \/ \E m \in Instance : Leaving(m, d)

Once == OneAnnounced /\ OneReason /\ NotYet /\ KeptOpen /\ Leaves

OnceInv == ~again => Once

\* At the start nothing is announced.
LEMMA OnceInit == Init => OnceInv
<1> SUFFICES ASSUME Init PROVE Once
  BY DEF OnceInv
<1>1. /\ \A m \in Instance : pc[m] = "idle" /\ queue[m] = <<>>
      /\ \A d \in Device : open[d] = {} /\ mConnectors[d] = None
      /\ ~registered /\ asked = {} /\ mConnectors = Nothing
  BY DEF Init, Nothing
<1>2. DOMAIN <<>> = {}
  OBVIOUS
<1>3. \A m \in Instance : DOMAIN queue[m] = {}
  BY <1>1, <1>2
<1> QED
  BY <1>1, <1>3 DEF Once, OneAnnounced, Busy, OneReason, Opening, Opens, NotYet, ToOpen,
     KeptOpen,
     Putting, Leaves

\* Steps of the platform thread and of the handlers leave it all alone; ...
LEMMA OnceApart ==
    ASSUME Once, UNCHANGED <<plugged, asked, monitorVars, mConnectors, open, starts, registered>>,
           registered => UNCHANGED mUSBMonitor
    PROVE  Once'
<1>1. OneAnnounced'
  BY DEF Once, OneAnnounced, Busy, monitorVars
<1>2. OneReason'
  BY DEF Once, OneReason, Opening, Opens, monitorVars
<1>3. NotYet'
  BY DEF Once, NotYet, ToOpen, Opening, Opens, monitorVars
<1>4. KeptOpen'
  BY DEF Once, KeptOpen, Putting, monitorVars
<1>5. Leaves'
  BY DEF Once, Leaves, Leaving, monitorVars
<1> QED
  BY <1>1, <1>2, <1>3, <1>4, <1>5 DEF Once

\* ... or drop what was queued, after which nobody counts on an event.
LEMMA OnceDrops ==
    ASSUME Once, UNCHANGED <<plugged, asked, pc, device, connector, mConnectors, open, starts>>,
           ~registered',
           \A m \in Instance : queue'[m] = queue[m] \/ queue'[m] = <<>>
    PROVE  Once'
<1>0. \A m \in Instance : /\ DOMAIN queue'[m] \subseteq DOMAIN queue[m]
                          /\ \A i \in DOMAIN queue'[m] : queue'[m][i] = queue[m][i]
  OBVIOUS
<1>1. OneAnnounced'
  BY DEF Once, OneAnnounced, Busy
<1>2. OneReason'
  <2>1. \A m \in Instance, d \in Device : Opening(m, d)' <=> Opening(m, d)
    BY DEF Opening
  <2>2. \A m \in Instance, d \in Device : \A i \in DOMAIN queue'[m] :
            i \in DOMAIN queue[m] /\ (Opens(m, i, d)' <=> Opens(m, i, d))
    BY <1>0 DEF Opens
  <2> QED
    BY <2>1, <2>2 DEF Once, OneReason
<1>3. NotYet'
  <2>1. \A d \in Device : ToOpen(d)' => ToOpen(d)
    BY <1>0 DEF ToOpen, Opening, Opens
  <2> QED
    BY <2>1 DEF Once, NotYet
<1>4. KeptOpen'
  BY DEF Once, KeptOpen, Putting
<1>5. Leaves'
  BY DEF Leaves
<1> QED
  BY <1>1, <1>2, <1>3, <1>4, <1>5 DEF Once

\* The step of a monitor's thread that opens nothing and changes no table.
LEMMA OnceMoves ==
    ASSUME TypeInv, Once, NEW m \in Instance, pc[m] \notin {"idle", "put"},
           NEW l \in {"idle", "note", "nativeAdd"} \cup Removing, pc' = [pc EXCEPT ![m] = l],
           pc[m] \in Removing => l \in Removing,
           UNCHANGED <<plugged, asked, queue, device, connector, mConnectors, open, starts,
                       registered, mUSBMonitor>>
    PROVE  Once'
<1>0. /\ l \notin {"test", "open", "put"} /\ pc'[m] = l
      /\ \A n \in Instance : n # m => pc'[n] = pc[n]
  BY DEF TypeInv, ThreadType, Removing
<1>1. OneAnnounced'
  <2>1. \A n \in Instance : Busy(n)' => Busy(n)
    BY <1>0 DEF Busy
  <2> QED
    BY <2>1 DEF Once, OneAnnounced
<1>a. \A n \in Instance, d \in Device : Opening(n, d)' => Opening(n, d)
  BY <1>0 DEF Opening
<1>b. \A n \in Instance : \A i, d : Opens(n, i, d)' <=> Opens(n, i, d)
  BY DEF Opens
<1>2. OneReason'
  BY <1>a, <1>b DEF Once, OneReason
<1>3. NotYet'
  BY <1>a, <1>b DEF Once, NotYet, ToOpen
<1>4. KeptOpen'
  <2>1. \A n \in Instance, d \in Device : Putting(n, d)' <=> Putting(n, d)
    BY <1>0 DEF Putting
  <2> QED
    BY <2>1 DEF Once, KeptOpen
<1>5. Leaves'
  <2>1. \A n \in Instance, d \in Device : Leaving(n, d) => Leaving(n, d)'
    BY <1>0 DEF Leaving
  <2> QED
    BY <2>1 DEF Once, Leaves
<1> QED
  BY <1>1, <1>2, <1>3, <1>4, <1>5 DEF Once

\* An event joins the queue of the monitor of the present.
LEMMA EventJoins ==
    ASSUME TypeInv, NEW d \in Device, NEW k \in {"attach", "permission", "detach"},
           Broadcast(k, d), registered
    PROVE  /\ mUSBMonitor \in Instance
           /\ \A n \in Instance : n # mUSBMonitor => queue'[n] = queue[n]
           /\ DOMAIN queue'[mUSBMonitor] = DOMAIN queue[mUSBMonitor] \cup {Len(queue[mUSBMonitor]) + 1}
           /\ Len(queue[mUSBMonitor]) + 1 \notin DOMAIN queue[mUSBMonitor]
           /\ \A i \in DOMAIN queue[mUSBMonitor] : queue'[mUSBMonitor][i] = queue[mUSBMonitor][i]
           /\ queue'[mUSBMonitor][Len(queue[mUSBMonitor]) + 1].kind = k
           /\ queue'[mUSBMonitor][Len(queue[mUSBMonitor]) + 1].device = d
<1>1. mUSBMonitor \in Instance
  BY MonitorNumber DEF TypeInv, FragmentType
<1>2. queue[mUSBMonitor] \in Seq(Event) /\ [kind |-> k, device |-> d] \in Event
  BY <1>1 DEF TypeInv, QueueType, Event
<1>3. queue' = [queue EXCEPT ![mUSBMonitor] =
                  Append(queue[mUSBMonitor], [kind |-> k, device |-> d])]
  BY DEF Broadcast
<1>4. /\ queue'[mUSBMonitor] = Append(queue[mUSBMonitor], [kind |-> k, device |-> d])
      /\ \A n \in Instance : n # mUSBMonitor => queue'[n] = queue[n]
  BY <1>1, <1>3 DEF TypeInv, QueueType
<1>5. ASSUME NEW q \in Seq(Event), NEW e \in Event
      PROVE  /\ DOMAIN Append(q, e) = DOMAIN q \cup {Len(q) + 1} /\ Len(q) + 1 \notin DOMAIN q
             /\ \A i \in DOMAIN q : Append(q, e)[i] = q[i]
             /\ Append(q, e)[Len(q) + 1] = e
  OBVIOUS
<1>6. Append(queue[mUSBMonitor], [kind |-> k, device |-> d])[Len(queue[mUSBMonitor]) + 1]
        = [kind |-> k, device |-> d]
  BY <1>2, <1>5
<1>7. /\ queue'[mUSBMonitor][Len(queue[mUSBMonitor]) + 1].kind = k
      /\ queue'[mUSBMonitor][Len(queue[mUSBMonitor]) + 1].device = d
  BY <1>4, <1>6
<1> QED
  BY <1>1, <1>2, <1>4, <1>5, <1>7

\* A broadcast: a device that may have to be opened has not been, and there is no other
\* reason to open it; a device that goes is detached.
LEMMA OnceSpeaks ==
    ASSUME TypeInv, Once, NEW d \in Device, NEW k \in {"attach", "permission", "detach"},
           Broadcast(k, d), asked' \subseteq asked,
           \A e \in Device \ plugged' : e \notin plugged \/ (e = d /\ k = "detach"),
           UNCHANGED <<pc, device, connector, mConnectors, open, starts, registered, mUSBMonitor>>,
           registered /\ k # "detach" =>
                /\ open[d] = {} /\ mConnectors[d] = None /\ d \notin asked'
                /\ \A m \in Instance : /\ ~Opening(m, d)
                                       /\ \A i \in DOMAIN queue[m] : ~Opens(m, i, d)
    PROVE  Once'
<1>a. \A n \in Instance, e \in Device : Opening(n, e)' <=> Opening(n, e)
  BY DEF Opening
<1>b. \A n \in Instance, e \in Device : Putting(n, e)' <=> Putting(n, e)
  BY DEF Putting
<1>4. KeptOpen'
  BY <1>b DEF Once, KeptOpen
<1>5. CASE ~registered
  <2>1. queue' = queue
    BY <1>5 DEF Broadcast
  <2>2. OneAnnounced'
    BY <1>5, <2>1 DEF Once, OneAnnounced, Busy
  <2>3. \A n \in Instance : \A i, e : Opens(n, i, e)' <=> Opens(n, i, e)
    BY <2>1 DEF Opens
  <2>4. OneReason'
    BY <1>a, <2>1, <2>3 DEF Once, OneReason
  <2>5. NotYet'
    BY <1>a, <2>1, <2>3 DEF Once, NotYet, ToOpen
  <2>6. Leaves'
    BY <1>5 DEF Leaves
  <2> QED
    BY <1>4, <2>2, <2>4, <2>5, <2>6 DEF Once
<1>6. CASE registered
  <2> DEFINE M == mUSBMonitor
             K == Len(queue[M]) + 1
  <2>1. /\ M \in Instance /\ \A n \in Instance : n # M => queue'[n] = queue[n]
        /\ DOMAIN queue'[M] = DOMAIN queue[M] \cup {K} /\ K \notin DOMAIN queue[M]
        /\ \A i \in DOMAIN queue[M] : queue'[M][i] = queue[M][i]
        /\ queue'[M][K].kind = k /\ queue'[M][K].device = d
    BY <1>6, EventJoins
  <2> HIDE DEF M, K
  <2>2. OneAnnounced'
    <3>1. \A n \in Instance : Busy(n)' => n = M \/ Busy(n)
      BY <2>1 DEF Busy
    <3>2. \A n \in Instance : Busy(n) => n = M
      BY <1>6 DEF Once, OneAnnounced, M
    <3>3. \A n \in Instance : Busy(n)' => n = M
      BY <3>1, <3>2
    <3>4. mUSBMonitor' = M /\ starts' > 0 /\ starts' = starts
      BY <1>6 DEF Once, OneAnnounced, M
    <3>5. starts' = 0 => FALSE
      BY <3>4
    <3> QED
      BY <3>3, <3>4, <3>5 DEF OneAnnounced
  <2>3. \A n \in Instance, e \in Device : \A i \in DOMAIN queue'[n] :
            Opens(n, i, e)' => \/ i \in DOMAIN queue[n] /\ Opens(n, i, e)
                               \/ n = M /\ i = K /\ e = d /\ k # "detach"
    BY <2>1 DEF Opens
  <2>4. OneReason'
    <3> SUFFICES ASSUME NEW e \in Device, NEW n \in Instance
                 PROVE  /\ Opening(n, e)' => e \notin asked'
                        /\ \A i \in DOMAIN queue'[n] : Opens(n, i, e)' =>
                              /\ e \notin asked' /\ ~Opening(n, e)'
                              /\ \A j \in DOMAIN queue'[n] : Opens(n, j, e)' => i = j
      BY DEF OneReason
    <3>1. Opening(n, e)' => e \notin asked'
      BY <1>a DEF Once, OneReason
    <3>2. ASSUME NEW i \in DOMAIN queue'[n], Opens(n, i, e)'
          PROVE  /\ e \notin asked' /\ ~Opening(n, e)'
                 /\ \A j \in DOMAIN queue'[n] : Opens(n, j, e)' => i = j
      <4>1. CASE i \in DOMAIN queue[n] /\ Opens(n, i, e)
        BY <1>6, <1>a, <2>3, <4>1 DEF Once, OneReason
      <4>2. CASE n = M /\ i = K /\ e = d /\ k # "detach"
        BY <1>6, <1>a, <2>3, <4>2
      <4> QED
        BY <2>3, <3>2, <4>1, <4>2
    <3> QED
      BY <3>1, <3>2
  <2>5. NotYet'
    <3>1. \A e \in Device : ToOpen(e)' => ToOpen(e) \/ (e = d /\ k # "detach")
      BY <1>a, <2>3 DEF ToOpen
    <3> QED
      BY <1>6, <3>1 DEF Once, NotYet
  <2>6. Leaves'
    <3> SUFFICES ASSUME NEW e \in Device \ plugged'
                 PROVE  (open'[e] = {} /\ mConnectors'[e] = None) \/ \E m \in Instance : Leaving(m, e)'
      BY DEF Leaves
    <3>1. \A n \in Instance : Leaving(n, e) => Leaving(n, e)'
      <4>1. \A n \in Instance : \A i \in DOMAIN queue[n] :
                i \in DOMAIN queue'[n] /\ queue'[n][i] = queue[n][i]
        BY <2>1
      <4> QED
        BY <4>1 DEF Leaving
    <3>2. CASE e = d /\ k = "detach"
      <4>1. /\ K \in DOMAIN queue'[M] /\ queue'[M][K].device = e
            /\ queue'[M][K].kind = "detach"
        BY <2>1, <3>2
      <4>2. \E i \in DOMAIN queue'[M] : queue'[M][i].device = e /\ queue'[M][i].kind = "detach"
        BY <4>1
      <4>3. PICK n \in Instance : n = M
        BY <2>1
      <4>4. Leaving(n, e)'
        BY <4>2, <4>3 DEF Leaving
      <4> QED
        BY <4>4
    <3>3. CASE e \notin plugged
      <4>1. (open[e] = {} /\ mConnectors[e] = None) \/ \E m \in Instance : Leaving(m, e)
        BY <1>6, <3>3 DEF Once, Leaves
      <4> QED
        BY <3>1, <4>1
    <3> QED
      BY <3>2, <3>3
  <2> QED
    BY <1>4, <2>2, <2>4, <2>5, <2>6 DEF Once
<1> QED
  BY <1>5, <1>6

\* The first start announces what is plugged in, each device once.
LEMMA OnceStarts == ASSUME LifeInv, Once, OnStart, ~again' PROVE Once'
<1> USE DEF LifeInv, TypeInv
<1>1. /\ starts = 0 /\ starts' = 1 /\ registered' = TRUE
      /\ UNCHANGED <<plugged, asked, pc, device, connector, mConnectors, open, mUSBMonitor>>
  <2>1. ~(starts > 0) /\ starts \in Nat /\ starts' = starts + 1
    <3>1. MaxStarts \in Nat
      BY DetectorAssumption
    <3>2. starts \in 0..MaxStarts
      BY DEF FragmentType
    <3>3. (starts > 0 => again') /\ starts' = starts + 1
      BY DEF OnStart
    <3> QED
      BY <3>1, <3>2, <3>3
  <2>2. starts = 0 /\ starts' = 1
    BY <2>1
  <2> QED
    BY <2>2 DEF OnStart, usbVars, tableVars, connectorVars
<1>2. mUSBMonitor \in Instance
  BY MonitorNumber DEF OnStart, Life
<1>3. /\ \A n \in Instance : pc[n] = "idle" /\ queue[n] = <<>>
      /\ \A d \in Device : open[d] = {} /\ mConnectors[d] = None
      /\ asked = {}
  <2>1. \A n \in Instance : ~Busy(n)
    BY <1>1 DEF Once, OneAnnounced
  <2> QED
    BY <1>1, <2>1 DEF Once, OneAnnounced, Busy, Nothing
<1>4. /\ \A n \in Instance : n # mUSBMonitor => queue'[n] = <<>>
      /\ \A i, j \in DOMAIN queue'[mUSBMonitor] :
            queue'[mUSBMonitor][i].device = queue'[mUSBMonitor][j].device => i = j
  <2>1. PICK s \in Orders(plugged) :
          queue' = [queue EXCEPT ![mUSBMonitor] =
                      queue[mUSBMonitor] \o [i \in DOMAIN s |-> [kind |-> "attach", device |-> s[i]]]]
    BY DEF OnStart, Announce
  <2> DEFINE a == [i \in DOMAIN s |-> [kind |-> "attach", device |-> s[i]]]
  <2>2. a \in Seq(Event)
    <3>1. Cardinality(plugged) \in Nat
      BY FS_Subset, FS_CardinalityType, DetectorAssumption DEF FragmentType
    <3>2. s \in [1..Cardinality(plugged) -> Device]
      BY DEF Orders, FragmentType
    <3>3. a \in [1..Cardinality(plugged) -> Event]
      BY <3>2 DEF Event
    <3> QED
      BY <3>1, <3>3
  <2>3. queue' = [queue EXCEPT ![mUSBMonitor] = <<>> \o a]
    BY <1>2, <1>3, <2>1
  <2>4. <<>> \o a = a
    BY <2>2
  <2>5. queue'[mUSBMonitor] = a /\ \A n \in Instance : n # mUSBMonitor => queue'[n] = <<>>
    BY <1>2, <1>3, <2>3, <2>4 DEF QueueType
  <2>6. \A i, j \in DOMAIN a : a[i].device = a[j].device => i = j
    BY DEF Orders
  <2> QED
    BY <2>5, <2>6
<1>5. OneAnnounced'
  BY <1>1, <1>3, <1>4 DEF OneAnnounced, Busy
<1>6. \A n \in Instance, d \in Device : ~Opening(n, d)'
  BY <1>1, <1>3 DEF Opening
<1>7. OneReason'
  <2> SUFFICES ASSUME NEW d \in Device, NEW n \in Instance, NEW i \in DOMAIN queue'[n],
                      NEW j \in DOMAIN queue'[n], Opens(n, i, d)', Opens(n, j, d)'
               PROVE  i = j
    BY <1>1, <1>3, <1>6 DEF OneReason
  <2>1. DOMAIN <<>> = {}
    OBVIOUS
  <2>2. n = mUSBMonitor
    BY <1>4, <2>1
  <2> QED
    BY <1>4, <2>2 DEF Opens
<1>8. NotYet'
  BY <1>1, <1>3 DEF NotYet
<1>9. KeptOpen'
  BY <1>1, <1>3 DEF KeptOpen, Putting
<1>10. Leaves'
  BY <1>1, <1>3 DEF Leaves
<1> QED
  BY <1>5, <1>7, <1>8, <1>9, <1>10 DEF Once

\* A callback begins: the reason to open the device moves from the queue to the thread.
LEMMA OnceCalls == ASSUME TypeInv, Once, NEW m \in Instance, Callback(m) PROVE Once'
<1> USE DEF TypeInv
<1>1. /\ pc[m] = "idle" /\ queue[m] # <<>> /\ queue' = [queue EXCEPT ![m] = Tail(@)]
      /\ device' = [device EXCEPT ![m] = Head(queue[m]).device]
      /\ pc' = [pc EXCEPT ![m] = IF Head(queue[m]).kind = "detach" THEN "nativeRemove" ELSE "test"]
      /\ UNCHANGED <<plugged, asked, connector, mConnectors, open, starts, registered, mUSBMonitor>>
  BY DEF Callback, PcTo, usbVars, fragmentVars, tableVars, connectorVars, boundVars
<1>2. /\ Head(queue[m]) = queue[m][1] /\ 1 \in DOMAIN queue[m]
      /\ \A i \in DOMAIN Tail(queue[m]) :
            i + 1 \in DOMAIN queue[m] /\ i \in Nat \ {0} /\ Tail(queue[m])[i] = queue[m][i + 1]
      /\ \A i \in DOMAIN queue[m] :
            i # 1 => i - 1 \in DOMAIN Tail(queue[m]) /\ Tail(queue[m])[i - 1] = queue[m][i]
  <2>1. queue[m] \in Seq(Event)
    BY DEF QueueType
  <2> QED
    BY <1>1, <2>1
<1>3. \A n \in Instance : n # m => /\ ~Busy(n)
                                   /\ queue'[n] = queue[n] /\ pc'[n] = pc[n] /\ device'[n] = device[n]
  BY <1>1 DEF Once, OneAnnounced, Busy, QueueType, ThreadType
<1>4. /\ queue'[m] = Tail(queue[m]) /\ device'[m] = queue[m][1].device
      /\ pc'[m] = IF queue[m][1].kind = "detach" THEN "nativeRemove" ELSE "test"
  BY <1>1, <1>2 DEF QueueType, ThreadType
<1>5. OneAnnounced'
  <2>1. \A n \in Instance : Busy(n)' => n = m
    BY <1>3 DEF Busy
  <2>2. Busy(m)
    BY <1>1 DEF Busy
  <2> QED
    BY <1>1, <2>1, <2>2 DEF Once, OneAnnounced
<1>6. \A n \in Instance, d \in Device : Opening(n, d)' => n = m /\ Opens(m, 1, d)
  BY <1>3, <1>4 DEF Opening, Opens, Busy
<1>7. \A n \in Instance, d \in Device : \A i \in DOMAIN queue'[n] : Opens(n, i, d)' =>
          n = m /\ i \in Nat \ {0} /\ i + 1 \in DOMAIN queue[m] /\ Opens(m, i + 1, d)
  <2>1. DOMAIN <<>> = {}
    OBVIOUS
  <2> SUFFICES ASSUME NEW n \in Instance, NEW d \in Device, NEW i \in DOMAIN queue'[n], Opens(n, i, d)'
               PROVE  n = m /\ i \in Nat \ {0} /\ i + 1 \in DOMAIN queue[m] /\ Opens(m, i + 1, d)
    OBVIOUS
  <2>2. n = m
    BY <1>3, <2>1 DEF Busy
  <2>3. i \in DOMAIN Tail(queue[m]) /\ queue'[n][i] = queue[m][i + 1]
    BY <1>2, <1>4, <2>2
  <2>4. queue[m][i + 1].device = d /\ queue[m][i + 1].kind # "detach"
    BY <2>3 DEF Opens
  <2> QED
    BY <1>2, <2>2, <2>3, <2>4 DEF Opens
<1>8. OneReason'
  <2> SUFFICES ASSUME NEW d \in Device, NEW n \in Instance
               PROVE  /\ Opening(n, d)' => d \notin asked'
                      /\ \A i \in DOMAIN queue'[n] : Opens(n, i, d)' =>
                            /\ d \notin asked' /\ ~Opening(n, d)'
                            /\ \A j \in DOMAIN queue'[n] : Opens(n, j, d)' => i = j
    BY DEF OneReason
  <2>1. \A i, j \in DOMAIN queue[m] : Opens(m, i, d) /\ Opens(m, j, d) => i = j /\ d \notin asked
    BY DEF Once, OneReason
  <2>2. Opening(n, d)' => d \notin asked'
    BY <1>1, <1>2, <1>6, <2>1
  <2>3. ASSUME NEW i \in DOMAIN queue'[n], Opens(n, i, d)'
        PROVE  /\ d \notin asked' /\ ~Opening(n, d)'
               /\ \A j \in DOMAIN queue'[n] : Opens(n, j, d)' => i = j
    <3>1. i \in Nat \ {0} /\ i + 1 \in DOMAIN queue[m] /\ Opens(m, i + 1, d) /\ i + 1 # 1
      BY <1>7, <2>3
    <3>2. d \notin asked' /\ ~Opening(n, d)'
      BY <1>1, <1>2, <1>6, <2>1, <3>1
    <3>3. ASSUME NEW j \in DOMAIN queue'[n], Opens(n, j, d)' PROVE i = j
      <4>1. j \in Nat \ {0} /\ j + 1 \in DOMAIN queue[m] /\ Opens(m, j + 1, d)
        BY <1>7, <3>3
      <4>2. i + 1 = j + 1
        BY <2>1, <3>1, <4>1
      <4> QED
        BY <3>1, <4>1, <4>2
    <3> QED
      BY <3>2, <3>3
  <2> QED
    BY <2>2, <2>3
<1>9. NotYet'
  <2>1. \A d \in Device : ToOpen(d)' => ToOpen(d)
    BY <1>1, <1>2, <1>6, <1>7 DEF ToOpen
  <2> QED
    BY <1>1, <2>1 DEF Once, NotYet
<1>10. KeptOpen'
  <2>1. \A n \in Instance, d \in Device : ~Putting(n, d) /\ ~Putting(n, d)'
    BY <1>1, <1>3, <1>4 DEF Putting, Busy
  <2> QED
    BY <1>1, <2>1 DEF Once, KeptOpen
<1>11. Leaves'
  <2>1. ASSUME NEW n \in Instance, NEW d \in Device, Leaving(n, d) PROVE Leaving(n, d)'
    <3>0. DOMAIN <<>> = {}
      OBVIOUS
    <3>1. n = m
      BY <1>3, <2>1, <3>0 DEF Leaving, Busy, Removing
    <3>2. PICK i \in DOMAIN queue[m] : queue[m][i].device = d /\ queue[m][i].kind = "detach"
      BY <1>1, <2>1, <3>1 DEF Leaving, Removing
    <3>3. CASE i = 1
      BY <1>4, <3>1, <3>2, <3>3 DEF Leaving, Removing
    <3>4. CASE i # 1
      <4>1. i - 1 \in DOMAIN queue'[m] /\ queue'[m][i - 1] = queue[m][i]
        BY <1>2, <1>4, <3>4
      <4>2. \E j \in DOMAIN queue'[m] : queue'[m][j].device = d /\ queue'[m][j].kind = "detach"
        BY <3>2, <4>1
      <4> QED
        BY <3>1, <4>2 DEF Leaving
    <3> QED
      BY <3>3, <3>4
  <2> QED
    BY <1>1, <2>1 DEF Once, Leaves
<1> QED
  BY <1>5, <1>8, <1>9, <1>10, <1>11 DEF Once

\* No other monitor is busy.
LEMMA BusyAlone ==
    ASSUME Once, NEW m \in Instance, pc[m] # "idle"
    PROVE  /\ starts > 0
           /\ \A n \in Instance : n # m => pc[n] = "idle" /\ queue[n] = <<>> /\ DOMAIN queue[n] = {}
<1>1. DOMAIN <<>> = {}
  OBVIOUS
<1>2. Busy(m)
  BY DEF Busy
<1>3. \A n \in Instance : n # m => queue[n] = <<>> /\ pc[n] = "idle"
  BY <1>2 DEF Once, OneAnnounced, Busy
<1> QED
  BY <1>1, <1>2, <1>3 DEF Once, OneAnnounced

\* The permission is looked at: the reason to open the device stays with the thread, or
\* with the dialog.
LEMMA OnceAsks == ASSUME TypeInv, Once, NEW m \in Instance, HasPermission(m) PROVE Once'
<1> USE DEF TypeInv
<1>1. CASE mUSBMonitor = None
  BY <1>1, OnceApart DEF HasPermission, monitorVars, fragmentVars, tableVars,
     connectorVars, boundVars
<1>2. CASE mUSBMonitor # None
  <2> DEFINE d == device[m]
  <2>1. /\ pc[m] = "test" /\ d \in Device
        /\ pc' = [pc EXCEPT ![m] = IF d \in permitted THEN "open" ELSE "idle"]
        /\ asked' = IF d \in plugged \ permitted THEN asked \cup {d} ELSE asked
        /\ UNCHANGED <<plugged, queue, device, connector, mConnectors, open, starts, registered,
                       mUSBMonitor>>
    BY <1>2 DEF HasPermission, PcTo, fragmentVars, tableVars, connectorVars, boundVars,
       ThreadType
  <2> HIDE DEF d
  <2>2. /\ starts > 0
        /\ \A n \in Instance : n # m => pc[n] = "idle" /\ queue[n] = <<>> /\ DOMAIN queue[n] = {}
    BY <2>1, BusyAlone
  <2>3. /\ pc'[m] = IF d \in permitted THEN "open" ELSE "idle"
        /\ \A n \in Instance : n # m => pc'[n] = pc[n]
    BY <2>1 DEF ThreadType
  <2>4. OneAnnounced'
    <3>1. \A n \in Instance : Busy(n)' => Busy(n)
      BY <2>1, <2>3 DEF Busy
    <3>2. starts' > 0 /\ starts' # 0
      BY <2>1, <2>2
    <3> QED
      BY <2>1, <3>1, <3>2 DEF Once, OneAnnounced
  <2>5. Opening(m, d)
    BY <2>1 DEF Opening, d
  <2>6. \A n \in Instance, e \in Device : Opening(n, e)' =>
            n = m /\ e = d /\ Opening(n, e) /\ d \in permitted
    BY <2>1, <2>2, <2>3 DEF Opening, d
  <2>7. \A n \in Instance : \A i, e : Opens(n, i, e)' <=> Opens(n, i, e)
    BY <2>1 DEF Opens
  <2>8. OneReason'
    <3> SUFFICES ASSUME NEW e \in Device, NEW n \in Instance
                 PROVE  /\ Opening(n, e)' => e \notin asked'
                        /\ \A i \in DOMAIN queue'[n] : Opens(n, i, e)' =>
                              /\ e \notin asked' /\ ~Opening(n, e)'
                              /\ \A j \in DOMAIN queue'[n] : Opens(n, j, e)' => i = j
      BY DEF OneReason
    <3>1. Opening(n, e)' => e \notin asked'
      BY <2>1, <2>6 DEF Once, OneReason
    <3>2. ASSUME NEW i \in DOMAIN queue[n], Opens(n, i, e)
          PROVE  /\ e \notin asked' /\ ~Opening(n, e)'
                 /\ \A j \in DOMAIN queue[n] : Opens(n, j, e) => i = j
      <4>1. n = m
        BY <2>2
      <4>2. e # d
        BY <2>1, <2>5, <3>2, <4>1 DEF Once, OneReason
      <4>3. e \notin asked /\ \A j \in DOMAIN queue[n] : Opens(n, j, e) => i = j
        BY <3>2 DEF Once, OneReason
      <4> QED
        BY <2>1, <2>6, <4>2, <4>3
    <3> QED
      BY <2>1, <2>7, <3>1, <3>2
  <2>9. NotYet'
    <3>1. \A e \in Device : ToOpen(e)' => ToOpen(e)
      BY <2>1, <2>5, <2>6, <2>7 DEF ToOpen
    <3> QED
      BY <2>1, <3>1 DEF Once, NotYet
  <2>10. KeptOpen'
    <3>1. \A n \in Instance, e \in Device : Putting(n, e)' <=> Putting(n, e)
      BY <2>1, <2>3 DEF Putting
    <3> QED
      BY <2>1, <3>1 DEF Once, KeptOpen
  <2>11. Leaves'
    <3>1. \A n \in Instance, e \in Device : Leaving(n, e) => Leaving(n, e)'
      BY <2>1, <2>3 DEF Leaving, Removing
    <3> QED
      BY <2>1, <3>1 DEF Once, Leaves
  <2> QED
    BY <2>4, <2>8, <2>9, <2>10, <2>11 DEF Once
<1> QED
  BY <1>1, <1>2

\* The device is opened: the thread was the only reason to, and it is open for the first time.
LEMMA OnceOpens == ASSUME TypeInv, Once, NEW m \in Instance, OpenDevice(m) PROVE Once'
<1> USE DEF TypeInv
<1>1. CASE UNCHANGED <<pc, connector, opened, open>>
  BY <1>1, OnceApart DEF OpenDevice, monitorVars, fragmentVars, usbVars, boundVars
<1>2. CASE pc' = [pc EXCEPT ![m] = "idle"] /\ UNCHANGED <<connector, open>>
  BY <1>2, OnceMoves DEF OpenDevice, fragmentVars, usbVars, boundVars, Removing
<1>3. CASE /\ device[m] \in permitted
           /\ pc' = [pc EXCEPT ![m] = "put"]
           /\ opened' = [opened EXCEPT ![device[m]] = @ + 1]
           /\ open' = [open EXCEPT ![device[m]] = @ \cup {opened'[device[m]]}]
           /\ connector' = [connector EXCEPT ![m] = opened'[device[m]]]
  <2> DEFINE d == device[m]
             c == opened[d] + 1
  <2>1. /\ pc[m] = "open" /\ d \in Device /\ d \in plugged /\ c # None
        /\ open' = [open EXCEPT ![d] = open[d] \cup {c}]
        /\ connector' = [connector EXCEPT ![m] = c]
        /\ UNCHANGED <<plugged, asked, queue, device, mConnectors, starts, registered, mUSBMonitor>>
    <3>1. d \in Device /\ d \in plugged /\ opened[d] \in Nat
      BY <1>3 DEF ThreadType, FragmentType, TableType
    <3>2. c # None
      BY <3>1 DEF None
    <3>3. /\ pc[m] = "open" /\ opened' = [opened EXCEPT ![d] = opened[d] + 1]
          /\ open' = [open EXCEPT ![d] = open[d] \cup {opened'[d]}]
          /\ connector' = [connector EXCEPT ![m] = opened'[d]]
      BY <1>3 DEF OpenDevice
    <3>4. opened'[d] = c
      BY <3>1, <3>3 DEF TableType
    <3> QED
      BY <3>1, <3>2, <3>3, <3>4 DEF OpenDevice, fragmentVars, usbVars, boundVars
  <2> HIDE DEF c, d
  <2>2. /\ starts > 0
        /\ \A n \in Instance : n # m => pc[n] = "idle" /\ queue[n] = <<>> /\ DOMAIN queue[n] = {}
    BY <2>1, BusyAlone
  <2>3. /\ pc'[m] = "put" /\ connector'[m] = c
        /\ \A n \in Instance : n # m => pc'[n] = pc[n]
    BY <1>3, <2>1 DEF ThreadType
  <2>4. Opening(m, d)
    BY <2>1 DEF Opening, d
  <2>5. open[d] = {} /\ mConnectors[d] = None
    BY <2>1, <2>4 DEF Once, NotYet, ToOpen
  <2>6. open'[d] = {c} /\ \A e \in Device : e # d => open'[e] = open[e]
    BY <2>1, <2>5 DEF TableType
  <2>7. OneAnnounced'
    <3>1. \A n \in Instance : Busy(n)' => Busy(n)
      BY <2>1, <2>3 DEF Busy
    <3>2. starts' > 0 /\ starts' # 0
      BY <2>1, <2>2
    <3> QED
      BY <2>1, <3>1, <3>2 DEF Once, OneAnnounced
  <2>8. \A n \in Instance, e \in Device : ~Opening(n, e)'
    BY <2>2, <2>3 DEF Opening
  <2>9. \A n \in Instance : \A i, e : Opens(n, i, e)' <=> Opens(n, i, e)
    BY <2>1 DEF Opens
  <2>10. OneReason'
    BY <2>1, <2>8, <2>9 DEF Once, OneReason
  <2>11. NotYet'
    <3> SUFFICES ASSUME NEW e \in Device, ToOpen(e)' PROVE open'[e] = {} /\ mConnectors'[e] = None
      BY DEF NotYet
    <3>1. ToOpen(e)
      BY <2>1, <2>8, <2>9 DEF ToOpen
    <3>2. e # d
      <4> SUFFICES ASSUME ToOpen(d)' PROVE FALSE
        BY <2>1 DEF d
      <4>1. d \notin asked /\ \A n \in Instance : \A i \in DOMAIN queue[n] : ~Opens(n, i, d)
        BY <2>1, <2>2, <2>4 DEF Once, OneReason
      <4>2. device' = device
        BY <2>1
      <4> QED
        BY <2>1, <2>8, <2>9, <4>1, <4>2 DEF ToOpen, d
    <3> QED
      BY <2>1, <2>6, <3>1, <3>2 DEF Once, NotYet
  <2>12. KeptOpen'
    <3>1. \A n \in Instance, e \in Device : ~Putting(n, e) /\ (Putting(n, e)' <=> n = m /\ e = d)
      BY <2>1, <2>2, <2>3 DEF Putting, d
    <3> QED
      BY <2>1, <2>3, <2>5, <2>6, <3>1 DEF Once, KeptOpen
  <2>13. Leaves'
    <3>1. \A n \in Instance, e \in Device : Leaving(n, e) => Leaving(n, e)'
      BY <2>1, <2>3 DEF Leaving, Removing
    <3> QED
      BY <2>1, <2>6, <3>1 DEF Once, Leaves
  <2> QED
    BY <2>7, <2>10, <2>11, <2>12, <2>13 DEF Once
<1> QED
  BY <1>1, <1>2, <1>3 DEF OpenDevice, PcTo

\* The connector is put where it is kept.
LEMMA OncePuts == ASSUME TypeInv, Once, NEW m \in Instance, PutConnector(m) PROVE Once'
<1> USE DEF TypeInv
<1> DEFINE d == device[m]
<1>1. /\ pc[m] = "put" /\ d \in Device
      /\ pc' = [pc EXCEPT ![m] = "note"]
      /\ mConnectors' = [mConnectors EXCEPT ![d] = connector[m]]
      /\ UNCHANGED <<plugged, asked, queue, device, connector, open, starts, registered, mUSBMonitor>>
  BY DEF PutConnector, PcTo, usbVars, fragmentVars, boundVars, ThreadType
<1> HIDE DEF d
<1>2. /\ starts > 0
      /\ \A n \in Instance : n # m => pc[n] = "idle" /\ queue[n] = <<>> /\ DOMAIN queue[n] = {}
  BY <1>1, BusyAlone
<1>3. /\ pc'[m] = "note" /\ \A n \in Instance : n # m => pc'[n] = pc[n]
      /\ mConnectors'[d] = connector[m]
      /\ \A e \in Device : e # d => mConnectors'[e] = mConnectors[e]
  BY <1>1 DEF ThreadType, TableType
<1>4. open[d] = {connector[m]} /\ connector[m] # None
  <2>1. Putting(m, d)
    BY <1>1 DEF Putting, d
  <2> QED
    BY <1>1, <2>1 DEF Once, KeptOpen
<1>5. OneAnnounced'
  <2>1. \A n \in Instance : Busy(n)' => Busy(n)
    BY <1>1, <1>3 DEF Busy
  <2>2. starts' > 0 /\ starts' # 0
    BY <1>1, <1>2
  <2> QED
    BY <1>1, <2>1, <2>2 DEF Once, OneAnnounced
<1>6. \A n \in Instance, e \in Device : Opening(n, e)' <=> Opening(n, e)
  BY <1>1, <1>3 DEF Opening
<1>7. \A n \in Instance : \A i, e : Opens(n, i, e)' <=> Opens(n, i, e)
  BY <1>1 DEF Opens
<1>8. OneReason'
  BY <1>1, <1>6, <1>7 DEF Once, OneReason
<1>9. NotYet'
  <2> SUFFICES ASSUME NEW e \in Device, ToOpen(e)' PROVE open'[e] = {} /\ mConnectors'[e] = None
    BY DEF NotYet
  <2>1. ToOpen(e)
    BY <1>1, <1>6, <1>7 DEF ToOpen
  <2>2. open[e] = {} /\ mConnectors[e] = None
    BY <2>1 DEF Once, NotYet
  <2> QED
    BY <1>1, <1>3, <1>4, <2>2
<1>10. KeptOpen'
  <2>1. \A n \in Instance, e \in Device : ~Putting(n, e)' /\ (Putting(n, e) => e = d)
    BY <1>1, <1>2, <1>3 DEF Putting, d
  <2>2. \A e \in Device : e # d => open[e] = {mConnectors[e]} \ {None}
    BY <2>1 DEF Once, KeptOpen
  <2> QED
    BY <1>1, <1>3, <1>4, <2>1, <2>2 DEF KeptOpen
<1>11. Leaves'
  <2>1. \A n \in Instance, e \in Device : Leaving(n, e) => Leaving(n, e)'
    BY <1>1, <1>3 DEF Leaving, Removing
  <2> QED
    BY <1>1, <1>3, <1>4, <2>1 DEF Once, Leaves
<1> QED
  BY <1>5, <1>8, <1>9, <1>10, <1>11 DEF Once

\* The connector that is kept, if there is one, is closed: it was all that was open.
LEMMA OnceCloses == ASSUME TypeInv, Once, NEW m \in Instance, CloseConnector(m) PROVE Once'
<1> USE DEF TypeInv
<1> DEFINE d == device[m]
<1>1. /\ pc[m] = "close" /\ d \in Device
      /\ pc' = [pc EXCEPT ![m] = "idle"]
      /\ mConnectors' = [mConnectors EXCEPT ![d] = None]
      /\ open' = [open EXCEPT ![d] = open[d] \ {mConnectors[d]}]
      /\ UNCHANGED <<plugged, asked, queue, device, connector, starts, registered, mUSBMonitor>>
  BY DEF CloseConnector, PcTo, usbVars, fragmentVars, boundVars, ThreadType
<1> HIDE DEF d
<1>2. /\ starts > 0
      /\ \A n \in Instance : n # m => pc[n] = "idle" /\ queue[n] = <<>> /\ DOMAIN queue[n] = {}
  BY <1>1, BusyAlone
<1>3. /\ pc'[m] = "idle" /\ \A n \in Instance : n # m => pc'[n] = pc[n]
      /\ mConnectors'[d] = None /\ open'[d] = open[d] \ {mConnectors[d]}
      /\ \A e \in Device : e # d => mConnectors'[e] = mConnectors[e] /\ open'[e] = open[e]
  BY <1>1 DEF ThreadType, TableType
<1>4. \A n \in Instance, e \in Device : ~Putting(n, e) /\ ~Putting(n, e)'
  BY <1>1, <1>2, <1>3 DEF Putting
<1>5. open'[d] = {}
  <2>1. open[d] = {mConnectors[d]} \ {None}
    BY <1>1, <1>4 DEF Once, KeptOpen
  <2> QED
    BY <1>3, <2>1
<1>6. OneAnnounced'
  <2>1. \A n \in Instance : Busy(n)' => Busy(n)
    BY <1>1, <1>3 DEF Busy
  <2>2. starts' > 0 /\ starts' # 0
    BY <1>1, <1>2
  <2> QED
    BY <1>1, <2>1, <2>2 DEF Once, OneAnnounced
<1>7. \A n \in Instance, e \in Device : Opening(n, e)' <=> Opening(n, e)
  BY <1>1, <1>3 DEF Opening
<1>8. \A n \in Instance : \A i, e : Opens(n, i, e)' <=> Opens(n, i, e)
  BY <1>1 DEF Opens
<1>9. OneReason'
  BY <1>1, <1>7, <1>8 DEF Once, OneReason
<1>10. NotYet'
  <2> SUFFICES ASSUME NEW e \in Device, ToOpen(e)' PROVE open'[e] = {} /\ mConnectors'[e] = None
    BY DEF NotYet
  <2>1. ToOpen(e)
    BY <1>1, <1>7, <1>8 DEF ToOpen
  <2> QED
    BY <1>3, <1>5, <2>1 DEF Once, NotYet
<1>11. KeptOpen'
  <2>1. \A e \in Device : open[e] = {mConnectors[e]} \ {None}
    BY <1>4 DEF Once, KeptOpen
  <2>2. \A e \in Device : open'[e] = {mConnectors'[e]} \ {None}
    BY <1>3, <1>5, <2>1
  <2> QED
    BY <1>4, <2>2 DEF KeptOpen
<1>12. Leaves'
  <2>1. \A n \in Instance, e \in Device : e # d /\ Leaving(n, e) => Leaving(n, e)'
    BY <1>1, <1>3 DEF Leaving, Removing, d
  <2> QED
    BY <1>1, <1>3, <1>5, <2>1 DEF Once, Leaves
<1> QED
  BY <1>6, <1>9, <1>10, <1>11, <1>12 DEF Once

\* Every action keeps what a device that is announced once has gone through.
LEMMA OnceStep == LifeInv /\ OnceInv /\ [Next]_vars => OnceInv'
<1> SUFFICES ASSUME LifeInv, OnceInv, [Next]_vars, ~again' PROVE Once'
  BY DEF OnceInv
<1>0. TypeInv /\ Once
  <2>1. ~again
    BY DEF Next, vars, MonitorStep, HandlerStep, PlatformStep, Plug, Unplug, Grant,
       InitDeviceDetector,
       OnAttach, OnStart, OnStop, OnDetach, OnStopClears, DestroyMonitor, QuitHandler, RequestRefresh,
       Callback, HasPermission, OpenDevice, PutConnector, NoteDevice, NativeAdd, NativeRemove,
       ForgetDevice, CloseConnector, RunPosted, RefreshClears, HasMonitor, IsRegistered,
       RefreshDevices, historyVars
  <2> QED
    BY <2>1 DEF LifeInv, OnceInv
<1> USE <1>0
<1>1. ASSUME NEW d \in Device, Plug(d) PROVE Once'
  <2>1. /\ d \notin asked /\ d \notin plugged
        /\ \A n \in Instance : /\ ~Opening(n, d) /\ ~Leaving(n, d)
                               /\ \A i \in DOMAIN queue[n] : ~Opens(n, i, d)
    BY <1>1 DEF Plug, Opening, Opens, Leaving, Touched, Removing, TypeInv, FragmentType
  <2>2. registered => open[d] = {} /\ mConnectors[d] = None
    BY <2>1 DEF Once, Leaves
  <2> QED
    BY <1>1, <2>1, <2>2, OnceSpeaks DEF Plug, fragmentVars, tableVars, connectorVars
<1>2. ASSUME NEW d \in Device, Unplug(d) PROVE Once'
  BY <1>2, OnceSpeaks DEF Unplug, fragmentVars, tableVars, connectorVars, boundVars
<1>3. ASSUME NEW d \in Device, Grant(d) PROVE Once'
  <2>1. \A n \in Instance : ~Opening(n, d) /\ \A i \in DOMAIN queue[n] : ~Opens(n, i, d)
    BY <1>3 DEF Grant, Once, OneReason
  <2>2. open[d] = {} /\ mConnectors[d] = None
    BY <1>3 DEF Grant, Once, NotYet, ToOpen
  <2> QED
    BY <1>3, <2>1, <2>2, OnceSpeaks DEF Grant, fragmentVars, tableVars, connectorVars,
       boundVars
<1>4. CASE InitDeviceDetector
  BY <1>4, OnceApart DEF InitDeviceDetector, usbVars, tableVars, connectorVars, boundVars
<1>5. CASE OnAttach
  BY <1>5, OnceApart DEF OnAttach, LifeInv, TypeInv, Life, usbVars, tableVars, connectorVars
<1>6. CASE OnStart
  BY <1>6, OnceStarts
<1>7. CASE OnStop
  <2>1. \A m \in Instance : queue'[m] = queue[m] \/ queue'[m] = <<>>
    BY <1>7 DEF OnStop, TypeInv, QueueType
  <2> QED
    BY <1>7, <2>1, OnceDrops DEF OnStop, usbVars, tableVars, connectorVars, boundVars
<1>8. CASE OnDetach
  BY <1>8, OnceApart DEF OnDetach, usbVars, tableVars, connectorVars, boundVars
<1>9. CASE OnStopClears
  BY <1>9, OnceApart DEF OnStopClears, usbVars, connectorVars, boundVars
<1>10. CASE DestroyMonitor
  <2>1. \A m \in Instance : queue'[m] = queue[m] \/ queue'[m] = <<>>
    BY <1>10 DEF DestroyMonitor, TypeInv, QueueType
  <2> QED
    BY <1>10, <2>1, OnceDrops DEF DestroyMonitor, usbVars, tableVars, connectorVars, boundVars
<1>11. CASE QuitHandler
  BY <1>11, OnceApart DEF QuitHandler, usbVars, tableVars, connectorVars, boundVars
<1>12. CASE RequestRefresh
  BY <1>12, OnceApart DEF RequestRefresh, usbVars, fragmentVars, tableVars, connectorVars
<1>13. ASSUME NEW m \in Instance, Callback(m) PROVE Once'
  BY <1>13, OnceCalls
<1>14. ASSUME NEW m \in Instance, HasPermission(m) PROVE Once'
  BY <1>14, OnceAsks
<1>15. ASSUME NEW m \in Instance, OpenDevice(m) PROVE Once'
  BY <1>15, OnceOpens
<1>16. ASSUME NEW m \in Instance, PutConnector(m) PROVE Once'
  BY <1>16, OncePuts
<1>17. ASSUME NEW m \in Instance, NoteDevice(m) PROVE Once'
  BY <1>17, OnceMoves DEF NoteDevice, PcTo, Removing, usbVars, fragmentVars, connectorVars,
     boundVars
<1>18. ASSUME NEW m \in Instance, NativeAdd(m) PROVE Once'
  BY <1>18, OnceMoves DEF NativeAdd, PcTo, Removing, usbVars, fragmentVars, connectorVars,
     boundVars
<1>19. ASSUME NEW m \in Instance, NativeRemove(m) PROVE Once'
  BY <1>19, OnceMoves DEF NativeRemove, PcTo, Removing, usbVars, fragmentVars,
     connectorVars, boundVars
<1>20. ASSUME NEW m \in Instance, ForgetDevice(m) PROVE Once'
  BY <1>20, OnceMoves DEF ForgetDevice, PcTo, Removing, usbVars, fragmentVars,
     connectorVars, boundVars
<1>21. ASSUME NEW m \in Instance, CloseConnector(m) PROVE Once'
  BY <1>21, OnceCloses
<1>22. ASSUME NEW m \in Instance, RunPosted(m) PROVE Once'
  BY <1>22, OnceApart DEF RunPosted, usbVars, fragmentVars, tableVars, connectorVars, boundVars
<1>23. ASSUME NEW m \in Instance, RefreshClears(m) PROVE Once'
  BY <1>23, OnceApart DEF RefreshClears, usbVars, fragmentVars, connectorVars, boundVars
<1>24a. ASSUME NEW m \in Instance, HasMonitor(m) PROVE Once'
  BY <1>24a, OnceApart DEF HasMonitor, usbVars, fragmentVars, tableVars, connectorVars,
     boundVars
<1>24. ASSUME NEW m \in Instance, IsRegistered(m) PROVE Once'
  BY <1>24, OnceApart DEF IsRegistered, usbVars, fragmentVars, tableVars, connectorVars,
     boundVars
<1>25. ASSUME NEW m \in Instance, RefreshDevices(m) PROVE Once'
  BY <1>25 DEF RefreshDevices
<1>26. CASE UNCHANGED vars
  BY <1>26, OnceApart DEF vars, usbVars, fragmentVars, tableVars, connectorVars, boundVars
<1> QED
  BY <1>1, <1>2, <1>3, <1>4, <1>5, <1>6, <1>7, <1>8, <1>9, <1>10, <1>11, <1>12, <1>13,
     <1>14, <1>15, <1>16, <1>17, <1>18, <1>19, <1>20, <1>21, <1>22, <1>23, <1>24,
     <1>24a, <1>25, <1>26 DEF Next, MonitorStep, HandlerStep, PlatformStep

\* What is open is in mConnectors, or a callback about the device is being made, as long as
\* no restart and no refresh announces a device again.
THEOREM OpenedOnceClosedOnce == Spec => []NothingLost
<1>1. OnceInv => NothingLost
  BY DEF OnceInv, Once, KeptOpen, Putting, NothingLost, Touched
<1> QED
  BY <1>1, OnceInit, OnceStep, LifeInductive, PTL DEF Spec
=============================================================================
