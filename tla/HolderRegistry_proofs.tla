------------------------ MODULE HolderRegistry_proofs ------------------------
(***************************************************************************)
(* Theorems about HolderRegistry, for every set of devices, threads and    *)
(* holder addresses; then about UvcPlugin, which adds the main isolate:    *)
(* what comes before its section uses no assumption about Main.            *)
(***************************************************************************)
EXTENDS UvcPlugin, TLAPS

-----------------------------------------------------------------------------
(* Type correctness.                                                       *)

\* Who is a thread.
LEMMA Threads == Platform \in Thread /\ Usb \in Thread /\ Caller \subseteq Thread
BY RegistryAssumption DEF Thread

\* The last reference may go, the destructor may stop a stream: all in type.
LEMMA DropRefType ==
    ASSUME TypeOK, NEW t \in Thread, DropRef(t)
    PROVE  /\ ref' \in [Thread -> Holder \cup {NoHolder}]
           /\ alive' \subseteq Holder
           /\ usb' \in [Device -> {"absent", "connected", "streaming"}]
           /\ streamBy' \in [Device -> Holder \cup {NoHolder}]
BY DEF TypeOK, DropRef, UvcStop, usbVars

\* An event is appended or dropped.
LEMMA PostType ==
    ASSUME TypeOK, NEW d \in Device, NEW b \in BOOLEAN, Post(d, b)
    PROVE  msgs' \in Seq(Event)
<1> DEFINE e == [id |-> d, attached |-> b]
<1>1. e \in Event
  BY Zenon DEF Event
<1>2. msgs \in Seq(Event)
  BY DEF TypeOK
<1>3. msgs' = Append(msgs, e) \/ msgs' = msgs
  BY DEF Post
<1> HIDE DEF e
<1> QED
  BY <1>1, <1>2, <1>3

\* A log without events.
LEMMA EmptyIsLog == <<>> \in Seq(Event)
OBVIOUS

\* Everything starts in type.
LEMMA TypeInit == Init => TypeOK
<1> USE RegistryAssumption, Threads
<1> SUFFICES ASSUME Init PROVE TypeOK
  OBVIOUS
<1>1. (CHOOSE d \in Device : TRUE) \in Device
  OBVIOUS
<1>2. dev \in [Thread -> Device]
  BY <1>1 DEF Init
<1>3. msgs \in Seq(Event)
  BY EmptyIsLog DEF Init
<1>4. pc \in [Thread -> CallerPc \cup UsbPc] /\ pc[Usb] \in UsbPc
       /\ \A t \in Caller : pc[t] \in CallerPc
  BY DEF Init, CallerPc, UsbPc
<1> QED
  BY <1>2, <1>3, <1>4 DEF Init, TypeOK, Op, Reply

\* The steps of the callers, of nativeInit and nativeRelease, of the callbacks, and of Dart.
LEMMA TypeStep == TypeOK /\ [Next]_vars => TypeOK'
<1> USE RegistryAssumption, Threads
<1> SUFFICES ASSUME TypeOK, [Next]_vars PROVE TypeOK'
  OBVIOUS
<1> USE DEF TypeOK, callVars, lockVars, pluginVars, holderVars, usbVars, portVars,
            CallerPc, UsbPc
<1>1. ASSUME NEW t \in Caller, NEW d \in Device, NEW o \in Op, Enter(t, o, d) PROVE TypeOK'
  BY <1>1 DEF Enter, EnterCall, FirstPc, NoPlugin, Reply
<1>2. ASSUME NEW t \in Caller, IsAvailable(t) PROVE TypeOK'
  BY <1>2 DEF IsAvailable, TryFind
<1>3. ASSUME NEW t \in Caller, IsAvailableReturn(t) PROVE TypeOK'
  BY <1>3, DropRefType, SMTT(20) DEF IsAvailableReturn, Reply
<1>4. ASSUME NEW t \in Caller, Find(t) PROVE TypeOK'
  BY <1>4 DEF Find, TryFind
<1>5. ASSUME NEW t \in Caller, UseHolder(t) PROVE TypeOK'
  <2>1. /\ ref[t] \in Holder \cup {NoHolder} /\ dev[t] \in Device
        /\ pc' = [pc EXCEPT ![t] = "drop"]
        /\ UNCHANGED <<op, dev, ref, lockVars, pluginVars, holderVars, portVars>>
    BY <1>5 DEF UseHolder
  <2>2. usb' \in [Device -> {"absent", "connected", "streaming"}]
        /\ streamBy' \in [Device -> Holder \cup {NoHolder}]
    BY <1>5, <2>1 DEF UseHolder, UvcStart, UvcStop
  <2>3. reply' \in [Caller -> Reply]
    BY <1>5 DEF UseHolder, DeviceState, Reply
  <2> QED
    BY <2>1, <2>2, <2>3
<1>6. ASSUME NEW t \in Caller, Drop(t) PROVE TypeOK'
  BY <1>6, DropRefType DEF Drop
<1>7. ASSUME NEW t \in Caller, LockForResize(t) PROVE TypeOK'
  BY <1>7 DEF LockForResize
<1>8. ASSUME NEW t \in Caller, Resize(t) PROVE TypeOK'
  BY <1>8 DEF Resize, Reply
<1>9. ASSUME NEW t \in Caller, Leave(t) PROVE TypeOK'
  BY <1>9 DEF Leave
<1>10. CASE NativeInit
  BY <1>10 DEF NativeInit
<1>11. CASE Install
  BY <1>11 DEF Install
<1>12. CASE NativeRelease
  BY <1>12, EmptyIsLog DEF NativeRelease
<1>13. CASE TerminateAll
  BY <1>13 DEF TerminateAll, ClearHolders, UvcStop
<1>14. CASE ManagerRelease
  BY <1>14 DEF ManagerRelease
<1>15. CASE DestroyMembers
  BY <1>15 DEF DestroyMembers, ClearHolders, UvcStop
<1>16. ASSUME NEW d \in Device, Attach(d) PROVE TypeOK'
  BY <1>16 DEF Attach, UsbGoto
<1>17. CASE AddLock
  BY <1>17 DEF AddLock, UsbGoto
<1>18. CASE AddHolder
  BY <1>18 DEF AddHolder, UsbGoto
<1>19. CASE Announce
  BY <1>19, PostType DEF Announce, UsbGoto
<1>20. ASSUME NEW d \in Device, Detach(d) PROVE TypeOK'
  BY <1>20 DEF Detach, UsbGoto
<1>21. CASE Remove
  BY <1>21 DEF Remove, UsbGoto
<1>22. CASE StopRemoved
  BY <1>22 DEF StopRemoved, UsbGoto, UvcStop
<1>23. CASE Farewell
  BY <1>23, PostType DEF Farewell, UsbGoto
<1>24. CASE Forget
  BY <1>24, DropRefType DEF Forget, UsbGoto
<1>25. CASE Gone
  BY <1>25 DEF Gone, UsbGoto
<1>26. CASE SetPort
  BY <1>26 DEF SetPort
<1>27. CASE Initialize
  BY <1>27 DEF Initialize
<1>28. CASE DetectorRemoved
  BY <1>28 DEF DetectorRemoved
<1>29. CASE Receive
  BY <1>29 DEF Receive
<1>30. CASE UNCHANGED vars
  BY <1>30 DEF vars
<1> QED
  BY <1>1, <1>2, <1>3, <1>4, <1>5, <1>6, <1>7, <1>8, <1>9, <1>10, <1>11, <1>12, <1>13,
     <1>14, <1>15, <1>16, <1>17, <1>18, <1>19, <1>20, <1>21, <1>22, <1>23, <1>24, <1>25,
     <1>26, <1>27, <1>28, <1>29, <1>30
     DEF Next, NativeNext, CallStep, PlatformStep, UsbStep

\* Every variable stays in its type, every thread among its own labels.
THEOREM TypeCorrect == Spec => []TypeOK
BY TypeInit, TypeStep, PTL DEF Spec

-----------------------------------------------------------------------------
(* The manager is there when it is called.                                 *)

InCall == {"avail", "availdrop", "find", "use", "drop", "mlock", "resize", "leave"}
Closing == {"install", "terminate", "mrelease", "members"}

\* Inside an export a caller owns plugin_lock, and past its first statement it
\* has seen the plugin; only the platform thread opens and closes the plugin.
Guarded ==
    /\ \A t \in Caller : pc[t] \in InCall => plugin_lock = t
    /\ \A t \in Caller : pc[t] \in InCall \ {"leave"} => pluginJava
    /\ \A t \in Caller : pc[t] \in Closing => t = Platform

\* What nativeInit and nativeRelease have reached, and what the others rely on.
Phases ==
    /\ pluginJava => m_manager = "valid" /\ pc[Platform] \notin Closing
    /\ pc[Platform] \in Closing \ {"members"} => m_manager = "valid"
    /\ pc[Platform] = "members" => m_manager = "released"
    /\ pc[Usb] # "idle" => m_manager = "valid"

\* nativeInit, nativeRelease and the exports keep each other out.
LEMMA ManagerInit == Init => Guarded /\ Phases
BY RegistryAssumption, Threads DEF Init, Guarded, Phases, InCall, Closing

\* Each step keeps its place in the life of the plugin.
LEMMA ManagerStep == TypeOK /\ Guarded /\ Phases /\ [Next]_vars => Guarded' /\ Phases'
<1> SUFFICES ASSUME TypeOK, Guarded, Phases, [Next]_vars PROVE Guarded' /\ Phases'
  OBVIOUS
<1> USE RegistryAssumption, Threads
<1> USE DEF Guarded, Phases, InCall, Closing, TypeOK, CallerPc, UsbPc, lockVars, pluginVars
<1>1. ASSUME NEW t \in Caller, NEW d \in Device, NEW o \in Op, Enter(t, o, d) PROVE Guarded' /\ Phases'
  BY <1>1 DEF Enter, EnterCall, FirstPc
<1>2. ASSUME NEW t \in Caller, IsAvailable(t) PROVE Guarded' /\ Phases'
  BY <1>2 DEF IsAvailable
<1>3. ASSUME NEW t \in Caller, IsAvailableReturn(t) PROVE Guarded' /\ Phases'
  BY <1>3 DEF IsAvailableReturn
<1>4. ASSUME NEW t \in Caller, Find(t) PROVE Guarded' /\ Phases'
  BY <1>4 DEF Find
<1>5. ASSUME NEW t \in Caller, UseHolder(t) PROVE Guarded' /\ Phases'
  BY <1>5 DEF UseHolder
<1>6. ASSUME NEW t \in Caller, Drop(t) PROVE Guarded' /\ Phases'
  BY <1>6 DEF Drop
<1>7. ASSUME NEW t \in Caller, LockForResize(t) PROVE Guarded' /\ Phases'
  BY <1>7 DEF LockForResize
<1>8. ASSUME NEW t \in Caller, Resize(t) PROVE Guarded' /\ Phases'
  BY <1>8 DEF Resize
<1>9. ASSUME NEW t \in Caller, Leave(t) PROVE Guarded' /\ Phases'
  BY <1>9 DEF Leave
<1>10. CASE NativeInit
  BY <1>10 DEF NativeInit
<1>11. CASE Install
  BY <1>11 DEF Install
<1>12. CASE NativeRelease
  BY <1>12 DEF NativeRelease
<1>13. CASE TerminateAll
  BY <1>13 DEF TerminateAll
<1>14. CASE ManagerRelease
  BY <1>14 DEF ManagerRelease
<1>15. CASE DestroyMembers
  BY <1>15 DEF DestroyMembers
<1>16. ASSUME NEW d \in Device, Attach(d) PROVE Guarded' /\ Phases'
  BY <1>16 DEF Attach, UsbGoto
<1>17. CASE UsbStep
  <2>1. UNCHANGED <<plugin_lock, pluginVars>> /\ pc[Usb] # "idle"
        /\ \E l \in UsbPc : pc' = [pc EXCEPT ![Usb] = l]
    BY <1>17 DEF UsbStep, AddLock, AddHolder, Announce, Remove, StopRemoved,
                Farewell, Forget, Gone, UsbGoto
  <2> QED
    BY <2>1
<1>18. ASSUME NEW d \in Device, Detach(d) PROVE Guarded' /\ Phases'
  BY <1>18 DEF Detach, UsbGoto
<1>19. CASE SetPort \/ Initialize \/ DetectorRemoved \/ Receive
  BY <1>19 DEF SetPort, Initialize, DetectorRemoved, Receive, callVars
<1>20. CASE UNCHANGED vars
  BY <1>20 DEF vars, callVars
<1> QED
  BY <1>1, <1>2, <1>3, <1>4, <1>5, <1>6, <1>7, <1>8, <1>9, <1>10, <1>11, <1>12, <1>13,
     <1>14, <1>15, <1>16, <1>17, <1>18, <1>19, <1>20
     DEF Next, NativeNext, CallStep, PlatformStep

\* What the runs check on one device and two callers holds for any number: no
\* export and no callback calls the USB layer with a released manager.
THEOREM ManagerSafe == Spec => []CallsHaveManager
<1>1. TypeOK /\ Guarded /\ Phases => CallsHaveManager
  BY DEF Guarded, Phases, CallsHaveManager, InCall
<1> QED
  BY <1>1, ManagerInit, ManagerStep, TypeCorrect, PTL DEF Spec

-----------------------------------------------------------------------------
(* Who refers to which holder.                                             *)

Holds(t) == ref[t] # NoHolder

\* References are to living holders, kept only between look-up and drop; one
\* object is in the map at most once, and is one device's alone.
References ==
    /\ \A t \in Caller : Holds(t) => pc[t] \in {"availdrop", "use", "drop"}
    /\ Holds(Usb) => pc[Usb] \in {"stop", "farewell", "forget"}
    /\ \A t \in Thread : Holds(t) => ref[t] \in alive
    /\ \A d \in Device : holders[d] # NoHolder => holders[d] \in alive
    /\ \A d, e \in Device : holders[d] = holders[e] /\ holders[d] # NoHolder => d = e
    /\ \A t \in Thread, d \in Device : Holds(t) /\ holders[d] = ref[t] => dev[t] = d
    /\ \A t, u \in Thread : Holds(t) /\ ref[t] = ref[u] => dev[t] = dev[u]

StartedByHolder ==
    \A d \in Device : usb[d] = "streaming" => streamBy[d] # NoHolder

\* The device id belongs to the registered holder: a caller that still has an
\* older one is the only thread that keeps it, and that one's stream is over.
Successors ==
    /\ \A t \in Caller :
          LET d == dev[t] IN
          (Holds(t) /\ ref[t] # holders[d] /\ usb[d] = "streaming")
              => streamBy[d] # holders[d]
    /\ pc[Usb] \in {"stop", "farewell", "forget"} => holders[dev[Usb]] = NoHolder

Ownership == References /\ StartedByHolder /\ StreamOwned /\ Successors

\* Nobody refers to anything.
LEMMA OwnershipInit == Init => Ownership
BY RegistryAssumption, Threads
   DEF Init, Ownership, References, StartedByHolder, StreamOwned, Successors, Holds

\* A step that moves no reference and starts no stream keeps every part.
LEMMA OwnershipFrame ==
    ASSUME TypeOK, Ownership, UNCHANGED <<holders, alive, ref>>,
           \A t \in Thread : Holds(t) => dev'[t] = dev[t],
           \A t \in Caller : Holds(t) => pc'[t] \in {"availdrop", "use", "drop"},
           Holds(Usb) => pc'[Usb] \in {"stop", "farewell", "forget"},
           pc'[Usb] \in {"stop", "farewell", "forget"}
              => pc[Usb] \in {"stop", "farewell", "forget"} /\ dev'[Usb] = dev[Usb],
           \A d \in Device : usb'[d] = "streaming" =>
              usb[d] = "streaming" /\ streamBy'[d] = streamBy[d]
    PROVE  Ownership'
<1> USE Threads, RegistryAssumption DEF TypeOK, Ownership, Holds
<1>1. References'
  BY DEF References
<1>2. StartedByHolder'
  BY DEF StartedByHolder
<1>3. StreamOwned'
  <2> SUFFICES ASSUME NEW d \in Device, usb'[d] = "streaming", streamBy[d] # holders[d]
               PROVE  \E t \in Thread : ref[t] = streamBy[d] /\ dev'[t] = d
    BY DEF StreamOwned
  <2>1. PICK t \in Thread : ref[t] = streamBy[d] /\ dev[t] = d
    BY DEF StreamOwned
  <2>2. Holds(t)
    BY <2>1 DEF StartedByHolder
  <2> QED
    BY <2>1, <2>2
<1>4. Successors'
  BY DEF Successors
<1> QED
  BY <1>1, <1>2, <1>3, <1>4

\* Dropping a local, and destroying the object with it, keeps every part: a
\* destroyed object is in no map and in no other local, and its device is silent.
LEMMA DropRefOwnership ==
    ASSUME TypeOK, Ownership, NEW t \in Thread, DropRef(t),
           UNCHANGED <<holders, dev>>,
           NEW l \in {"leave", "find", "gone"}, pc' = [pc EXCEPT ![t] = l]
    PROVE  Ownership'
<1> USE Threads, RegistryAssumption DEF TypeOK, Ownership, Holds
<1>1. /\ ref' = [ref EXCEPT ![t] = NoHolder]
      /\ \A d \in Device : usb'[d] = "streaming" =>
            usb[d] = "streaming" /\ streamBy'[d] = streamBy[d]
  BY DEF DropRef, UvcStop, usbVars
<1>2. References'
  <2>1. CASE UNCHANGED alive
    BY <1>1, <2>1 DEF References
  <2>2. CASE alive' = alive \ {ref[t]} /\ ~ReachableWithout(t, ref[t])
    BY <1>1, <2>2 DEF References, ReachableWithout
  <2> QED
    BY <2>1, <2>2 DEF DropRef
<1>3. StartedByHolder'
  BY <1>1 DEF StartedByHolder
<1>4. StreamOwned'
  <2> SUFFICES ASSUME NEW d \in Device, usb'[d] = "streaming", streamBy[d] # holders[d]
               PROVE  \E u \in Thread : ref'[u] = streamBy[d] /\ dev[u] = d
    BY <1>1 DEF StreamOwned
  <2>1. PICK u \in Thread : ref[u] = streamBy[d] /\ dev[u] = d
    BY <1>1 DEF StreamOwned
  <2>2. CASE u # t
    BY <1>1, <2>1, <2>2
  <2>3. CASE u = t
    <3>1. ref[t] # NoHolder
      BY <1>1, <2>1, <2>3 DEF StartedByHolder
    <3>2. ReachableWithout(t, ref[t])
      <4>1. CASE UvcStop({dev[t]})
        BY <2>1, <2>3, <4>1 DEF UvcStop
      <4> QED
        BY <3>1, <4>1 DEF DropRef
    <3> QED
      BY <1>1, <2>1, <2>3, <3>1, <3>2 DEF ReachableWithout, References
  <2> QED
    BY <2>2, <2>3
<1>5. Successors'
  BY <1>1 DEF Successors
<1> QED
  BY <1>2, <1>3, <1>4, <1>5

\* Destroying the map stops every device in it.
LEMMA ClearHoldersOwnership ==
    ASSUME TypeOK, Ownership, ClearHolders, UNCHANGED <<dev, ref>>,
           NEW l \in {"idle", "mrelease"}, pc' = [pc EXCEPT ![Platform] = l],
           ~Holds(Platform)
    PROVE  Ownership'
<1> USE Threads, RegistryAssumption DEF TypeOK, Ownership, Holds
<1>1. /\ \A d \in Device : holders'[d] = NoHolder
      /\ \A t \in Thread : ref[t] \in alive => ref[t] \in alive'
      /\ \A d \in Device : usb'[d] = "streaming" =>
            usb[d] = "streaming" /\ streamBy'[d] = streamBy[d] /\ holders[d] = NoHolder
  BY DEF ClearHolders, UvcStop, Registered
<1> QED
  BY <1>1 DEF References, StartedByHolder, StreamOwned, Successors

\* Each step moves a reference, a stream or neither.
LEMMA OwnershipStep == TypeOK /\ Guarded /\ Ownership /\ [Next]_vars => Ownership'
<1> SUFFICES ASSUME TypeOK, Guarded, Ownership, [Next]_vars PROVE Ownership'
  OBVIOUS
<1> USE RegistryAssumption, Threads
<1> USE DEF TypeOK, Guarded, InCall, Ownership, Holds, holderVars, usbVars
<1>1. ASSUME NEW t \in Caller, NEW d \in Device, NEW o \in Op, Enter(t, o, d) PROVE Ownership'
  BY <1>1 DEF Enter, EnterCall, References, StartedByHolder, StreamOwned, Successors
<1>2. ASSUME NEW t \in Caller, IsAvailable(t) PROVE Ownership'
  BY <1>2 DEF IsAvailable, TryFind, References, StartedByHolder, StreamOwned, Successors
<1>3. ASSUME NEW t \in Caller, IsAvailableReturn(t) PROVE Ownership'
  BY <1>3, DropRefOwnership DEF IsAvailableReturn, References
<1>4. ASSUME NEW t \in Caller, Find(t) PROVE Ownership'
  BY <1>4 DEF Find, TryFind, References, StartedByHolder, StreamOwned, Successors
<1>5. ASSUME NEW t \in Caller, UseHolder(t) PROVE Ownership'
  <2>1. /\ UNCHANGED <<holders, alive, ref, dev>>
        /\ pc' = [pc EXCEPT ![t] = "drop"] /\ pc[t] = "use"
    BY <1>5 DEF UseHolder
  <2>2. \A d \in Device : usb'[d] = "streaming" =>
           \/ usb[d] = "streaming" /\ streamBy'[d] = streamBy[d]
           \/ d = dev[t] /\ streamBy'[d] = ref[t] /\ Holds(t)
    BY <1>5 DEF UseHolder, UvcStart, UvcStop
  <2>3. \A u \in Caller : Holds(u) => u = t
    BY <2>1 DEF References
  <2>4. References'
    BY <2>1 DEF References
  <2>5. StartedByHolder'
    BY <2>2 DEF StartedByHolder
  <2>6. StreamOwned'
    BY <2>1, <2>2 DEF StreamOwned
  <2>7. Successors'
    BY <2>1, <2>2, <2>3 DEF Successors
  <2> QED
    BY <2>4, <2>5, <2>6, <2>7
<1>6. ASSUME NEW t \in Caller, Drop(t) PROVE Ownership'
  BY <1>6, DropRefOwnership DEF Drop, References
<1>7. ASSUME NEW t \in Caller, LockForResize(t) \/ Resize(t) \/ Leave(t) PROVE Ownership'
  BY <1>7 DEF LockForResize, Resize, Leave, References, StartedByHolder, StreamOwned,
     Successors
<1>8. CASE NativeInit \/ Install \/ NativeRelease
  BY <1>8, SMTT(20) DEF NativeInit, Install, NativeRelease, References, StartedByHolder, StreamOwned,
     Successors
<1>9. CASE TerminateAll \/ DestroyMembers
  BY <1>9, ClearHoldersOwnership DEF TerminateAll, DestroyMembers, References
<1>10. CASE ManagerRelease
  BY <1>10 DEF ManagerRelease, References, StartedByHolder, StreamOwned, Successors
<1>11. ASSUME NEW d \in Device, Attach(d) PROVE Ownership'
  <2>1. ~Holds(Usb)
    BY <1>11 DEF Attach, References
  <2>2. UNCHANGED <<holders, alive, ref, streamBy>>
        /\ dev' = [dev EXCEPT ![Usb] = d] /\ pc' = [pc EXCEPT ![Usb] = "add"]
        /\ usb' = [usb EXCEPT ![d] = IF @ = "absent" THEN "connected" ELSE @]
    BY <1>11 DEF Attach, UsbGoto
  <2> QED
    BY <2>1, <2>2, OwnershipFrame DEF References
<1>12. CASE AddLock \/ Announce
  <2>1. ~Holds(Usb)
    BY <1>12 DEF AddLock, Announce, References
  <2>2. UNCHANGED <<holders, alive, ref, dev, usb, streamBy>>
        /\ \E l \in {"create", "idle"} : pc' = [pc EXCEPT ![Usb] = l]
    BY <1>12 DEF AddLock, Announce, UsbGoto
  <2> QED
    BY <2>1, <2>2, OwnershipFrame DEF References
<1>13. CASE AddHolder
  <2>1. ~Holds(Usb)
    BY <1>13 DEF AddHolder, References
  <2>2. UNCHANGED <<ref, dev, usb, streamBy>> /\ pc' = [pc EXCEPT ![Usb] = "announce"]
    BY <1>13 DEF AddHolder, UsbGoto
  <2>3. CASE UNCHANGED holderVars
    BY <2>1, <2>2, <2>3, OwnershipFrame DEF References
  <2>4. CASE holders[dev[Usb]] = NoHolder
    <3>1. PICK h \in Holder \ alive :
             /\ alive' = alive \cup {h}
             /\ holders' = [holders EXCEPT ![dev[Usb]] = h]
      BY <1>13, <2>4 DEF AddHolder
    <3>2. \A t \in Thread : ref[t] # h
      BY <3>1 DEF References
    <3>3. \A d \in Device : holders[d] # h
      BY <3>1 DEF References
    <3>4. References'
      BY <2>1, <2>2, <3>1, <3>2, <3>3 DEF References
    <3>5. StreamOwned'
      BY <2>2, <2>4, <3>1 DEF StreamOwned, StartedByHolder
    <3>6. Successors'
      BY <2>1, <2>2, <2>4, <3>1, <3>2 DEF Successors, StreamOwned, StartedByHolder
    <3> QED
      BY <2>2, <3>4, <3>5, <3>6 DEF StartedByHolder
  <2> QED
    BY <1>13, <2>3, <2>4 DEF AddHolder
<1>14. ASSUME NEW d \in Device, Detach(d) PROVE Ownership'
  <2>1. ~Holds(Usb)
    BY <1>14 DEF Detach, References
  <2>2. UNCHANGED <<holders, alive, ref>>
        /\ dev' = [dev EXCEPT ![Usb] = d] /\ pc' = [pc EXCEPT ![Usb] = "remove"]
    BY <1>14 DEF Detach, UsbGoto
  <2>3. \A e \in Device : usb'[e] = "streaming" =>
           usb[e] = "streaming" /\ streamBy'[e] = streamBy[e]
    <3>1. PICK s \in {usb[d], "absent"} : usb' = [usb EXCEPT ![d] = s]
      BY <1>14 DEF Detach
    <3>2. streamBy' = [streamBy EXCEPT ![d] =
                          IF usb'[d] = "absent" THEN NoHolder ELSE @]
      BY <1>14 DEF Detach
    <3> QED
      BY <3>1, <3>2
  <2> QED
    BY <2>1, <2>2, <2>3, OwnershipFrame DEF References
<1>15. CASE Remove
  BY <1>15 DEF Remove, UsbGoto, References, StartedByHolder, StreamOwned, Successors
<1>16. CASE StopRemoved \/ Farewell
  <2>1. UNCHANGED <<holders, alive, ref, dev>>
        /\ \E l \in {"farewell", "forget"} : pc' = [pc EXCEPT ![Usb] = l]
        /\ pc[Usb] \in {"stop", "farewell"}
    BY <1>16 DEF StopRemoved, Farewell, UsbGoto
  <2>2. \A d \in Device : usb'[d] = "streaming" =>
           usb[d] = "streaming" /\ streamBy'[d] = streamBy[d]
    <3>1. CASE StopRemoved
      BY <3>1 DEF StopRemoved, UvcStop
    <3>2. CASE Farewell
      BY <3>2 DEF Farewell
    <3> QED
      BY <1>16, <3>1, <3>2
  <2> QED
    BY <2>1, <2>2, OwnershipFrame DEF References
<1>17. CASE Forget
  BY <1>17, DropRefOwnership DEF Forget, UsbGoto, References
<1>18. CASE Gone
  BY <1>18, SMTT(20) DEF Gone, UsbGoto, References, StartedByHolder, StreamOwned, Successors
<1>19. CASE SetPort \/ Initialize \/ DetectorRemoved \/ Receive
  BY <1>19 DEF SetPort, Initialize, DetectorRemoved, Receive, callVars, References,
     StartedByHolder, StreamOwned, Successors
<1>20. CASE UNCHANGED vars
  BY <1>20 DEF vars, callVars, References, StartedByHolder, StreamOwned, Successors
<1> QED
  BY <1>1, <1>2, <1>3, <1>4, <1>5, <1>6, <1>7, <1>8, <1>9, <1>10, <1>11, <1>12, <1>13,
     <1>14, <1>15, <1>16, <1>17, <1>18, <1>19, <1>20
     DEF Next, NativeNext, CallStep, PlatformStep, UsbStep

\* For any number of devices, callers and addresses: whoever started a stream
\* is still around to stop it.
THEOREM NoOrphanStream == Spec => []StreamOwned
BY ManagerInit, ManagerStep, TypeCorrect, OwnershipInit, OwnershipStep, PTL
   DEF Spec, Ownership

\* Only a dropped reference, the destroyed map or a new holder changes alive.
LEMMA AliveChanges ==
    ASSUME Next, alive' # alive
    PROVE  \/ \E t \in Caller : DropRef(t) /\ UNCHANGED holders
           \/ DropRef(Usb) /\ UNCHANGED holders /\ pc[Usb] = "forget"
           \/ ClearHolders
           \/ UNCHANGED usbVars
<1> USE DEF holderVars
<1>1. ASSUME NEW t \in Caller, CallStep(t) PROVE DropRef(t) /\ UNCHANGED holders
  BY <1>1, Zenon DEF CallStep, IsAvailable, IsAvailableReturn, Find, UseHolder, Drop,
     LockForResize, Resize, Leave
<1>2. CASE PlatformStep
  BY <1>2, Zenon DEF PlatformStep, Install, TerminateAll, ManagerRelease, DestroyMembers
<1>3. CASE UsbStep
  BY <1>3, Zenon DEF UsbStep, AddLock, AddHolder, Announce, Remove, StopRemoved, Farewell,
     Forget, Gone
<1>4. ASSUME NEW t \in Caller, NEW d \in Device, NEW o \in Op, Enter(t, o, d) PROVE FALSE
  BY <1>4, Zenon DEF Enter, EnterCall
<1>5. ASSUME NEW d \in Device, Attach(d) \/ Detach(d) PROVE FALSE
  BY <1>5, Zenon DEF Attach, Detach
<1>6. ~(NativeInit \/ NativeRelease \/ SetPort \/ Initialize \/ DetectorRemoved \/ Receive)
  BY Zenon DEF NativeInit, NativeRelease, SetPort, Initialize, DetectorRemoved, Receive
<1> QED
  BY <1>1, <1>2, <1>3, <1>4, <1>5, <1>6 DEF Next, NativeNext

\* uvc_stop in a destructor never hits the stream of the holder that has
\* succeeded the destroyed one under the same device id.
THEOREM SuccessorSpared == Spec => DestructorSparesSuccessor
<1>1. ASSUME TypeOK, Ownership, Next, alive' # alive,
             NEW d \in Device, usb[d] = "streaming", usb'[d] = "connected"
      PROVE  streamBy[d] # holders'[d]
  <2> USE <1>1, Threads, RegistryAssumption DEF TypeOK, Ownership, Holds
  <2>1. ASSUME NEW t \in Thread, DropRef(t), usb' # usb
        PROVE  /\ Holds(t) /\ dev[t] = d
               /\ \A e \in Device : holders[e] # ref[t]
    BY <2>1 DEF DropRef, UvcStop, usbVars, ReachableWithout
  <2>2. ASSUME NEW t \in Caller, DropRef(t), UNCHANGED holders PROVE streamBy[d] # holders'[d]
    BY <2>1, <2>2 DEF Successors
  <2>3. ASSUME DropRef(Usb), UNCHANGED holders, pc[Usb] = "forget"
        PROVE  streamBy[d] # holders'[d]
    BY <2>1, <2>3 DEF Successors, StartedByHolder
  <2>4. CASE ClearHolders
    BY <2>4 DEF ClearHolders, StartedByHolder
  <2> QED
    BY <2>2, <2>3, <2>4, AliveChanges DEF usbVars
<1>2. TypeOK /\ Ownership /\ [Next]_vars =>
        [\A d \in Device :
            (usb[d] = "streaming" /\ usb'[d] = "connected" /\ alive' # alive)
               => streamBy[d] # holders'[d]]_vars
  BY <1>1
<1> QED
  BY <1>2, ManagerInit, ManagerStep, TypeCorrect, OwnershipInit, OwnershipStep, PTL
     DEF Spec, DestructorSparesSuccessor

-----------------------------------------------------------------------------
(* UvcPlugin: Dart listens.                                                *)

\* A step of Dart's handler is its own, or one of a caller that enters stop().
LEMMA PluginTypeStep == PluginTypeOK /\ [PluginNext]_pluginSpecVars => PluginTypeOK'
<1> SUFFICES ASSUME PluginTypeOK, [PluginNext]_pluginSpecVars PROVE PluginTypeOK'
  OBVIOUS
<1>1. CASE NativeStep
  BY <1>1, TypeStep DEF NativeStep, IsolateFrame, Next, PluginTypeOK
<1>2. CASE HandleEvent
  <2>1. Head(msgs) \in Event /\ msgs' \in Seq(Event)
    <3>1. msgs \in Seq(Event) /\ msgs # <<>> /\ msgs' = Tail(msgs)
      BY <1>2 DEF HandleEvent, HandleAttached, HandleDetached, PluginTypeOK, TypeOK
    <3> QED
      BY <3>1
  <2>2. Head(msgs).id \in Device
    BY <2>1 DEF Event
  <2>3. controllers' \subseteq Device
    BY <1>2, <2>2 DEF HandleEvent, HandleAttached, HandleDetached, PluginTypeOK
  <2>4. CASE UNCHANGED <<detector, port, callVars, lockVars, pluginVars, holderVars, usbVars>>
    BY <2>1, <2>3, <2>4 DEF PluginTypeOK, TypeOK, callVars, lockVars, pluginVars,
       holderVars, usbVars
  <2>5. CASE EnterCall(Main, "stop", Head(msgs).id) /\ UNCHANGED <<detector, port>>
    BY <2>1, <2>2, <2>3, <2>5, Threads, MainAssumption, RegistryAssumption
       DEF EnterCall, FirstPc, NoPlugin, PluginTypeOK, TypeOK, Op, CallerPc, UsbPc, Reply,
           pluginVars, holderVars, usbVars
  <2> QED
    BY <1>2, <2>4, <2>5 DEF HandleEvent, HandleAttached, HandleDetached
<1>3. CASE UNCHANGED pluginSpecVars
  BY <1>3, TypeStep DEF pluginSpecVars, PluginTypeOK
<1> QED
  BY <1>1, <1>2, <1>3 DEF PluginNext

\* Dart's handlers enter an export like any caller.
LEMMA PluginManagerStep ==
    PluginTypeOK /\ Guarded /\ Phases /\ [PluginNext]_pluginSpecVars => Guarded' /\ Phases'
<1> SUFFICES ASSUME PluginTypeOK, Guarded, Phases, [PluginNext]_pluginSpecVars
             PROVE  Guarded' /\ Phases'
  OBVIOUS
<1>1. CASE NativeStep
  BY <1>1, ManagerStep DEF NativeStep, Next, PluginTypeOK
<1>2. CASE UNCHANGED <<detector, port, callVars, lockVars, pluginVars, holderVars, usbVars>>
  BY <1>2 DEF callVars, lockVars, pluginVars, Guarded, Phases
<1>3. CASE EnterCall(Main, "stop", Head(msgs).id)
  BY <1>3, Threads, MainAssumption, RegistryAssumption
     DEF EnterCall, FirstPc, Guarded, Phases, InCall, Closing, PluginTypeOK, TypeOK, CallerPc,
         UsbPc, pluginVars
<1>4. CASE UNCHANGED pluginSpecVars
  BY <1>4, ManagerStep DEF pluginSpecVars, PluginTypeOK
<1> QED
  BY <1>1, <1>2, <1>3, <1>4 DEF PluginNext, HandleEvent, HandleAttached, HandleDetached

\* They hold no reference while they wait.
LEMMA PluginOwnershipStep ==
    PluginTypeOK /\ Guarded /\ Ownership /\ [PluginNext]_pluginSpecVars => Ownership'
<1> SUFFICES ASSUME PluginTypeOK, Guarded, Ownership, [PluginNext]_pluginSpecVars
             PROVE  Ownership'
  OBVIOUS
<1>1. CASE NativeStep
  BY <1>1, OwnershipStep DEF NativeStep, Next, PluginTypeOK
<1>2. CASE UNCHANGED <<detector, port, callVars, lockVars, pluginVars, holderVars, usbVars>>
  BY <1>2 DEF callVars, holderVars, usbVars, Ownership, References, StartedByHolder,
     StreamOwned, Successors, Holds
<1>3. CASE EnterCall(Main, "stop", Head(msgs).id)
  <2>1. /\ UNCHANGED <<holders, alive, ref, usb, streamBy>> /\ ~Holds(Main)
        /\ \A t \in Thread \ {Main} : pc'[t] = pc[t] /\ dev'[t] = dev[t]
    BY <1>3, Threads, MainAssumption, RegistryAssumption
       DEF EnterCall, PluginTypeOK, TypeOK, Ownership, References, holderVars, usbVars
  <2> QED
    BY <2>1, OwnershipFrame, Threads, MainAssumption, RegistryAssumption
       DEF PluginTypeOK, Ownership, References, Holds
<1>4. CASE UNCHANGED pluginSpecVars
  BY <1>4, OwnershipStep DEF pluginSpecVars, PluginTypeOK
<1> QED
  BY <1>1, <1>2, <1>3, <1>4 DEF PluginNext, HandleEvent, HandleAttached, HandleDetached

Idle(l) == l \notin {"announce", "stop", "farewell"}

\* Before Dart listens nothing is announced: the USB layer knows no device, no holder is
\* registered and no callback runs; and nothing is under way to a Dart that does not listen.
Quiet ==
    /\ port = "live" => pluginJava
    /\ m_manager = "released" => \A d \in Device : usb[d] = "absent"
    /\ (m_manager = "none" \/ pc[Platform] = "install" \/ (pluginJava /\ port # "live")) =>
          /\ \A d \in Device : usb[d] = "absent" /\ holders[d] = NoHolder
          /\ pc[Usb] = "idle"
    /\ (pc[Platform] = "install" \/ (pluginJava /\ port # "live")) => ~detector
    /\ port # "live" => msgs = <<>> /\ controllers = {}

\* The USB layer starts with no device.
LEMMA QuietInit == PluginInit => Quiet
BY RegistryAssumption, Threads DEF PluginInit, Init, Quiet

\* What the callers and the callbacks do before Dart listens: nothing to the USB layer.
LEMMA QuietFrame ==
    ASSUME PluginTypeOK, Quiet,
           UNCHANGED <<pluginJava, m_manager, port, detector, msgs, controllers, holders>>,
           \A d \in Device : usb[d] = "absent" => usb'[d] = "absent",
           pc'[Platform] = "install" => pc[Platform] = "install",
           pc[Usb] = "idle" => pc'[Usb] = "idle"
    PROVE  Quiet'
BY DEF Quiet

\* What would announce a device needs a detector, and that needs a port.
LEMMA QuietStep ==
    ASSUME PluginTypeOK, Guarded, Phases, Quiet, [PluginNext]_pluginSpecVars
    PROVE  Quiet'
<1> USE Threads, RegistryAssumption
<1> USE DEF PluginTypeOK, TypeOK, lockVars, pluginVars, holderVars, usbVars, portVars
<1>a. ASSUME IsolateFrame, pluginJava' = pluginJava PROVE controllers' = controllers
  BY <1>a DEF IsolateFrame
<1>1. ASSUME NEW t \in Caller, NEW d \in Device, NEW o \in Op, Enter(t, o, d), IsolateFrame
      PROVE  Quiet'
  BY <1>1, <1>a, QuietFrame DEF Enter, EnterCall, FirstPc
<1>2. ASSUME NEW t \in Caller, CallStep(t), IsolateFrame PROVE Quiet'
  <2>1. UNCHANGED <<pluginJava, m_manager, port, detector, msgs, holders>>
    BY <1>2, Zenon DEF CallStep, IsAvailable, IsAvailableReturn, Find, UseHolder, Drop,
       LockForResize, Resize, Leave, pluginVars, portVars, holderVars
  <2>2. \E l \in CallerPc \ {"install"} : pc' = [pc EXCEPT ![t] = l]
    BY <1>2 DEF CallStep, IsAvailable, IsAvailableReturn, Find, UseHolder, Drop,
       LockForResize, Resize, Leave, CallerPc
  <2>3. \A d \in Device : usb[d] = "absent" => usb'[d] = "absent"
    BY <1>2 DEF CallStep, IsAvailable, IsAvailableReturn, Find, UseHolder, Drop,
       LockForResize, Resize, Leave, UvcStart, UvcStop, DropRef
  <2> QED
    BY <1>2, <1>a, <2>1, <2>2, <2>3, QuietFrame
<1>3. CASE NativeInit /\ IsolateFrame
  BY <1>3, <1>a DEF NativeInit, Quiet, Phases, Closing
<1>4. CASE Install /\ IsolateFrame
  BY <1>4 DEF Install, IsolateFrame, Quiet, Phases, Closing
<1>5. CASE NativeRelease /\ IsolateFrame
  BY <1>5 DEF NativeRelease, IsolateFrame, Quiet, Phases, Closing
<1>6. CASE TerminateAll /\ IsolateFrame
  BY <1>6, <1>a DEF TerminateAll, ClearHolders, UvcStop, Quiet, Phases, Closing
<1>7. CASE ManagerRelease /\ IsolateFrame
  BY <1>7, <1>a DEF ManagerRelease, Quiet, Phases, Closing
<1>8. CASE DestroyMembers /\ IsolateFrame
  BY <1>8, <1>a DEF DestroyMembers, ClearHolders, UvcStop, Quiet, Phases, Closing
<1>9. ASSUME NEW d \in Device, Attach(d) \/ Detach(d), IsolateFrame PROVE Quiet'
  <2>1. UNCHANGED <<pluginJava, m_manager, port, detector, msgs, controllers, holders>>
    BY <1>9, <1>a DEF Attach, Detach
  <2>2. port = "live" \/ ~pluginJava
    BY <1>9 DEF Attach, Detach, Quiet
  <2>3. m_manager = "valid" /\ pc[Platform] # "install" /\ pc'[Platform] = pc[Platform]
    BY <1>9 DEF Attach, Detach, Quiet, UsbGoto
  <2> QED
    BY <2>1, <2>2, <2>3 DEF Quiet
<1>10. CASE UsbStep /\ IsolateFrame
  <2>1. /\ UNCHANGED <<pluginJava, m_manager, port, detector, controllers>> /\ pc[Usb] # "idle"
        /\ \E l \in UsbPc : pc' = [pc EXCEPT ![Usb] = l]
    BY <1>10, <1>a DEF UsbStep, AddLock, AddHolder, Announce, Remove, StopRemoved, Farewell,
       Forget, Gone, UsbGoto, UsbPc
  <2>2. m_manager = "valid" /\ pc[Platform] # "install" /\ ~(pluginJava /\ port # "live")
    BY <2>1 DEF Phases, Quiet
  <2>3. port # "live" => msgs' = msgs
    BY <1>10 DEF UsbStep, AddLock, AddHolder, Announce, Remove, StopRemoved, Farewell,
       Forget, Gone, Post
  <2> QED
    BY <2>1, <2>2, <2>3 DEF Quiet
<1>11. CASE (SetPort \/ Initialize \/ DetectorRemoved) /\ IsolateFrame
  BY <1>11, <1>a DEF SetPort, Initialize, DetectorRemoved, Quiet, callVars, Phases, Closing
<1>12. CASE HandleEvent
  <2>1. port = "live"
    BY <1>12 DEF HandleEvent, HandleAttached, HandleDetached, Quiet
  <2>2. UNCHANGED <<pluginJava, m_manager, port, detector, usb, holders>>
    BY <1>12 DEF HandleEvent, HandleAttached, HandleDetached, EnterCall
  <2>3. pc'[Platform] = pc[Platform] /\ pc'[Usb] = pc[Usb]
    BY <1>12, MainAssumption DEF HandleEvent, HandleAttached, HandleDetached, EnterCall,
       callVars
  <2> QED
    BY <2>1, <2>2, <2>3 DEF Quiet
<1>13. CASE UNCHANGED pluginSpecVars
  BY <1>13 DEF pluginSpecVars, vars, callVars, Quiet
<1> QED
  BY <1>1, <1>2, <1>3, <1>4, <1>5, <1>6, <1>7, <1>8, <1>9, <1>10, <1>11, <1>12, <1>13
     DEF PluginNext, NativeStep, NativeNext, PlatformStep

PluginInv == PluginTypeOK /\ Guarded /\ Phases /\ Ownership /\ Quiet

\* The lemmas together.
LEMMA PluginInductive == PluginSpec => []PluginInv
<1>1. PluginInit => PluginInv
  BY TypeInit, ManagerInit, OwnershipInit, QuietInit DEF PluginInit, PluginInv, PluginTypeOK
<1>2. PluginInv /\ [PluginNext]_pluginSpecVars => PluginInv'
  BY PluginTypeStep, PluginManagerStep, PluginOwnershipStep, QuietStep DEF PluginInv
<1> QED
  BY <1>1, <1>2, PTL DEF PluginSpec

\* The event of a callback joins the events on their way, in this order.
LEMMA Concatenations ==
    ASSUME NEW s \in Seq(Event), NEW e \in Event
    PROVE  /\ s \o <<>> = s /\ <<>> \o <<>> = <<>>
           /\ s \o <<e>> = Append(s, e) /\ Append(s, e) \o <<>> = s \o <<e>>
           /\ s \o <<e>> \in Seq(Event)
           /\ \A f \in {<<>>, <<e>>} : s # <<>> =>
                 s \o f # <<>> /\ Head(s \o f) = Head(s) /\ Tail(s \o f) = Tail(s) \o f
OBVIOUS

\* There is one event at most between the registry and the port.
LEMMA InFlightType ==
    ASSUME TypeOK
    PROVE  /\ \A b \in BOOLEAN : [id |-> dev[Usb], attached |-> b] \in Event
           /\ \E e \in Event : InFlight \in {<<>>, <<e>>}
           /\ msgs \in Seq(Event)
<1>1. dev[Usb] \in Device
  BY Threads DEF TypeOK
<1>2. \A b \in BOOLEAN : [id |-> dev[Usb], attached |-> b] \in Event
  BY <1>1, Zenon DEF Event
<1>3. \E e \in Event : InFlight \in {<<>>, <<e>>}
  BY <1>2 DEF InFlight
<1> QED
  BY <1>2, <1>3 DEF TypeOK

\* What the directory sees of a step.
seen == <<pluginJava, port, holders, controllers>>

\* Every step is a step of the directory or none, as Dart sees it.
LEMMA DirectoryStep ==
    ASSUME PluginInv, [PluginNext]_pluginSpecVars
    PROVE  [Directory!Next]_(Directory!vars)
<1> USE Threads, RegistryAssumption
<1> USE DEF lockVars, pluginVars, holderVars, usbVars, portVars
<1>t. TypeOK /\ Guarded /\ Phases /\ Quiet /\ controllers \subseteq Device
  BY DEF PluginInv, PluginTypeOK
<1>e. /\ \A b \in BOOLEAN : [id |-> dev[Usb], attached |-> b] \in Event
      /\ \E e \in Event : InFlight \in {<<>>, <<e>>}
      /\ msgs \in Seq(Event)
  BY <1>t, InFlightType
<1>s. \A s \in Seq(Event), e \in Event :
         /\ s \o <<>> = s /\ <<>> \o <<>> = <<>>
         /\ s \o <<e>> = Append(s, e) /\ Append(s, e) \o <<>> = s \o <<e>>
         /\ \A f \in {<<>>, <<e>>} : s # <<>> =>
               s \o f # <<>> /\ Head(s \o f) = Head(s) /\ Tail(s \o f) = Tail(s) \o f
  BY Concatenations
<1>a. ASSUME UNCHANGED seen, ~Listening \/ UNCHANGED <<msgs, InFlight>>
      PROVE  UNCHANGED Directory!vars
  BY <1>a DEF seen, Directory!vars, Listening, Registered
<1>b. ASSUME ~Listening, ~Listening', controllers' = controllers
      PROVE  UNCHANGED Directory!vars
  BY <1>b DEF Directory!vars, Listening
<1>c. ASSUME IsolateFrame, pluginJava' = pluginJava PROVE controllers' = controllers
  BY <1>c DEF IsolateFrame
<1>d. ASSUME pc'[Usb] = pc[Usb], dev'[Usb] = dev[Usb] PROVE InFlight' = InFlight
  BY <1>d DEF InFlight
<1>1. ASSUME NEW t \in Caller, NEW d \in Device, NEW o \in Op, Enter(t, o, d), IsolateFrame
      PROVE  UNCHANGED Directory!vars
  <2>1. UNCHANGED seen /\ UNCHANGED msgs /\ pc'[Usb] = pc[Usb] /\ dev'[Usb] = dev[Usb]
    BY <1>1, <1>t, <1>c DEF Enter, EnterCall, seen, TypeOK
  <2> QED
    BY <1>a, <1>d, <2>1
<1>2. ASSUME NEW t \in Caller, CallStep(t), IsolateFrame PROVE UNCHANGED Directory!vars
  <2>1. UNCHANGED <<pluginJava, port, msgs, holders, dev>>
    BY <1>2, Zenon DEF CallStep, IsAvailable, IsAvailableReturn, Find, UseHolder, Drop,
       LockForResize, Resize, Leave, pluginVars, portVars, holderVars
  <2>2. \E l \in CallerPc : pc' = [pc EXCEPT ![t] = l]
    BY <1>2 DEF CallStep, IsAvailable, IsAvailableReturn, Find, UseHolder, Drop,
       LockForResize, Resize, Leave, CallerPc
  <2>3. pc'[Usb] = pc[Usb]
    BY <1>t, <2>2 DEF TypeOK
  <2> QED
    BY <1>2, <1>a, <1>c, <1>d, <2>1, <2>3 DEF seen
<1>3. CASE (NativeInit \/ Install) /\ IsolateFrame
  <2>1. pc'[Usb] = pc[Usb] /\ UNCHANGED <<port, msgs, holders, dev>>
    BY <1>3, <1>t DEF NativeInit, Install, TypeOK
  <2>2. CASE NativeInit
    BY <1>3, <1>a, <1>c, <1>d, <2>1, <2>2 DEF seen, NativeInit
  <2>3. CASE Install
    <3>1. ~Listening /\ ~Listening' /\ controllers' = controllers
      BY <1>3, <1>t, <2>3 DEF Install, Phases, Closing, Quiet, IsolateFrame, Listening
    <3> QED
      BY <1>b, <3>1
  <2> QED
    BY <1>3, <2>2, <2>3
<1>4. CASE NativeRelease /\ IsolateFrame
  <2>1. ~Listening' /\ controllers' = {}
    BY <1>4 DEF NativeRelease, IsolateFrame, Listening
  <2>2. CASE Listening
    BY <2>1, <2>2 DEF Directory!Next, Directory!Close, Directory!Reset
  <2>3. CASE ~Listening
    <3>1. controllers = {}
      BY <1>4, <1>t, <2>3 DEF NativeRelease, Listening, Quiet
    <3> QED
      BY <1>b, <2>1, <2>3, <3>1
  <2> QED
    BY <2>2, <2>3
<1>5. CASE (TerminateAll \/ ManagerRelease \/ DestroyMembers) /\ IsolateFrame
  <2>1. ~pluginJava /\ pluginJava' = pluginJava
    BY <1>5, <1>t DEF TerminateAll, ManagerRelease, DestroyMembers, Phases, Closing
  <2> QED
    BY <1>5, <1>b, <1>c, <2>1 DEF Listening
<1>6. ASSUME NEW d \in Device, Attach(d) \/ Detach(d), IsolateFrame
      PROVE  UNCHANGED Directory!vars
  <2>1. UNCHANGED <<pluginJava, port, msgs, holders>>
    BY <1>6 DEF Attach, Detach
  <2>2. pc[Usb] = "idle" /\ pc'[Usb] \in {"add", "remove"}
    BY <1>6, <1>t DEF Attach, Detach, UsbGoto, TypeOK
  <2>3. InFlight' = InFlight
    BY <2>2 DEF InFlight
  <2> QED
    BY <1>6, <1>a, <1>c, <2>1, <2>3 DEF seen
<1>7. CASE (AddLock \/ StopRemoved \/ Forget \/ Gone) /\ IsolateFrame
  <2>1. UNCHANGED <<pluginJava, port, msgs, holders, dev>>
    BY <1>7 DEF AddLock, StopRemoved, Forget, Gone
  <2>2. \/ pc[Usb] \in {"add", "forget", "gone"} /\ pc'[Usb] \in {"create", "gone", "idle"}
        \/ pc[Usb] = "stop" /\ pc'[Usb] = "farewell"
    BY <1>7, <1>t DEF AddLock, StopRemoved, Forget, Gone, UsbGoto, TypeOK
  <2>3. InFlight' = InFlight
    BY <2>1, <2>2 DEF InFlight
  <2> QED
    BY <1>7, <1>a, <1>c, <2>1, <2>3 DEF seen
<1>8. CASE (Announce \/ Farewell) /\ IsolateFrame
  <2>1. UNCHANGED <<pluginJava, port, holders, dev>>
    BY <1>8 DEF Announce, Farewell
  <2>2. PICK e \in Event : InFlight = <<e>> /\ InFlight' = <<>>
                            /\ (port = "live" => msgs' = Append(msgs, e))
    BY <1>8, <1>t, <1>e DEF Announce, Farewell, Post, UsbGoto, InFlight, TypeOK
  <2>3. Listening => msgs' \o InFlight' = msgs \o InFlight
    <3>1. Append(msgs, e) \o <<>> = msgs \o <<e>>
      BY <1>e, <1>s
    <3> QED
      BY <2>2, <3>1 DEF Listening
  <2> QED
    BY <1>8, <1>c, <2>1, <2>3 DEF Directory!vars, Listening, Registered
<1>9. CASE AddHolder /\ IsolateFrame
  <2> DEFINE e == [id |-> dev[Usb], attached |-> TRUE]
  <2>1. /\ UNCHANGED <<pluginJava, port, msgs, dev, controllers>>
        /\ Registered' = Registered \cup {dev[Usb]} /\ dev[Usb] \in Device
        /\ InFlight = <<>> /\ InFlight' = <<e>>
    <3>1. UNCHANGED <<pluginJava, port, msgs, dev, controllers>>
      BY <1>9, <1>c DEF AddHolder
    <3>2. pc[Usb] = "create" /\ pc'[Usb] = "announce" /\ dev[Usb] \in Device
      BY <1>9, <1>t DEF AddHolder, UsbGoto, TypeOK
    <3>3. Registered' = Registered \cup {dev[Usb]}
      BY <1>9, <1>t, <3>2 DEF AddHolder, Registered, TypeOK
    <3> QED
      BY <3>1, <3>2, <3>3 DEF InFlight
  <2>2. CASE Listening
    <3>1. e \in Event
      BY <1>e
    <3>2. msgs' \o InFlight' = Append(msgs \o InFlight, e)
      BY <1>e, <1>s, <2>1, <3>1
    <3> HIDE DEF e
    <3>3. Directory!Appear(dev[Usb])
      BY <2>1, <2>2, <3>2 DEF Directory!Appear, Listening, e
    <3> QED
      BY <2>1, <3>3 DEF Directory!Next
  <2>3. CASE ~Listening
    BY <1>b, <2>1, <2>3 DEF Listening
  <2> QED
    BY <2>2, <2>3
<1>10. CASE Remove /\ IsolateFrame
  <2> DEFINE e == [id |-> dev[Usb], attached |-> FALSE]
  <2>1. /\ UNCHANGED <<pluginJava, port, msgs, dev, controllers>>
        /\ Registered' = Registered \ {dev[Usb]} /\ dev[Usb] \in Device
        /\ InFlight = <<>>
        /\ InFlight' = IF dev[Usb] \in Registered THEN <<e>> ELSE <<>>
    <3>1. UNCHANGED <<pluginJava, port, msgs, dev, controllers>>
      BY <1>10, <1>c DEF Remove
    <3>2. /\ pc[Usb] = "remove" /\ dev[Usb] \in Device
          /\ pc'[Usb] = IF dev[Usb] \in Registered THEN "stop" ELSE "gone"
      BY <1>10, <1>t DEF Remove, UsbGoto, TypeOK, Registered
    <3>3. Registered' = Registered \ {dev[Usb]}
      BY <1>10, <1>t, <3>2 DEF Remove, Registered, TypeOK
    <3> QED
      BY <3>1, <3>2, <3>3 DEF InFlight
  <2>2. CASE Listening /\ dev[Usb] \in Registered
    <3>1. e \in Event
      BY <1>e
    <3>2. msgs' \o InFlight' = Append(msgs \o InFlight, e)
      BY <1>e, <1>s, <2>1, <2>2, <3>1
    <3> HIDE DEF e
    <3>3. Directory!Disappear(dev[Usb])
      BY <2>1, <2>2, <3>2 DEF Directory!Disappear, Listening, e
    <3> QED
      BY <2>1, <3>3 DEF Directory!Next
  <2>3. CASE ~Listening
    BY <1>b, <2>1, <2>3 DEF Listening
  <2>4. CASE Listening /\ dev[Usb] \notin Registered
    <3>1. Registered' = Registered /\ InFlight' = InFlight
      BY <2>1, <2>4
    <3> QED
      BY <2>1, <3>1 DEF Directory!vars, Listening
  <2> QED
    BY <2>2, <2>3, <2>4
<1>11. CASE SetPort /\ IsolateFrame
  <2>1. /\ ~Listening /\ Listening' /\ Registered' = {} /\ msgs' = <<>> /\ controllers' = {}
        /\ InFlight' = <<>>
    BY <1>11, <1>t, <1>c DEF SetPort, Quiet, Listening, Registered, InFlight, callVars
  <2>2. msgs' \o InFlight' = <<>>
    BY <1>e, <1>s, <2>1
  <2> QED
    BY <2>1, <2>2 DEF Directory!Next, Directory!Open, Directory!Reset
<1>12. CASE (Initialize \/ DetectorRemoved) /\ IsolateFrame
  BY <1>12, <1>a, <1>c, <1>d DEF Initialize, DetectorRemoved, seen, callVars
<1>13. CASE HandleEvent
  <2>1. /\ msgs # <<>> /\ msgs' = Tail(msgs) /\ UNCHANGED <<pluginJava, port, holders>>
        /\ controllers' = IF Head(msgs).attached THEN controllers \cup {Head(msgs).id}
                          ELSE controllers \ {Head(msgs).id}
    BY <1>13 DEF HandleEvent, HandleAttached, HandleDetached, EnterCall
  <2>2. Listening /\ Listening'
    BY <1>t, <2>1 DEF Quiet, Listening
  <2>3. pc'[Usb] = pc[Usb] /\ dev'[Usb] = dev[Usb]
    BY <1>13, <1>t, MainAssumption
       DEF HandleEvent, HandleAttached, HandleDetached, EnterCall, callVars, TypeOK
  <2>4. /\ msgs \o InFlight # <<>> /\ Head(msgs \o InFlight) = Head(msgs)
        /\ msgs' \o InFlight' = Tail(msgs \o InFlight)
    <3>1. PICK e \in Event : InFlight = <<>> \/ InFlight = <<e>>
      BY <1>e
    <3>2. InFlight' = InFlight
      BY <1>d, <2>3
    <3>3. /\ msgs # <<>> /\ msgs \o InFlight # <<>> /\ Head(msgs \o InFlight) = Head(msgs)
          /\ Tail(msgs \o InFlight) = Tail(msgs) \o InFlight
      BY <1>s, <2>1, <3>1
    <3> QED
      BY <2>1, <3>2, <3>3
  <2>5. Directory!Deliver
    BY <2>1, <2>2, <2>4 DEF Directory!Deliver, Registered
  <2> QED
    BY <2>5 DEF Directory!Next
<1>14. CASE UNCHANGED pluginSpecVars
  BY <1>14, <1>a, <1>d DEF pluginSpecVars, vars, callVars, seen
<1> QED
  BY <1>1, <1>2, <1>3, <1>4, <1>5, <1>6, <1>7, <1>8, <1>9, <1>10, <1>11, <1>12, <1>13, <1>14
     DEF PluginNext, NativeStep, NativeNext, PlatformStep, UsbStep

\* Nobody listens, and nothing is known.
LEMMA DirectoryStart == PluginInit => Directory!Init
BY DEF PluginInit, Init, Directory!Init, Listening

\* The safety part of ImplementsDirectory: whatever the threads do is, to Dart, a step of
\* the directory or nothing.
THEOREM PluginRefinesDirectory ==
    PluginSpec => Directory!Init /\ [][Directory!Next]_(Directory!vars)
<1>1. PluginInv /\ [PluginNext]_pluginSpecVars => [Directory!Next]_(Directory!vars)
  BY DirectoryStep
<1> QED
  BY <1>1, DirectoryStart, PluginInductive, PTL DEF PluginSpec

\* The promise again, with the proofs about it.
Promise == INSTANCE DeviceDirectory_proofs WITH
    open    <- Listening,
    present <- IF Listening THEN Registered ELSE {},
    pending <- IF Listening THEN msgs \o InFlight ELSE <<>>,
    known   <- controllers

\* The directory's variables are in type.
LEMMA PromiseType == PluginInv => Promise!TypeOK
<1> SUFFICES ASSUME PluginInv PROVE Promise!TypeOK
  OBVIOUS
<1>1. PluginTypeOK /\ TypeOK
  BY DEF PluginInv, PluginTypeOK
<1>2. \E e \in Event : InFlight \in {<<>>, <<e>>}
  BY <1>1, InFlightType
<1>3. msgs \o InFlight \in Seq(Event)
  BY <1>1, <1>2, Concatenations DEF TypeOK
<1>4. Listening \in BOOLEAN /\ Registered \subseteq Device
  BY DEF Listening, Registered
<1> QED
  BY <1>1, <1>3, <1>4, EmptyIsLog DEF Promise!TypeOK, Promise!Event, Event, PluginTypeOK

\* What keeps the directory agreed keeps the plugin and Dart agreed.
LEMMA AgreementKept ==
    PluginInv /\ DartAgrees /\ [PluginNext]_pluginSpecVars => DartAgrees'
<1>1. PluginInv /\ [PluginNext]_pluginSpecVars => [Promise!Next]_(Promise!vars)
  BY DirectoryStep
     DEF Directory!Next, Directory!Open, Directory!Close, Directory!Reset, Directory!Appear,
         Directory!Disappear, Directory!Deliver, Directory!vars,
         Promise!Next, Promise!Open, Promise!Close, Promise!Reset, Promise!Appear,
         Promise!Disappear, Promise!Deliver, Promise!vars
<1>2. DartAgrees <=> Promise!Agreement
  BY DEF DartAgrees, Directory!Agreement, Directory!Last, Promise!Agreement, Promise!Last
<1>3. DartAgrees' <=> Promise!Agreement'
  BY DEF DartAgrees, Directory!Agreement, Directory!Last, Promise!Agreement, Promise!Last
<1> QED
  BY <1>1, <1>2, <1>3, PromiseType, Promise!AgreementStep

\* Dart's list of controllers is behind the registry by exactly the events under way,
\* though they are posted outside m_lock: no device is forgotten, none stays when it is gone.
THEOREM DartFollowsRegistry == PluginSpec => []DartAgrees
<1>1. PluginInit => DartAgrees
  BY DEF PluginInit, Init, DartAgrees, Directory!Agreement, Listening
<1> QED
  BY <1>1, PluginInductive, AgreementKept, PTL DEF PluginSpec

\* The properties of HolderRegistry hold with Dart's handlers in it, which call stop() in
\* the middle of a message.
THEOREM PluginKeepsRegistrySafe == PluginSpec => [](CallsHaveManager /\ StreamOwned)
<1>1. PluginInv => CallsHaveManager /\ StreamOwned
  BY DEF PluginInv, Ownership, PluginTypeOK, Guarded, Phases, CallsHaveManager, InCall
<1> QED
  BY <1>1, PluginInductive, PTL
=============================================================================
