--------------------------- MODULE HolderRegistry ---------------------------
(***************************************************************************)
(* The native half of the plugin: the FFI exports and JNI natives of       *)
(* flutter_plugin_main.cpp, the registry of flutter_plugin_java.cpp, and   *)
(* the lifetime of the FlutterUVCHolder objects of flutter_uvc_holder.cpp. *)
(*                                                                         *)
(* Three kinds of thread meet here.                                        *)
(*   - Callers (Dart isolates and the platform thread) run an export; each *)
(*     export holds plugin_lock from its first to its last statement and   *)
(*     looks the holder up with try_lock (most calls) or lock (resize).    *)
(*   - The USB manager's thread runs on_device_attach / on_device_detach   *)
(*     one at a time, under m_lock only, then posts the event to Dart.     *)
(*   - The platform thread runs nativeInit and nativeRelease; both do most *)
(*     of their work without plugin_lock.                                  *)
(*                                                                         *)
(* A holder is a shared_ptr: it is destroyed by whoever drops the last     *)
(* reference, and its destructor calls uvc_stop with the DEVICE ID, which  *)
(* by then may name a newly attached device.  A Holder value is the        *)
(* address of the object; a dead one may be used again.                    *)
(***************************************************************************)
EXTENDS Naturals, Sequences, FiniteSets

CONSTANTS Device,     \* USB device ids
          Caller,     \* threads that call the exports, Platform among them
          Platform,   \* the thread that runs nativeInit / nativeRelease
          Usb,        \* the thread on which the USB manager runs callbacks
          Holder,     \* addresses of FlutterUVCHolder objects
          NoHolder,   \* the null shared_ptr
          Nobody,     \* a mutex that is not held
          MaxEvents   \* bound: events in flight to Dart

ASSUME RegistryAssumption ==
    /\ Device # {}
    /\ Platform \in Caller
    /\ Usb \notin Caller
    /\ NoHolder \notin Holder
    /\ Nobody \notin Caller \cup {Usb}
    /\ MaxEvents \in Nat

Thread == Caller \cup {Usb}

VARIABLES pluginJava,   \* is the global unique_ptr non-null?
          m_manager,    \* the plugin's usb_manager_t: "none", "valid", "released"
          plugin_lock,  \* owner of the global mutex
          m_lock,       \* owner of FlutterPluginJava::m_lock
          holders,      \* FlutterPluginJava::holders
          alive,        \* holder objects whose destructor has not run
          pc, op, dev,  \* where each thread is, in which call, on which device
          ref,          \* the shared_ptr local each thread holds
          reply,        \* what the call in progress will return
          usb,          \* the USB layer's view of each device (external)
          streamBy,     \* history: the holder through which it was started
          detector,     \* does a DeviceDetector announce devices?
          port,         \* dart_api_message_port: "unset", "live", "stale"
          msgs          \* events posted to the port, not yet received

callVars   == <<pc, op, dev, ref, reply>>
lockVars   == <<plugin_lock, m_lock>>
pluginVars == <<pluginJava, m_manager>>
holderVars == <<holders, alive>>
usbVars    == <<usb, streamBy>>
portVars   == <<detector, port, msgs>>
vars == <<callVars, lockVars, pluginVars, holderVars, usbVars, portVars>>

Op == {"start", "stop", "state", "window", "resize"}
CallerPc == {"idle", "avail", "availdrop", "find", "mlock", "resize", "use",
             "drop", "leave", "install", "terminate", "mrelease", "members"}
UsbPc == {"idle", "add", "create", "announce",
          "remove", "stop", "farewell", "forget", "gone"}
Reply == {"none", "ok", "error", "UNINITIALIZED", "CONNECTED", "STREAMING"}
Event == [id : Device, attached : BOOLEAN]

TypeOK ==
    /\ pluginJava \in BOOLEAN
    /\ m_manager \in {"none", "valid", "released"}
    /\ plugin_lock \in Caller \cup {Nobody}
    /\ m_lock \in Thread \cup {Nobody}
    /\ holders \in [Device -> Holder \cup {NoHolder}]
    /\ alive \subseteq Holder
    /\ pc \in [Thread -> CallerPc \cup UsbPc]
    /\ \A t \in Caller : pc[t] \in CallerPc
    /\ pc[Usb] \in UsbPc
    /\ op \in [Caller -> Op]
    /\ dev \in [Thread -> Device]
    /\ ref \in [Thread -> Holder \cup {NoHolder}]
    /\ reply \in [Caller -> Reply]
    /\ usb \in [Device -> {"absent", "connected", "streaming"}]
    /\ streamBy \in [Device -> Holder \cup {NoHolder}]
    /\ detector \in BOOLEAN
    /\ port \in {"unset", "live", "stale"}
    /\ msgs \in Seq(Event)

Init ==
    /\ pluginJava = FALSE
    /\ m_manager = "none"
    /\ plugin_lock = Nobody
    /\ m_lock = Nobody
    /\ holders = [d \in Device |-> NoHolder]
    /\ alive = {}
    /\ pc = [t \in Thread |-> "idle"]
    /\ op = [t \in Caller |-> "stop"]
    /\ dev \in [Thread -> {CHOOSE d \in Device : TRUE}]
    /\ ref = [t \in Thread |-> NoHolder]
    /\ reply = [t \in Caller |-> "none"]
    /\ usb = [d \in Device |-> "absent"]
    /\ streamBy = [d \in Device |-> NoHolder]
    /\ detector = FALSE
    /\ port = "unset"
    /\ msgs = <<>>

-----------------------------------------------------------------------------
(* The USB layer, from how the holder calls it (external).                 *)

\* uvc_start: works on whatever device has the id now, fails if there is none.
UvcStart(d, h) ==
    IF usb[d] = "absent"
    THEN UNCHANGED usbVars
    ELSE /\ usb' = [usb EXCEPT ![d] = "streaming"]
         /\ streamBy' = [streamBy EXCEPT ![d] = h]

\* uvc_stop on every device of D: nothing happens to one that is not streaming.
UvcStop(D) ==
    /\ usb' = [d \in Device |->
                  IF d \in D /\ usb[d] = "streaming" THEN "connected" ELSE usb[d]]
    /\ streamBy' = [d \in Device |-> IF d \in D THEN NoHolder ELSE streamBy[d]]

(* shared_ptr: is h still reachable once t has dropped its local?          *)
ReachableWithout(t, h) ==
    \/ \E d \in Device : holders[d] = h
    \/ \E u \in Thread \ {t} : ref[u] = h

\* Mutation of DropRef: a destructor without uvc_stop.
DropRefWithoutStop(t) ==
    /\ ref' = [ref EXCEPT ![t] = NoHolder]
    /\ alive' = IF ReachableWithout(t, ref[t]) THEN alive ELSE alive \ {ref[t]}
    /\ UNCHANGED usbVars

\* Thread t's local goes out of scope.  Whoever drops the last reference runs
\* ~FlutterUVCHolder, whose last statement is uvc_stop(m_manager, m_device_id).
\* (The recording part of the destructor is in Recording.)
DropRef(t) ==
    /\ ref' = [ref EXCEPT ![t] = NoHolder]
    /\ IF ref[t] = NoHolder \/ ReachableWithout(t, ref[t])
       THEN UNCHANGED <<alive, usbVars>>
       ELSE /\ alive' = alive \ {ref[t]}
            /\ UvcStop({dev[t]})

\* get_holder_locked(d, false) under try_lock: a contended m_lock looks exactly
\* like a device without a holder.
TryFind(d) == IF m_lock = Nobody THEN holders[d] ELSE NoHolder

-----------------------------------------------------------------------------
(* The exports.  Between Enter and Leave the caller owns plugin_lock.      *)

FirstPc(o) == CASE o = "window" -> "avail"
                [] o = "resize" -> "mlock"
                [] OTHER -> "find"

\* What the export answers when there is no plugin object.
NoPlugin(o) == IF o = "state" THEN "UNINITIALIZED" ELSE "error"

\* The frame of Enter leaves portVars to the caller of this operator.
EnterCall(t, o, d) ==
    /\ pc[t] = "idle"
    /\ plugin_lock = Nobody
    /\ plugin_lock' = t
    /\ op' = [op EXCEPT ![t] = o]
    /\ dev' = [dev EXCEPT ![t] = d]
    /\ pc' = [pc EXCEPT ![t] = IF pluginJava THEN FirstPc(o) ELSE "leave"]
    /\ reply' = [reply EXCEPT ![t] = IF pluginJava THEN "none" ELSE NoPlugin(o)]
    /\ UNCHANGED <<ref, m_lock, pluginVars, holderVars, usbVars>>

Enter(t, o, d) == EnterCall(t, o, d) /\ UNCHANGED portVars

\* nativeSetSurface and nativeSetRecordingSurfaceObj first ask is_available,
\* whose own shared_ptr dies on return, and look the holder up again later.
IsAvailable(t) ==
    /\ pc[t] = "avail"
    /\ ref' = [ref EXCEPT ![t] = TryFind(dev[t])]
    /\ pc' = [pc EXCEPT ![t] = "availdrop"]
    /\ UNCHANGED <<op, dev, reply, lockVars, pluginVars, holderVars, usbVars, portVars>>

IsAvailableReturn(t) ==
    /\ pc[t] = "availdrop"
    /\ DropRef(t)
    /\ IF ref[t] = NoHolder
       THEN /\ pc' = [pc EXCEPT ![t] = "leave"]
            /\ reply' = [reply EXCEPT ![t] = "error"]
       ELSE /\ pc' = [pc EXCEPT ![t] = "find"]
            /\ UNCHANGED reply
    /\ UNCHANGED <<op, dev, holders, lockVars, pluginVars, portVars>>

\* Mutation of Find: plugin_lock guards the pointer and the look-up only.
FindThenUnlock(t) ==
    /\ pc[t] = "find"
    /\ ref' = [ref EXCEPT ![t] = TryFind(dev[t])]
    /\ plugin_lock' = Nobody
    /\ pc' = [pc EXCEPT ![t] = "use"]
    /\ UNCHANGED <<op, dev, reply, m_lock, pluginVars, holderVars, usbVars, portVars>>

Find(t) ==
    /\ pc[t] = "find"
    /\ ref' = [ref EXCEPT ![t] = TryFind(dev[t])]
    /\ pc' = [pc EXCEPT ![t] = "use"]
    /\ UNCHANGED <<op, dev, reply, lockVars, pluginVars, holderVars, usbVars, portVars>>

\* Mutation of DeviceState: the answer of the USB layer as it is.
LayerState(h, d) == IF h # NoHolder THEN usb[d] ELSE "CONNECTED"

\* get_device_state: no holder and a holder that is not streaming answer alike.
DeviceState(h, d) ==
    IF h # NoHolder /\ usb[d] = "streaming" THEN "STREAMING" ELSE "CONNECTED"

\* The call through the holder, if there is one.  stop answers 0 either way.
UseHolder(t) ==
    LET h == ref[t]  d == dev[t]
        Done(r) == reply' = [reply EXCEPT ![t] = r] IN
    /\ pc[t] = "use"
    /\ pc' = [pc EXCEPT ![t] = "drop"]
    /\ \/ /\ op[t] = "start"
          /\ IF h # NoHolder THEN UvcStart(d, h) ELSE UNCHANGED usbVars
          /\ Done(IF h # NoHolder /\ usb[d] # "absent" THEN "ok" ELSE "error")
       \/ /\ op[t] = "stop"
          /\ IF h # NoHolder THEN UvcStop({d}) ELSE UNCHANGED usbVars
          /\ Done("ok")
       \/ /\ op[t] = "state"
          /\ Done(DeviceState(h, d))
          /\ UNCHANGED usbVars
       \/ /\ op[t] = "window"
          /\ Done(IF h # NoHolder THEN "ok" ELSE "error")
          /\ UNCHANGED usbVars
    /\ UNCHANGED <<op, dev, ref, lockVars, pluginVars, holderVars, portVars>>

\* The method's shared_ptr local goes out of scope.
Drop(t) ==
    /\ pc[t] = "drop"
    /\ DropRef(t)
    /\ pc' = [pc EXCEPT ![t] = "leave"]
    /\ UNCHANGED <<op, dev, reply, holders, lockVars, pluginVars, portVars>>

\* set_video_size and get_current_size block on m_lock instead.
LockForResize(t) ==
    /\ pc[t] = "mlock"
    /\ m_lock = Nobody
    /\ m_lock' = t
    /\ pc' = [pc EXCEPT ![t] = "resize"]
    /\ UNCHANGED <<op, dev, ref, reply, plugin_lock,
                   pluginVars, holderVars, usbVars, portVars>>

Resize(t) ==
    /\ pc[t] = "resize"
    /\ reply' = [reply EXCEPT ![t] =
                    IF holders[dev[t]] # NoHolder THEN "ok" ELSE "error"]
    /\ m_lock' = Nobody
    /\ pc' = [pc EXCEPT ![t] = "leave"]
    /\ UNCHANGED <<op, dev, ref, plugin_lock,
                   pluginVars, holderVars, usbVars, portVars>>

Leave(t) ==
    /\ pc[t] = "leave"
    /\ plugin_lock' = Nobody
    /\ pc' = [pc EXCEPT ![t] = "idle"]
    /\ UNCHANGED <<op, dev, ref, reply, m_lock,
                   pluginVars, holderVars, usbVars, portVars>>

CallStep(t) ==
    \/ IsAvailable(t) \/ IsAvailableReturn(t)
    \/ Find(t) \/ UseHolder(t) \/ Drop(t)
    \/ LockForResize(t) \/ Resize(t)
    \/ Leave(t)

-----------------------------------------------------------------------------
(* nativeInit and nativeRelease.                                           *)

\* The constructor registers the callbacks before the plugin is published.
NativeInit ==
    /\ pc[Platform] = "idle"
    /\ m_manager = "none"
    /\ ~detector
    /\ m_manager' = "valid"
    /\ pc' = [pc EXCEPT ![Platform] = "install"]
    /\ UNCHANGED <<op, dev, ref, reply, pluginJava,
                   lockVars, holderVars, usbVars, portVars>>

Install ==
    /\ pc[Platform] = "install"
    /\ plugin_lock = Nobody
    /\ pluginJava' = TRUE
    /\ pc' = [pc EXCEPT ![Platform] = "idle"]
    /\ UNCHANGED <<op, dev, ref, reply, m_manager,
                   lockVars, holderVars, usbVars, portVars>>

\* Mutation of NativeRelease: the pointer is moved out without plugin_lock.
NativeReleaseUnlocked ==
    /\ pc[Platform] = "idle"
    /\ pluginJava
    /\ pluginJava' = FALSE
    /\ port' = IF port = "live" THEN "stale" ELSE port
    /\ msgs' = <<>>
    /\ pc' = [pc EXCEPT ![Platform] = "terminate"]
    /\ UNCHANGED <<op, dev, ref, reply, m_manager, detector,
                   lockVars, holderVars, usbVars>>

\* The engine is going: Dart stops listening, the pointer is moved out under
\* plugin_lock, and the object is destroyed after the lock is released.
NativeRelease ==
    /\ pc[Platform] = "idle"
    /\ pluginJava
    /\ plugin_lock = Nobody
    /\ pluginJava' = FALSE
    /\ port' = IF port = "live" THEN "stale" ELSE port
    /\ msgs' = <<>>
    /\ pc' = [pc EXCEPT ![Platform] = "terminate"]
    /\ UNCHANGED <<op, dev, ref, reply, m_manager, detector,
                   lockVars, holderVars, usbVars>>

Registered == {d \in Device : holders[d] # NoHolder}
RegisteredHolder == {holders[d] : d \in Registered}

\* Destroying the map: an object survives only through a thread's local.
ClearHolders ==
    /\ holders' = [d \in Device |-> NoHolder]
    /\ alive' = {h \in alive : h \in RegisteredHolder => \E t \in Thread : ref[t] = h}
    /\ UvcStop(Registered)

\* Mutation of TerminateAll: m_lock stays locked to the end of the destructor,
\* while manager_release waits for a callback that wants it.
TerminateAllLocked ==
    /\ pc[Platform] = "terminate"
    /\ m_lock = Nobody
    /\ m_lock' = Platform
    /\ ClearHolders
    /\ pc' = [pc EXCEPT ![Platform] = "mrelease"]
    /\ UNCHANGED <<op, dev, ref, reply, plugin_lock, pluginVars, portVars>>

TerminateAll ==
    /\ pc[Platform] = "terminate"
    /\ m_lock = Nobody
    /\ ClearHolders
    /\ pc' = [pc EXCEPT ![Platform] = "mrelease"]
    /\ UNCHANGED <<op, dev, ref, reply, lockVars, pluginVars, portVars>>

\* manager_release (external) returns once no callback is running; after it
\* the USB layer knows no device.
ManagerRelease ==
    /\ pc[Platform] = "mrelease"
    /\ pc[Usb] = "idle"
    /\ m_manager' = "released"
    /\ usb' = [d \in Device |-> "absent"]
    /\ streamBy' = [d \in Device |-> NoHolder]
    /\ pc' = [pc EXCEPT ![Platform] = "members"]
    /\ UNCHANGED <<op, dev, ref, reply, pluginJava, lockVars, holderVars, portVars>>

\* The destructor body has ended; the members, holders among them, follow.
DestroyMembers ==
    /\ pc[Platform] = "members"
    /\ ClearHolders
    /\ m_manager' = "none"
    /\ pc' = [pc EXCEPT ![Platform] = "idle"]
    /\ UNCHANGED <<op, dev, ref, reply, pluginJava, lockVars, portVars>>

PlatformStep ==
    \/ Install \/ TerminateAll \/ ManagerRelease \/ DestroyMembers

-----------------------------------------------------------------------------
(* The USB manager's thread.                                               *)

\* send_on_device_changed: dropped while no port is set; a port of an isolate
\* that is gone swallows the message.
Post(d, attached) ==
    msgs' = IF port = "live"
            THEN Append(msgs, [id |-> d, attached |-> attached])
            ELSE msgs

UsbGoto(l) == pc' = [pc EXCEPT ![Usb] = l]

\* A device shows up, or one that is known is announced again.
Attach(d) ==
    /\ pc[Usb] = "idle"
    /\ m_manager = "valid"
    /\ detector
    /\ Len(msgs) < MaxEvents
    /\ usb' = [usb EXCEPT ![d] = IF @ = "absent" THEN "connected" ELSE @]
    /\ dev' = [dev EXCEPT ![Usb] = d]
    /\ UsbGoto("add")
    /\ UNCHANGED <<op, ref, reply, streamBy, lockVars, pluginVars, holderVars, portVars>>

AddLock ==
    /\ pc[Usb] = "add"
    /\ m_lock = Nobody
    /\ m_lock' = Usb
    /\ UsbGoto("create")
    /\ UNCHANGED <<op, dev, ref, reply, plugin_lock,
                   pluginVars, holderVars, usbVars, portVars>>

\* The constructor queries the device while m_lock is held; then it is released.
AddHolder ==
    /\ pc[Usb] = "create"
    /\ IF holders[dev[Usb]] = NoHolder
       THEN \E h \in Holder \ alive :
               /\ alive' = alive \cup {h}
               /\ holders' = [holders EXCEPT ![dev[Usb]] = h]
       ELSE UNCHANGED holderVars
    /\ m_lock' = Nobody
    /\ UsbGoto("announce")
    /\ UNCHANGED <<op, dev, ref, reply, plugin_lock, pluginVars, usbVars, portVars>>

Announce ==
    /\ pc[Usb] = "announce"
    /\ Post(dev[Usb], TRUE)
    /\ UsbGoto("idle")
    /\ UNCHANGED <<op, dev, ref, reply, detector, port,
                   lockVars, pluginVars, holderVars, usbVars>>

\* A known device goes: from the USB layer's table before the callback, or not
\* until the callback has returned.
Detach(d) ==
    /\ pc[Usb] = "idle"
    /\ m_manager = "valid"
    /\ usb[d] # "absent"
    /\ Len(msgs) < MaxEvents
    /\ \E s \in {usb[d], "absent"} : usb' = [usb EXCEPT ![d] = s]
    /\ streamBy' = [streamBy EXCEPT ![d] = IF usb'[d] = "absent" THEN NoHolder ELSE @]
    /\ dev' = [dev EXCEPT ![Usb] = d]
    /\ UsbGoto("remove")
    /\ UNCHANGED <<op, ref, reply, lockVars, pluginVars, holderVars, portVars>>

\* find and erase under m_lock; the local keeps the holder alive.
Remove ==
    /\ pc[Usb] = "remove"
    /\ m_lock = Nobody
    /\ ref' = [ref EXCEPT ![Usb] = holders[dev[Usb]]]
    /\ holders' = [holders EXCEPT ![dev[Usb]] = NoHolder]
    /\ UsbGoto(IF holders[dev[Usb]] = NoHolder THEN "gone" ELSE "stop")
    /\ UNCHANGED <<op, dev, reply, alive, lockVars, pluginVars, usbVars, portVars>>

StopRemoved ==
    /\ pc[Usb] = "stop"
    /\ UvcStop({dev[Usb]})
    /\ UsbGoto("farewell")
    /\ UNCHANGED <<op, dev, ref, reply, lockVars, pluginVars, holderVars, portVars>>

\* Mutation of Farewell: the removal is not posted.
FarewellUnsaid ==
    /\ pc[Usb] = "farewell"
    /\ UsbGoto("forget")
    /\ UNCHANGED <<op, dev, ref, reply, lockVars, pluginVars, holderVars, usbVars, portVars>>

Farewell ==
    /\ pc[Usb] = "farewell"
    /\ Post(dev[Usb], FALSE)
    /\ UsbGoto("forget")
    /\ UNCHANGED <<op, dev, ref, reply, detector, port,
                   lockVars, pluginVars, holderVars, usbVars>>

Forget ==
    /\ pc[Usb] = "forget"
    /\ DropRef(Usb)
    /\ UsbGoto("gone")
    /\ UNCHANGED <<op, dev, reply, holders, lockVars, pluginVars, portVars>>

Gone ==
    /\ pc[Usb] = "gone"
    /\ usb' = [usb EXCEPT ![dev[Usb]] = "absent"]
    /\ streamBy' = [streamBy EXCEPT ![dev[Usb]] = NoHolder]
    /\ UsbGoto("idle")
    /\ UNCHANGED <<op, dev, ref, reply, lockVars, pluginVars, holderVars, portVars>>

UsbStep ==
    \/ AddLock \/ AddHolder \/ Announce
    \/ Remove \/ StopRemoved \/ Farewell \/ Forget \/ Gone

-----------------------------------------------------------------------------
(* Dart's side of start-up, and the receiving end of the port.             *)

\* set_dart_api_message_port, the first thing UVCManager._internal does.
SetPort ==
    /\ pluginJava
    /\ port # "live"
    /\ port' = "live"
    /\ UNCHANGED <<detector, msgs, callVars, lockVars, pluginVars, holderVars, usbVars>>

\* Mutation of Initialize: devices may be announced before the port is set.
InitializeEarly ==
    /\ pluginJava
    /\ ~detector
    /\ detector' = TRUE
    /\ UNCHANGED <<port, msgs, callVars, lockVars, pluginVars, holderVars, usbVars>>

\* invokeMethod('initialize') comes after it and creates the DeviceDetector.
Initialize ==
    /\ port = "live"
    /\ ~detector
    /\ detector' = TRUE
    /\ UNCHANGED <<port, msgs, callVars, lockVars, pluginVars, holderVars, usbVars>>

\* The detector fragment of an activity that is gone: its removal is committed
\* asynchronously, so it may outlive nativeRelease.
DetectorRemoved ==
    /\ detector
    /\ ~pluginJava
    /\ detector' = FALSE
    /\ UNCHANGED <<port, msgs, callVars, lockVars, pluginVars, holderVars, usbVars>>

Receive ==
    /\ msgs # <<>>
    /\ msgs' = Tail(msgs)
    /\ UNCHANGED <<detector, port, callVars, lockVars, pluginVars, holderVars, usbVars>>

-----------------------------------------------------------------------------
\* Everything but the receiving end of the port, which UvcPlugin refines.
NativeNext ==
    \/ \E t \in Caller, d \in Device, o \in Op : Enter(t, o, d)
    \/ \E t \in Caller : CallStep(t)
    \/ NativeInit \/ NativeRelease \/ PlatformStep
    \/ \E d \in Device : Attach(d) \/ Detach(d)
    \/ UsbStep
    \/ SetPort \/ Initialize \/ DetectorRemoved

Next == NativeNext \/ Receive

\* A started call, callback or destructor runs on.  Strong fairness, because the
\* statements among them that wait for a mutex, or for the callbacks to end, get
\* their turn when they could proceed again and again: the critical sections
\* end, and the mutexes are taken in one order, plugin_lock before m_lock.
NativeFairness ==
    /\ \A t \in Caller : SF_vars(CallStep(t))
    /\ SF_vars(PlatformStep)
    /\ SF_vars(UsbStep)

Spec == Init /\ [][Next]_vars /\ NativeFairness

-----------------------------------------------------------------------------
(* Properties.                                                             *)

\* No orphan stream: a device that is streaming was started through a holder
\* that is still its registered one, or through one that a thread still refers
\* to on behalf of that device - so some stop or destructor is yet to come.
\* (remove() stops a holder while a start() may be between its look-up and
\* uvc_start: flutter_plugin_java.cpp 190-213 against 272-293.)
StreamOwned ==
    \A d \in Device : usb[d] = "streaming" =>
        \/ streamBy[d] = holders[d]
        \/ \E t \in Thread : ref[t] = streamBy[d] /\ dev[t] = d

\* ~FlutterUVCHolder stops the device id, not the stream it started.  A step
\* that destroys a holder never stops the stream of the holder that is registered
\* for the device now, though the id may have been attached anew while a slow
\* start() kept the old holder alive.
DestructorSparesSuccessor ==
    [][\A d \in Device :
          (usb[d] = "streaming" /\ usb'[d] = "connected" /\ alive' # alive)
             => streamBy[d] # holders'[d]]_vars

\* An export or a callback only ever calls the USB layer with a manager that
\* has not been released: nativeRelease waits for the exports (plugin_lock) and
\* for the callbacks (manager_release) before the manager goes.
CallsHaveManager ==
    /\ \A t \in Caller :
          pc[t] \in {"avail", "availdrop", "find", "use", "drop", "mlock", "resize"}
             => m_manager = "valid"
    /\ pc[Usb] # "idle" => m_manager = "valid"

\* Every export that has taken plugin_lock returns, and so do nativeRelease and every
\* attach or detach callback, though m_lock is held across slow calls of the USB
\* layer and the release waits for the callback: no thread waits for one that waits
\* for it.
CallsReturn == \A t \in Thread : pc[t] # "idle" ~> pc[t] = "idle"

-----------------------------------------------------------------------------
(* What the documentation says and the code does not do.                   *)

\* README.md 159-160: stop() stops streaming.  It returns 0 without having
\* stopped anything when try_lock finds m_lock taken by an attach callback.
StopEndsStream ==
    \A t \in Caller :
        (pc[t] = "leave" /\ op[t] = "stop" /\ reply[t] = "ok")
            => usb[dev[t]] # "streaming"
=============================================================================
