----------------------------- MODULE UvcPlugin -----------------------------
(***************************************************************************)
(* HolderRegistry together with the UVCManager of uvc_controller.dart: the *)
(* main isolate receives the device events, keeps a controller per device, *)
(* and a detach event makes it call stop() before it handles anything else.*)
(* It implements DeviceDirectory.                                          *)
(***************************************************************************)
EXTENDS HolderRegistry

CONSTANT Main   \* the thread of the main isolate

ASSUME MainAssumption == Main \in Caller \ {Platform}

VARIABLE controllers   \* the keys of UVCManager._availableControllers

pluginSpecVars == <<vars, controllers>>

PluginTypeOK == TypeOK /\ controllers \subseteq Device

PluginInit == Init /\ controllers = {}

\* The isolate and its controllers go with the engine.
IsolateFrame ==
    controllers' = IF pluginJava /\ ~pluginJava' THEN {} ELSE controllers

NativeStep == NativeNext /\ IsolateFrame

\* _handleOnDeviceChanged(id, true)
HandleAttached ==
    /\ pc[Main] = "idle"
    /\ msgs # <<>>
    /\ Head(msgs).attached
    /\ controllers' = controllers \cup {Head(msgs).id}
    /\ msgs' = Tail(msgs)
    /\ UNCHANGED <<detector, port, callVars, lockVars, pluginVars, holderVars, usbVars>>

\* Mutation of HandleDetached: the controller is stopped and stays in the list.
DetachedKeepsController ==
    /\ pc[Main] = "idle"
    /\ msgs # <<>>
    /\ ~Head(msgs).attached
    /\ msgs' = Tail(msgs)
    /\ UNCHANGED <<controllers, detector, port>>
    /\ IF Head(msgs).id \in controllers
       THEN EnterCall(Main, "stop", Head(msgs).id)
       ELSE UNCHANGED <<callVars, lockVars, pluginVars, holderVars, usbVars>>

\* _handleOnDeviceChanged(id, false): detached() runs up to its first await,
\* which is after the FFI call of stop(), inside the handler.
HandleDetached ==
    /\ pc[Main] = "idle"
    /\ msgs # <<>>
    /\ ~Head(msgs).attached
    /\ controllers' = controllers \ {Head(msgs).id}
    /\ msgs' = Tail(msgs)
    /\ UNCHANGED <<detector, port>>
    /\ IF Head(msgs).id \in controllers
       THEN EnterCall(Main, "stop", Head(msgs).id)
       ELSE UNCHANGED <<callVars, lockVars, pluginVars, holderVars, usbVars>>

HandleEvent == HandleAttached \/ HandleDetached

PluginNext == NativeStep \/ HandleEvent

\* As in HolderRegistry; and the event loop of the main isolate takes the next
\* message, its stop() getting plugin_lock when that is free again and again.
PluginFairness ==
    /\ \A t \in Caller : SF_pluginSpecVars(CallStep(t) /\ IsolateFrame)
    /\ SF_pluginSpecVars(UsbStep /\ IsolateFrame)
    /\ SF_pluginSpecVars(HandleEvent)

PluginSpec == PluginInit /\ [][PluginNext]_pluginSpecVars /\ PluginFairness

-----------------------------------------------------------------------------
(* The refinement.                                                         *)

Listening == pluginJava /\ port = "live"

\* The event of the callback in progress: the registry has changed, the event
\* has not been posted.
InFlight ==
    CASE pc[Usb] = "announce" -> <<[id |-> dev[Usb], attached |-> TRUE]>>
      [] pc[Usb] \in {"stop", "farewell"} -> <<[id |-> dev[Usb], attached |-> FALSE]>>
      [] OTHER -> <<>>

Directory == INSTANCE DeviceDirectory WITH
    open    <- Listening,
    present <- IF Listening THEN Registered ELSE {},
    pending <- IF Listening THEN msgs \o InFlight ELSE <<>>,
    known   <- controllers

\* The plugin implements the directory: Dart learns of every registration and
\* removal once, in order, and no event is lost between m_lock and the port.
ImplementsDirectory == Directory!Spec

\* Events posted outside m_lock still describe the registry: Dart's list is
\* behind it by exactly the events under way.
DartAgrees == Directory!Agreement

\* When the bus has come to rest, Dart's list of controllers becomes the set of
\* registered devices and stays so.
Converges ==
    <>[](pc[Usb] = "idle" /\ Listening) => <>[](controllers = Registered)
=============================================================================
