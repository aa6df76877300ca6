# A verification project for uvc_recorder_plus

`uvc_recorder_plus` is a Flutter plugin for Android that shows and records the
picture of USB (UVC) cameras. It has four layers, in three languages:

```
  Dart (lib/)         UVCManager  UVCController  UVCVideoView     UvcRecorder
                         | FFI exports   ^ events     |  method      |  method
                         v (any isolate) | (port)     v  channel     v  channel
  C++  (cpp/)         exports of flutter_plugin_main.cpp           UVCManager.kt
                         | plugin_lock                               |  (platform thread)
                         v                                           v
                      FlutterPluginJava -- m_lock -> FlutterUVCHolder   UvcVideoRecorder
                         ^ attach/detach callbacks   |  capture thread    |  encoder thread
                         |                           v                    v
  closed libraries    USB manager (aandusb) ......  libuvc          MediaCodec, MediaMuxer
```

Every file of this directory is a TLA+ module, a TLC configuration, or the table
`PROJECT.json` that relates definitions to source lines. A definition keeps the
name of the code it stands for wherever TLA+ allows it.

## 1. Inventory

| component | state | operations | what is hard |
|---|---|---|---|
| exports, `FlutterPluginJava` (`flutter_plugin_main.cpp`, `flutter_plugin_java.cpp`) | `pluginJava` under `plugin_lock`; `m_manager`, `m_holders` under `m_lock`; the Dart port | `nativeInit/Release`, `start`, `stop`, `get_state`, `set_preview_surface`, `set_video_size`, `get_current_size`, callbacks `add`/`remove` | exports run on any isolate, callbacks on the USB thread; some look-ups use `try_lock`; `shared_ptr` copies outlive the map entry; the destructor waits for callbacks |
| `FlutterUVCHolder` | preview and recording windows, capture thread, current size, lists of sizes and controls | constructor, destructor, `start`, `stop`, `set_recording_surface`, `recording_capture_loop` | the destructor calls `uvc_stop` for a device *id*; a capture thread blocks on the encoder's window |
| event port (`flutter_utils.cpp`) | the port number, undelivered messages | `set_dart_api_message_port`, post | events are posted after the lock was released; without a port they are dropped |
| `UVCManager`/`UVCController` (Dart) | list of controllers, texture id | start-up, event handler, `start`, `stop`, `createTexture`, ... | the list has to converge to the registry; awaits between test and use |
| `UVCVideoView` | texture id shown | `initState`, life-cycle events, `dispose` | overlapping awaits |
| `UVCManager.kt` | recorder, registered textures | method-channel handlers, engine attach/detach | calls into JNI under `plugin_lock` from the platform thread |
| `UvcVideoRecorder.kt` | codec, muxer, surface, flags | `startRecording`, `stopRecording`, `cleanup`, `drainEncoder` | the encoder thread shares unlocked fields; any call may throw |
| `UvcRecorder` (Dart) | three static fields | `startRecording`, `stopRecording`, `queryIsRecording`, `cancelRecording` | overlapping futures, paths and device ids kept over an await, a restart of the isolate or the engine |
| `DeviceDetector(Fragment)` | USB monitor, handler, open connectors, devices by name | life cycle of a retained fragment, attach, permission and detach callbacks, refresh, claim | three threads and one small lock; callbacks and refreshes that outlive `onStop` and `onDetach`; connectors that outlive the activity |
| control tables (holder, exports, `UVCController`) | masks of supported controls, list of sizes, `_supportedControls` | `getSupportedControls`, `getSupportedSize`, `setCtrlValue`, `getCtrlValue` | isolates work on copies; every export may fail; the table is kept for good |
| not core | `GlDualRenderer` and `FlutterUVCFrameRenderer` (never instantiated), generated bindings, data classes, library loader, example | | |

`PROJECT.json` lists every one with its status, and under `hazards` what can go
wrong in it, at its line. The properties below were chosen from that list.

What makes each part correct:

* **native side** - a device streams only on behalf of a holder that is, or until a
  moment ago was, registered for it; nobody uses the USB manager after its release;
  a dying holder does not stop its successor; no set of calls and callbacks
  deadlocks.
* **events and Dart's list** - Dart is behind the registry by exactly the events
  under way, in order, and catches up.
* **recorder** - one encoder thread at a time writes to the muxer; flags tell the
  truth; a finished or failed recording leaves nothing open; the encoder thread ends.
* **recording as a whole** - the capture thread never draws on a window that is
  gone; it is silent before the codec is told that its input ends; calls are answered.
* **preview** - the texture Dart hands out and the window the native side draws on are alive; no
  texture is lost; at rest the view shows the stream, or nothing streams.
* **controls** - a listing leaves nothing of the plugin's lists out for good, a valid answer is true, a set that
  answers was carried out, and the table kept in Dart says what the device says.
* **Dart recorder** - what is being recorded can be stopped from Dart; the
  static fields agree with the native side whenever nothing is under way; a cancelled recording leaves no
  file, and no cancel deletes the file being recorded; only the camera that is recorded draws on the encoder.
* **detector** - the USB library has a descriptor only while its connector is open and answers claims; it has
  none while the activity is stopped; no connector is lost; it converges to what is plugged in and permitted.

## 2. Modules

| module | models | composition |
|---|---|---|
| `HolderRegistry` | the native side: exports, callbacks, `nativeInit`, `nativeRelease`, holders | |
| `DeviceDirectory` | abstract: what Dart may observe of devices | |
| `UvcPlugin` | the native side with the Dart list and the event port | EXTENDS `HolderRegistry`, implements `DeviceDirectory` |
| `VideoRecorder` | `UvcVideoRecorder.kt` against MediaCodec and MediaMuxer | |
| `Recording` | handlers, `FlutterUVCHolder`'s capture thread and a device that comes and goes | EXTENDS `VideoRecorder`, implements `RecordingService` |
| `RecordingService` | abstract: what the method channel promises of its recorder | |
| `Preview` | `UVCVideoView`, the `UVCController` it was given, and the textures of `UVCManager.kt` | the native side reduced to one device |
| `RecorderClient` | `uvc_recorder.dart` over a FIFO channel, and restarts | INSTANCEs `RecordingService` as the native side |
| `Detector` | `DeviceDetectorFragment.kt` and `DeviceDetector.kt` against the USB monitor | |
| `ControlTables` | control and size functions of `UVCController`, their isolates and exports | one attached device |
| `HolderRegistry_proofs` | theorems about `HolderRegistry` and `UvcPlugin` | EXTENDS `UvcPlugin`, INSTANCEs `DeviceDirectory_proofs` |
| `DeviceDirectory_proofs`, `VideoRecorder_proofs`, `RecorderClient_proofs`, `Preview_proofs`, `Detector_proofs`, `ControlTables_proofs` | theorems about the module of the name | EXTENDS it |
| `Recording_proofs` | theorems about `Recording` | EXTENDS `VideoRecorder_proofs` |
| `MC*` | model values and symmetry for TLC | |

### HolderRegistry

One process per thread that may be inside the native side: `Caller` (an isolate or
the platform thread, inside at most one export) and `Usb`, the thread on which the
USB manager runs attach and detach callbacks one after the other. A process has a
program counter, and a step is what happens between two lock operations. `plugin_lock`
and `m_lock` are variables holding their owner. `shared_ptr` is modelled by who refers to a
holder: `m_holders`, and the `held` reference of each process; the last one to let
go runs the destructor, which stops the device id (`uvc_stop`) in the same step.
Holder addresses are reused, as an allocator does; one more address than devices is
enough for a holder and its successor to exist at once.

Assumed of the closed USB library: callbacks are serial, `manager_release` waits for
the one in progress, and the entry of a device in the library's table goes before or
after its detach callback. One engine per process. The look-up under `try_lock` is one
step; waiting for `plugin_lock` is merged with the entry into the export. Dart sets the
port before `initialize` creates the detector, without which no device is announced
(`uvc_controller.dart:454-457`, `UVCManager.kt:106-114`).

### DeviceDirectory and UvcPlugin

`DeviceDirectory` is the promise to Dart: a set of devices known natively, a set known to Dart,
and a queue of events that bridges the two. `UvcPlugin` adds to `HolderRegistry` the message
queue of the port and the handler of `uvc_controller.dart`, and refines the
directory: `present` is the set of registered devices, `pending` the messages of the port followed by the event
of the callback in progress, whose change of the registry has happened and whose event is not posted yet. `ImplementsDirectory` is the refinement, which TLC
checks with its fairness and `PluginRefinesDirectory` proves without; `DirectoryAgrees`, proved of the abstract
specification, is what `UvcPlugin` inherits by it (`DartFollowsRegistry`).

### VideoRecorder

The platform thread runs `startRecording`, `stopRecording` and `cleanup` call by call,
and each call into MediaCodec, MediaMuxer or the surface may throw while `MayThrow`. Encoder
threads, old and new, run `drainEncoder` and share `isRecording`, `muxerStarted`,
`trackIndex`, `mediaCodec` and `mediaMuxer` without a lock. A step of an encoder thread has at most one call of
MediaCodec or MediaMuxer that another thread can come before: `addTrack` and `start` read `mediaMuxer` each for itself (`AddTrack`,
`StartMuxer`), and so does the assignment of `muxerStarted` after them. The JVM's plain fields are taken to be sequentially
consistent. `punctual` is history: it is TRUE as long as
every encoder thread has seen the end of its recording within the 500 ms sleep of
`stopRecording`. `OneDrain` and `FlagIsTrue` are conditional on it, because the code relies on
that sleep; without the condition TLC refutes both, so what a thread that slept longer does is in no
property. `CleanBetween` and `DrainsEnd` need no
such condition.

### Recording

Adds to `VideoRecorder` the two handlers of `UVCManager.kt`, `nativeSetRecordingSurface`, the holder
of one device, its capture thread, and detach and re-attach on the USB thread. The contended
`try_lock` of `set_recording_surface` is a choice at any time. The runs assume punctual
drains (`punctual'` in the next-state relation), and a device comes back only when its old
holder is gone. Two recordings are enough for one to find what the other left behind.

### RecordingService

What Dart may count on, one call at a time: `startRecording` answers 0 and begins a recording, -1 because one is in
progress, or -2 because it could not; `stopRecording` answers the path of a file that is complete, or null. `Recording`
implements it: `recording` is its mapping of the state, and the effect of a call happens at its answer, however many steps of
three threads have led there. `ImplementsService` says that every behaviour is one of `ServiceSpec`, and that the step in
which a handler answers is the step its answer tells. It is about a recorder whose `stop()` does not throw (`MayThrow` is
FALSE): a muxer that does leaves a file of which nobody can tell what it is, and `stopRecording` answers its path all the same.
`RecorderClient` takes the same module for its native side, so what it shows of the Dart class rests on
what `Recording` implements.

### RecorderClient

The Dart class: each call is a task cut at its awaits, with a path and a camera of its own, requests and answers are
FIFO, and the native side is `RecordingService` with the cameras that draw on an encoder's surface (`drawing`): `stopRecording`
disconnects the camera whose id it carries, whichever is recorded. Whether `nativeSetRecordingSurfaceObj` reaches the camera's holder
is open at every call, as in `Recording`: its look-ups are `try_lock`s, and nobody looks at its answer; the cameras that a stop could
not reach are the history `missed`. A start may fail before it is sent (the temporary directory, the parents of the path). No handler
answers with an error, so catch blocks are idle.

The app may restart once. A hot restart gives the isolate fresh static fields while the native side goes on; with the engine
the channel and `UVCManager.kt` go too, `nativeRelease` takes the surface from every camera, and nobody stops the recorder.
After a restart a recording cannot be stopped from Dart: `queryIsRecording` brings `_isRecording` back but not the device id,
without which `stopRecording` returns null (`uvc_recorder.dart:86-88`). `CanBeStopped` therefore ends with a restart, and TLC refutes it
otherwise; what `queryIsRecording` restores is in `FieldsAgree`. That no cancel deletes the file being recorded (the first part of
`CancelRemoves`) holds whatever overlaps. Its second part and `OnlyRecordedDraws` except what the
application must not do: a start that overlaps with another start or a stop (the history `crossed`), after which the remembered
path and device id may be those of a call that was refused. `OnlyRecordedDraws` also excepts the cameras in `missed`: those draw
on after their recording has ended.

### Preview

One view of one device from `initState` to `dispose`. Every call of an async method
(`initState`, each life-cycle event, `setSize`, `dispose`, `detached`) is a task that says what it
awaits; between awaits it is one step, as on Dart's event loop, and continuations that
need no event (a resolved future) belong to the step before. `compute()` runs on an isolate of
its own: `Resizes`, `GetsSize` and `StartRuns` are their steps, and their answers may come in any order.
The channel is FIFO both ways. The native side is one device with the rule proved of
`HolderRegistry`: a call reaches it unless it is gone or `m_lock` is taken (the choice `c`).

Three histories name what the code does not rule out: `missed` (a `try_lock` failed while the
device was there), and in `overlaps` "texture" (two creations at a time), "size" (two questions for the
size at a time) and "stop" (a pause, dispose or detach while a start, a creation or a question was under
way). `TextureLives` holds without any of them. `WindowLives` needs `~missed`: a release that cannot look the
holder up leaves the native side with the window. `TexturesAccounted` needs that no two creations
overlapped: the second answer overwrites `textureId` and the first texture stays until
the activity goes. `ShownAtRest` and `QuietAtRest` say what the user sees when nothing is under way; without
the histories TLC refutes each of them, most simply by a `start()` whose isolate runs after the `stop()` of a
pause, which leaves the device streaming in the background. The comment at `uvc_controller.dart:203-204`
explains why `stop()` is called directly; nothing makes `start()` precede it.

A failing `createTexture` (the handler answers with an error) and a device that comes back under the same
id while the old view is mounted are not modelled. `UVCManager`'s own sweep on resume removes
nothing, since `get_device_state` never answers DISCONNECTED. A debug build asserts that
`super.dispose()` is called synchronously, which `dispose` does not; the model is of a release build.

### ControlTables

One `UVCController` while its device is attached. `compute()` copies the controller into the new
isolate, so a call has a table of its own (`own`), and only its answer returns: what
`_getCtrlValue` writes to `_supportedControls` there is lost, what `setCtrlValue` wrote before the
copy stays, and the list of sizes is never kept. Every export holds `plugin_lock` from its look-up to
its end, so it is one step; a contended `try_lock`, a device that has gone and a request the device
refuses look the same to Dart and are one choice, open at every call. A device takes the nearest value
it can (`Fit`) and may change a control by itself (`Adjust`). The order of a listing's loop is left
open; `found` holds the indices of the sizes that were read. A listing asks for the controls that are both in the device's masks
and in the fixed lists `_supportedCtrls` and `_supportedProcs` (`Listed`); the device may support others (`Control`).

`ListingsComplete`, about the listed controls, and `SetsApplied` hold as they stand. That a listing has every control the device
supports is `EveryControlListed`, which is false. `AnswersCurrent` is conditional on
reading; the value a set answers must be one the control had at or after the set's own step (`Becomes` forgets what it had before).
When `get_ctrl_value` fails after a set that succeeded, the answer is valid and has the
value that was asked for, where `README.md:170` of the plugin promises the "actual applied control value" (`SetAnswersApplied`,
false too, as is `TableObtained`, about the table after a value that was rounded or refused).
`CacheIsTrue` is what is left: it names what the application must not do: the history `blurred` holds the controls whose last set
was refused, was rounded, or overlapped with another set of the same control or with a listing, and those the
device has changed by itself since. For these the
list that `getSupportedControls` answers from then on is wrong, until an undisturbed set; TLC
refutes the invariant without any one of these exceptions.

### Detector

The platform thread runs the life cycle of the fragment, the thread of each monitor its callbacks, a handler
thread the refreshes that the native side asks for. The fragment is retained, so it may be detached and attached again with a new
monitor and handler and the connectors of before; each attachment has a number, and the monitor, the handler and their threads
bear it. `addDevice` and `removeDevice` are cut at every step another thread can see: the test of the permission, the
opening, `mConnectors`, `mDevices`, the library. A refresh reads `mUSBMonitor` three times without a lock: for its test
(`HasMonitor`), for `isRegistered` and for `refreshDevices()`. `mUSBMonitor!!` that meets null ends the process, and `crashed`
says which of the reads it was. `openDevice` may throw for a device that is there, too, and is not tried again (the history `failed`).

External: `USBMonitor` (callbacks are serial; `register` and `refreshDevices` announce what is plugged in; `unregister` may
leave callbacks queued; `destroy` drops those that have not begun) and the library's table of descriptors.

Two histories name what goes wrong in this code. `late`: a callback or a refresh was under way when `onStop` called
`clearAll`; what it adds afterwards stays in the library of an activity that is stopped, and if it is still running after
`onDetach` it meets a monitor that is null. `again`: devices were announced more than once, because a second
`onStart` or a refresh opens devices whose connectors are still open; `mConnectors` keeps the newest, and the older ones
are never closed. `ClaimsServed`, `ForgottenWhenStopped`, `MonitorFound` and `Converges` hold as long as nothing was late,
`NothingLost` as long as nothing was announced again; TLC refutes each without its condition. `ClaimsServed` holds in the middle of
`addDevice` and `removeDevice` too: a claim may reach the connector that is about to replace the one the library has, and one
that comes from within `nativeAdd` reaches the connector that is being added. `MonitorFound` is about the reads
of the callbacks and of `refreshDevices()`; the read for `isRegistered` may meet null with nothing late, when a refresh is posted
after `onStop` and `onDetach` comes between its first two reads (`TestedMonitorFound`, run `monitor_dropped`).

Left out: a device that comes back under the name of one whose callbacks are still pending; `initialize` called
twice before the first fragment is committed, which makes two; `mDevices`, a `HashMap` that two monitors' threads may write
at once, is a set; `DeviceDetector.release` is called by nobody.

## 3. Runs

| run | question | expected |
|---|---|---|
| `registry` | orphan streams, released manager, successor stopped, deadlock, every call and callback returns | holds |
| `directory` | refinement of `DeviceDirectory`, Dart's list agrees and converges | holds |
| `recorder` | one drain, true flags, nothing left open, drains end | holds |
| `recording` | window backed, quiet before the end of stream, calls answered, refinement of `RecordingService` | holds |
| `client` | can be stopped, fields agree, cancelled files go and no other, only the recorded camera draws; with a restart and missed cameras | holds |
| `preview` | textures live while used, none lost, right one shown or none at rest | holds |
| `controls` | listings complete as far as the lists go, answers true, sets carried out, table true when undisturbed | holds |
| `detector` | claims served, nothing known while stopped, no dropped monitor met, no connector lost, converges | holds |
| `stop_ignored` | does `stop()` stop? | violated: contended `try_lock` is taken for "no such device" |
| `encoder_cut` | is the encoder waited for? | violated: with a started muxer and a thread that keeps up, the loop ends at its first test after `isRecording` was cleared |
| `recording_hang` | does `stopRecording` always answer? | violated: after a drain error it joins a blocked capture thread |
| `monitor_dropped` | does the read behind the test `mUSBMonitor != null` find it? | violated: `onDetach` comes between |

The violated runs are the `findings` of `PROJECT.json`, each with the line of documentation
or comment, or the test, that it contradicts. More divergences were met that take a call or two to reach; they have no run.
Four are stated as properties at the end of their modules, and TLC refutes each in a few steps when a cfg names it:
`StartTellsFailure` (a refused start completes like a successful one, where `uvc_recorder.dart:32-33` has it throw),
`EveryControlListed` (a complete listing lacks controls that `README.md:353-396` names, since the fixed lists of
`uvc_controller.dart:39-77` lack them), `SetAnswersApplied` (a set whose value cannot be read back answers the one asked for, where
`README.md:170` says the applied one) and `TableObtained` (after a value that was rounded or refused the table has one that was not
"obtained from the UVC device", `README.md:259`). `README.md:154`
lists a state DISCONNECTED that `get_device_state` never answers
(`flutter_plugin_java.cpp:250`). And one is visible in `VideoRecorder` as the codec state "orphan": a codec
whose `configure` throws was never assigned and is not released by `cleanup`, which claims to "Clean up all resources"
(`UvcVideoRecorder.kt:112,283`).

**Bounds.** `MaxEvents` of `HolderRegistry` bounds the events in flight to Dart, not how often
devices come and go; one device that comes, goes and comes back has a holder and a successor (the registry invariants were also checked on two devices and
three holder addresses). `Cap` is the number of encoder buffers (one already blocks the
producer, two let the drain lag), `MaxSessions` = 2 gives each recording a predecessor; `encoder_cut` needs neither, and no call that
throws. Three
life-cycle events in `preview` (pause, resume, pause) let a resume meet the remains of `initState` and of an
earlier pause, and a pause those of a resume; four events (5.3 million states, three textures) were checked too, and
are left out for time. Two sizes tell answers apart, and one missed call is as good as several, because every
property that depends on it is conditional on it. In `controls`, three calls
are two overlapping listings and a set, or a listing and two overlapping sets; three values, one of which the device
rounds to another; one listed control in each unit, and one that is not listed. (Four calls were checked too, on one control.) Five
tasks in `client` are one more than the four operations, so each may overlap with a second start; one restart is as good as
two, since the second finds nothing of the first but requests under way. In `detector`, two attachments, two starts and
two plugs give every monitor, connector and device a predecessor, and one refresh meets each of them; its properties are about
one device at a time, and two devices (10.5 million states) were checked too, and are left out for time.

**Fairness.** Calls, callbacks and the platform thread are strongly fair in `HolderRegistry`:
they wait for `std::mutex`es whose critical sections are short and end, and a thread that
keeps asking gets one. In the recorder modules weak fairness is enough, for a step
of a thread stays enabled until it is taken; so it is for the threads of `Detector`, whose life cycle nothing drives
but the calls that follow one another in `onStop` and `onDetach`. Nothing is assumed of the environment:
devices need not come or go, permissions need not be granted, users need not call, frames need not arrive, and external calls
may or may not throw.

## 4. Proofs

`tlapm` checks all of them from nothing. They hold for any sets of devices, threads, calls, paths, sizes
and addresses and for any bound, from the assumptions of the modules alone: that
the sets are disjoint and the marker values outside them, for instance that no path is called "no"
(`ClientAssumption`), and that the invalid size of `VideoSize.INVALID` is none a camera has (`PreviewAssumption`).
Every safety property of the passing runs is among them. TLC checked each of them first.

The native side and the devices Dart knows:

* `TypeCorrect`: `TypeOK` of `HolderRegistry`, by its actions.
* `ManagerSafe`: no call into the USB library with a released manager
  (`CallsHaveManager`). Not inductive alone. `Guarded` says who is inside holds its lock,
  and `Phases` ties the destructor's program counter to `m_manager` and to the
  callback in progress: while a process is in a critical section of the plugin, the
  destructor has not got past the lock, so the manager is there.
* `NoOrphanStream`: `StreamOwned`, and `SuccessorSpared`: `DestructorSparesSuccessor`. The
  invariant is `Ownership == References /\ StartedByHolder /\ StreamOwned /\ Successors`: every
  reference is to a holder alive and of the right device; who is about to start a
  device refers to its holder; and a holder that was replaced for its device can only be
  referred to by a process that will not start it again. `OwnershipFrame` covers all steps
  that move program counters only; `DropRefOwnership` and `ClearHoldersOwnership` cover
  the ones in which holders die. TLC checked all these invariants on two devices
  and three addresses before they were proved.
* `DirectoryTypeCorrect`, `DirectoryAgrees`: the abstract directory.
* `PluginRefinesDirectory`: the steps of `UvcPlugin` are steps of the directory or stutter. `AddHolder` and `Remove` change the
  registry, and the event is under way at once, because `pending` counts that of the callback in progress; `Announce` and
  `Farewell` move it to the messages of the port, which shows to nobody, and `HandleEvent` takes it out (`DirectoryStep`).
  What has to be known about the native side beyond `Guarded` and `Phases` is `Quiet`: before Dart has set its port no
  device is announced, so no event is dropped. This is the order of `initialize` in `uvc_controller.dart`.
* `DartFollowsRegistry`: `DartAgrees`. The invariant of the directory carried over: `AgreementStep`, the lemma under
  `DirectoryAgrees`, is cited through an instance of its module (`Promise`), and no step of `UvcPlugin` is looked at again.
* `PluginKeepsRegistrySafe`: `CallsHaveManager` and `StreamOwned` of `UvcPlugin`, whose steps are
  those of `HolderRegistry` and the handler of an event, which calls `stop()` itself.

The tables of controls:

* `TablesTypeCorrect`: `TypeOK` of `ControlTables`. `TypeInv` adds that a size loop stays below the
  number of sizes (`IndexInRange`) and what each operation has at each of its steps (`CallOK`).
* `AnswersTrue`: `AnswersCurrent`, and `SetsCarriedOut`: `SetsApplied`. The addition to the two is
  `Witnessed`: a call under way has seen the value the device has now, and a set that
  has got to its reading has seen the value it asked for, as the device fits it, and only what came after.
* `TableKeptTrue`: `CacheIsTrue`. The invariant is `CacheInv == ListingTrue /\ SetKnown /\ ClashBlurs /\
  PendingNoted /\ TableTrue`: what a listing has read of a control that is not blurred is true when it
  is merged; a set and any other writer under way blur the control (`ClashBlurs`, the part that makes
  the others inductive); and until the device has a value that was set, the table has it. That sets find their control
  in the table (`SetKnown`) is why no listing begins while a set is under way.
* `ListingsLeaveNothingOut`: `ListingsComplete`, about the controls of the lists. `SizesRead` says that a loop has read the sizes below its index,
  `AskedKept` that the isolate's table has every control the loop is past, `AllListed` that the main table
  has them all once a complete listing has returned, and that later merges take none away.

The recorder and the recording as a whole:

* `RecorderTypeCorrect`: `TypeOK` of `VideoRecorder`, in three parts (`PlatformType`, `DrainType`, `CodecType`) of which
  most steps leave two alone. `LocalsInUse` says that an encoder thread past its test for null works on a codec, `StartNumbered`
  that a start under way has a number.
* `CleanlyBetween`: `CleanBetween`. `Held` says that whatever runs or is open is in the fields, so that `cleanup` can get at
  it, and `Phases` what the fields hold at each step of a call. No encoder thread can break either, punctual or not:
  of what they speak about it only starts the muxer that `mediaMuxer` holds (`DrainKeepsClean`).
* `DrainedByOne`: `OneDrain`, and `StartedMeansStarted`: `FlagIsTrue`. `ThreadsApart` says that punctual threads never
  overlap and that none lives between the creation of an encoder and the start of its own thread: when an encoder is created no
  codec runs (`CreatedAlone`), and a thread that kept up has ended by then. `MuxerFollows` is about the muxer of the
  recording: it is there before the first pass of the thread and started before the flag says so.
* `RecordingLeavesNothing`: the same of `Recording`, because every step of it is a step of `VideoRecorder` or none
  (`RecorderSteps`): the composition inherits what was proved of the part.
* `CaptureBacked`: `CaptureIsBacked`, and `QuietAtEos`: `QuietBeforeEos`. `HolderLives` says which of the USB thread and
  the handler destroys the holder, `CaptureOwned` that whoever has asked the capture thread to end joins it before the
  window changes, `Disconnected` that from there on it is quiet until the answer.
* `RecordingServes`: `ImplementsService`, the refinement of `RecordingService`, if `~MayThrow`. `CallPhases` ties the
  recorder's phase to the call under way, `MuxerOfSession` the fields to the number of the latest attempt, `AnswerTrue` the
  answer that is prepared to what has happened. Steps that answer are mapped by `AnswersMap`, all others change nothing
  (`Unanswered`).

The theorems about `Recording` are about behaviours in which the encoder threads keep up, as its
next-state relation says.

The Dart recorder:

* `ClientTypeCorrect`: `TypeOK` of `RecorderClient`. `Channel` ties every request and answer to the one call that waits for it.
* `FieldsTellTheTruth`: `FieldsAgree`. A field is true at rest because of what the answers under way will do to it.
  `FlagFollows` and `PathFollows` say that the youngest of them tells what the native side does, and the fields when
  there is none (for the flag after a restart, once Dart has asked); `GoneFirst` that what an isolate that is gone has asked for
  is handled before all else.
* `RecordingsCanBeStopped`: `CanBeStopped`, by `Stoppable`: with refused starts half of the above remains. While something is
  recorded, the youngest answer sets the flag and names some device, and so do the fields when there is none.
* `CancellingRemoves`: `CancelRemoves`, and `OnlyTheRecordedDraws`: `OnlyRecordedDraws`, which excepts the cameras a stop could not
  reach. While nothing has crossed,
  no start meets another or a stop (`StartsAlone`), so that a start finds nothing recorded and a stop carries the camera that is
  (`OneAtATime`). The path a cancel has remembered is then that of the recording its stop ends (`Cancelled`), and since a
  path is recorded to once (`Paths`), its file does not come back.

The preview:

* `PreviewTypeCorrect`: `TypeOK` of `Preview`. `Awaited`, `Distinct` and `Pending` tie the calls to the channel, one for one, and
  `Counted` bounds the textures: each that was made has a call of its own that asked for it (`Served`).
* `HandedOutTextureLives`: `TextureLives`, `WindowIsLive`: `WindowLives`, and `NoTextureLost`: `TexturesAccounted`. Every step
  does one of seven things to the textures (`Aside`, `AsksFor`, `Drops`, `Makes`, `Frees`, `Comes`, `Went`), and each keeps `OneOwner`
  (what is to be released is nobody's, what is on its way is on its way once) and `Alive`. `ReleaseFirst` uses that
  the channel is FIFO: what was released before a creation is gone before its answer.
* `SeenAtRest`: `ShownAtRest`, and `StoppedAtRest`: `QuietAtRest`. What is shown at rest is decided by calls that overlap.
  `Goes` says that a view that is seen has its texture and its stream or a call under way will bring them, `Shows` and `Draws` that
  what it shows is the controller's texture and the window of the stream, `OneAsks`, `SizeTrue` and `SizeKnown` that the size it
  has, or is about to be told, is the device's, and `Quiet` that a stop which came when nothing was under way has left nothing
  behind. At rest no call will bring anything (`RestWantsNothing`), so what is said is there.

The detector:

* `DetectorTypeCorrect`: `TypeOK` of `Detector`. `Life` adds that the monitor is there from `onAttach` to `onDetach` and
  registered only while the activity is started. It needs finitely many devices, and one (`DetectorAssumption`).
* `NothingWhileStopped`: `ForgottenWhenStopped`, and `MonitorIsFound`: `MonitorFound`. `QuietOutside` says that if `onStop` was
  not too early nothing is queued or running until the next start, but for refreshes that are posted then and get no further than their
  test; `OneMonitor` that no monitor but the present one works. Each rests on the other.
* `ClaimsAreServed`: `ClaimsServed`. `OpenInLibrary` is about the descriptors the library has and the one it is about to get;
  `KeptAlike` says that the library, `mDevices` and `mConnectors` agree on every device that is not between
  `put` and `nativeAdd`, and that what is being removed has left the library first. It is the order of
  `addDevice` and of `removeDevice`, and one monitor at work, that make it inductive.
* `OpenedOnceClosedOnce`: `NothingLost`, from `again \/ Once`. Unless a device is announced again there is one reason to open
  it (`OneReason`: an answer it waits for, one callback, or one entry of a queue), while there is one it is not open (`NotYet`),
  what is open is in `mConnectors` or about to be put there (`KeptOpen`), and what was unplugged is closed or has a
  detach before it (`Leaves`).

**Only model-checked.** Liveness under fairness and ENABLED are out of the prover's reach, so TLC alone checks
`CallsReturn`, `DrainsEnd`, `CallsAnswered`, `Converges` of `UvcPlugin` and of `Detector`, the fairness part of
`ImplementsDirectory`, and the absence of deadlock. Nothing is proved about the four runs that end in a
violation: their properties are false.

## 5. Not modelled

`writeFrame` and `submitFrame` are called from nowhere; `GlDualRenderer` is never instantiated. Nor is
`FlutterUVCFrameRenderer`: which methods run in which order and on which threads is decided by callers, and it has none, so a
model of it would be of a use somebody else made up; its loop and its windows are those of `FlutterUVCHolder`, which
is modelled. `nativeStartRecording`, `nativeStopRecording` and `nativeIsRecording` are placeholders;
`m_supported_ctrls` is built and never read (the test `(procs && type) == type` of `flutter_uvc_holder.cpp:455`
therefore shows nowhere); `getControllerAt` is a pure function, though a wrong one (its counter never advances). The race on
`m_current_size` and `m_frame_buffer` between a size change and the capture thread ends in
the closed USB library. Several engines in a process share `pluginJava`; the model has one.

A device attached between `terminate_all` and `manager_release` (`flutter_plugin_java.cpp:73`) gets a holder that outlives the
manager: `HolderRegistry` reaches that state, and `CallsHaveManager` shows that nobody calls the library for it; that it
is there at all contradicts no document, so no run asks for it. An `initialize` that comes before
`onAttachedToActivity` throws at `mActivity.get()` (`UVCManager.kt:107`, `lateinit`) where the comment at line 77 has it
wait. An engine that goes during a recording leaves a file that nobody finishes.

Two thirds of the C and C++ lines are not the plugin's: the headers of the Dart API (`dartAPIDL`) and of the closed USB library
(`include/aandusb`) declare what others implement. No module maps them; what the plugin relies on is stated in the modules
as external.

## 6. Plan

In this order:

1. `Detector` composed with `HolderRegistry`: what the library is told is what its callbacks announce.
2. Several engines in one process, which share `pluginJava` and the detector's fragment.
3. `createTexture` that fails, and a device that comes back under its id while the old view is mounted, in `Preview`.
4. Proofs: what the composition of item 1 inherits from its parts, as `UvcPlugin` does from the directory; and
   `OnlyRecordedDraws` with the answers of `Recording` in place of `RecordingService`.
