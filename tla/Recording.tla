------------------------------ MODULE Recording ------------------------------
(***************************************************************************)
(* A recording from the method channel to the file: the startRecording and *)
(* stopRecording handlers of UVCManager.kt, the recorder (VideoRecorder),  *)
(* nativeSetRecordingSurfaceObj of flutter_plugin_main.cpp, and the        *)
(* capture thread of flutter_uvc_holder.cpp, which draws the camera's      *)
(* frames on the encoder's surface - while the device may be detached,     *)
(* which destroys the holder on the USB thread.                            *)
(*                                                                         *)
(* One device; the native window of the surface of attempt s is called s,  *)
(* and so is the capture thread started for it.                            *)
(***************************************************************************)
EXTENDS VideoRecorder

VARIABLES call,     \* where the handler on the platform thread is
          window,   \* the surface it hands to the native side, or None
          set,      \* did the latest native call reach the holder?
          holder,   \* the device's FlutterUVCHolder: "none", "registered",
                    \* "orphan" (out of the map, not yet destroyed)
          usb,      \* where the USB thread is in on_device_detach
          m_recording_active, m_recording_window,
          capture,  \* where each capture thread is
          refs      \* native references to each window

handlerVars == <<call, window, set>>
holderVars  == <<holder, usb, m_recording_active, m_recording_window>>
nativeVars  == <<holderVars, capture, refs>>
recordingVars == <<vars, handlerVars, nativeVars>>

RecordingTypeOK ==
    /\ TypeOK
    /\ call \in {"idle", "start", "stop", "stopping",
                 "avail", "find", "join", "install", "drop", "destroy"}
    /\ window \in Ref
    /\ set \in BOOLEAN
    /\ holder \in {"none", "registered", "orphan"}
    /\ usb \in {"idle", "forget", "destroy"}
    /\ m_recording_active \in BOOLEAN
    /\ m_recording_window \in Ref
    /\ capture \in [Session -> {"none", "test", "frame", "lock", "locked", "done"}]
    /\ refs \in [Session -> 0..2]

RecordingInit ==
    /\ Init
    /\ call = "idle" /\ window = None /\ set = FALSE
    /\ holder = "none" /\ usb = "idle"
    /\ m_recording_active = FALSE /\ m_recording_window = None
    /\ capture = [s \in Session |-> "none"]
    /\ refs = [s \in Session |-> 0]

-----------------------------------------------------------------------------
(* The handlers of the method channel.                                     *)

HandleStart ==
    /\ call = "idle"
    /\ StartRecording
    /\ call' = "start"
    /\ UNCHANGED <<window, set, nativeVars>>

\* The surface goes to the native side if the recorder answered 0; what the
\* native side answers is only logged.
Started ==
    /\ call = "start" /\ main = "idle"
    /\ IF reply = "ok"
       THEN call' = "avail" /\ window' = encoderSurface
       ELSE call' = "idle" /\ UNCHANGED window
    /\ UNCHANGED <<vars, set, nativeVars>>

\* Mutation of HandleStop: the recorder is stopped with its surface connected.
HandleStopConnected ==
    /\ call = "idle"
    /\ call' = "stop"
    /\ window' = None
    /\ UNCHANGED <<vars, set, nativeVars>>

HandleStop ==
    /\ call = "idle"
    /\ call' = "avail"
    /\ window' = None
    /\ UNCHANGED <<vars, set, nativeVars>>

StopTheRecorder ==
    /\ call = "stop"
    /\ StopRecording
    /\ call' = "stopping"
    /\ UNCHANGED <<window, set, nativeVars>>

Stopped ==
    /\ call = "stopping" /\ main = "idle"
    /\ call' = "idle"
    /\ UNCHANGED <<vars, window, set, nativeVars>>

-----------------------------------------------------------------------------
(* nativeSetRecordingSurfaceObj, under plugin_lock from "avail" on.        *)

NativeReturn == call' = IF window = None THEN "stop" ELSE "idle"

\* is_available, by try_lock.  ANativeWindow_fromSurface takes a reference that
\* no one gives back.
Available ==
    /\ call = "avail"
    /\ set' = FALSE
    /\ \/ /\ holder = "registered"
          /\ call' = "find"
          /\ refs' = IF window = None THEN refs ELSE [refs EXCEPT ![window] = @ + 1]
       \/ /\ NativeReturn
          /\ UNCHANGED refs
    /\ UNCHANGED <<vars, window, holderVars, capture>>

\* Mutation of FindHolder: the old capture thread is not joined.
FindWithoutJoin ==
    /\ call = "find"
    /\ \/ /\ holder = "registered"
          /\ call' = "install"
          /\ m_recording_active' = FALSE
          /\ set' = TRUE
       \/ /\ NativeReturn
          /\ UNCHANGED <<m_recording_active, set>>
    /\ UNCHANGED <<vars, window, holder, usb, m_recording_window, capture, refs>>

\* set_recording_window looks the holder up, by try_lock again, and
\* set_recording_surface asks the old capture thread to end.
FindHolder ==
    /\ call = "find"
    /\ \/ /\ holder = "registered"
          /\ call' = IF m_recording_active THEN "join" ELSE "install"
          /\ m_recording_active' = FALSE
          /\ set' = TRUE
       \/ /\ NativeReturn
          /\ UNCHANGED <<m_recording_active, set>>
    /\ UNCHANGED <<vars, window, holder, usb, m_recording_window, capture, refs>>

Join ==
    /\ call = "join"
    /\ capture[m_recording_window] = "done"
    /\ call' = "install"
    /\ UNCHANGED <<vars, window, set, nativeVars>>

CaptureTo(s, l) == capture' = [capture EXCEPT ![s] = l]

Released(r) == IF m_recording_window = None THEN r
               ELSE [r EXCEPT ![m_recording_window] = @ - 1]

\* Release the old window, acquire the new one, start its thread.
InstallWindow ==
    /\ call = "install"
    /\ m_recording_window' = window
    /\ IF window = None
       THEN /\ refs' = Released(refs)
            /\ UNCHANGED <<m_recording_active, capture>>
       ELSE /\ refs' = [Released(refs) EXCEPT ![window] = @ + 1]
            /\ m_recording_active' = TRUE
            /\ CaptureTo(window, "test")
    /\ call' = "drop"
    /\ UNCHANGED <<vars, window, set, holder, usb>>

\* The method's shared_ptr goes: the last one, if the device has been detached
\* and the USB thread is done with the holder.
Drop ==
    /\ call = "drop"
    /\ IF holder = "orphan" /\ usb = "idle"
       THEN call' = "destroy" /\ m_recording_active' = FALSE
       ELSE NativeReturn /\ UNCHANGED m_recording_active
    /\ UNCHANGED <<vars, window, set, holder, usb, m_recording_window, capture, refs>>

\* ~FlutterUVCHolder: the thread has been asked to end and is joined, then the
\* window is released.
Destroy ==
    /\ m_recording_window # None => capture[m_recording_window] \in {"none", "done"}
    /\ refs' = Released(refs)
    /\ m_recording_window' = None
    /\ holder' = "none"
    /\ UNCHANGED <<vars, window, set, m_recording_active, capture>>

HandlerDestroys ==
    /\ call = "destroy"
    /\ Destroy
    /\ NativeReturn
    /\ UNCHANGED usb

HandlerStep ==
    \/ Started \/ StopTheRecorder \/ Stopped
    \/ Available \/ FindHolder \/ Join \/ InstallWindow \/ Drop \/ HandlerDestroys

-----------------------------------------------------------------------------
(* The device comes and goes.                                              *)

Attach ==
    /\ usb = "idle" /\ holder = "none"
    /\ holder' = "registered"
    /\ UNCHANGED <<vars, handlerVars, usb, m_recording_active, m_recording_window,
                   capture, refs>>

Detach ==
    /\ usb = "idle" /\ holder = "registered"
    /\ holder' = "orphan"
    /\ usb' = "forget"
    /\ UNCHANGED <<vars, handlerVars, m_recording_active, m_recording_window,
                   capture, refs>>

\* remove() returns: the holder dies here unless the handler refers to it.
Forget ==
    /\ usb = "forget"
    /\ IF call \in {"join", "install", "drop"}
       THEN usb' = "idle" /\ UNCHANGED m_recording_active
       ELSE usb' = "destroy" /\ m_recording_active' = FALSE
    /\ UNCHANGED <<vars, handlerVars, holder, m_recording_window, capture, refs>>

UsbDestroys ==
    /\ usb = "destroy"
    /\ Destroy
    /\ usb' = "idle"
    /\ UNCHANGED call

UsbStep == Forget \/ UsbDestroys

-----------------------------------------------------------------------------
(* recording_capture_loop, on the thread started for window s.             *)

LoopTest(s) ==
    /\ capture[s] = "test"
    /\ CaptureTo(s, IF m_recording_active /\ m_recording_window # None
                    THEN "frame" ELSE "done")
    /\ UNCHANGED <<vars, handlerVars, holderVars, refs>>

\* uvc_get_frame: a frame, or none, or an error.
GetFrame(s) ==
    /\ capture[s] = "frame"
    /\ \E l \in {"lock", "test"} : CaptureTo(s, l)
    /\ UNCHANGED <<vars, handlerVars, holderVars, refs>>

\* ANativeWindow_lock: fails when the codec is gone, blocks while the encoder
\* holds all the buffers.
LockWindow(s) ==
    /\ capture[s] = "lock"
    /\ \/ codec[s] # "running" /\ CaptureTo(s, "test")
       \/ codec[s] = "running" /\ surface[s] < Cap /\ CaptureTo(s, "locked")
    /\ UNCHANGED <<vars, handlerVars, holderVars, refs>>

PostFrame(s) ==
    /\ capture[s] = "locked"
    /\ CaptureTo(s, "test")
    /\ IF codec[s] = "running" THEN Draw(s) ELSE UNCHANGED vars
    /\ UNCHANGED <<handlerVars, holderVars, refs>>

CaptureStep(s) == LoopTest(s) \/ GetFrame(s) \/ LockWindow(s) \/ PostFrame(s)

-----------------------------------------------------------------------------
\* Bound: the behaviours in which the encoder threads keep up (KeptUp).
Recorder == RecorderStep /\ punctual' /\ UNCHANGED <<handlerVars, nativeVars>>

RecordingNext ==
    \/ HandleStart \/ HandleStop \/ HandlerStep
    \/ Recorder
    \/ Attach \/ Detach \/ UsbStep
    \/ \E s \in Session : CaptureStep(s)

\* Every thread runs on, and get_frame delivers a frame now and then.  Nothing
\* makes anyone call, or plug.
RecordingFairness ==
    /\ WF_recordingVars(HandlerStep)
    /\ WF_recordingVars(MainStep /\ punctual' /\ UNCHANGED <<handlerVars, nativeVars>>)
    /\ WF_recordingVars(UsbStep)
    /\ \A s \in Session :
        /\ WF_recordingVars(DrainStep(s) /\ UNCHANGED <<handlerVars, nativeVars>>)
        /\ WF_recordingVars(Encode(s) /\ UNCHANGED <<handlerVars, nativeVars>>)
        /\ WF_recordingVars(CaptureStep(s))

RecordingSpec == RecordingInit /\ [][RecordingNext]_recordingVars /\ RecordingFairness

-----------------------------------------------------------------------------
(* Properties.                                                             *)

\* A capture thread that is past its test works on a holder that exists and on
\* that holder's window, to which the holder has a reference: set_recording_surface
\* and the destructor join before they release.
CaptureIsBacked ==
    \A s \in Session : capture[s] \in {"test", "frame", "lock", "locked"} =>
        holder # "none" /\ m_recording_window = s /\ refs[s] > 0

\* The end of the stream is signalled when nothing draws any more, if the native
\* side was reached: the handler disconnects the surface first.
QuietBeforeEos ==
    (main = "eos" /\ set) => \A s \in Session : capture[s] \in {"none", "done"}

\* Every call is answered and every detach callback returns: the capture thread
\* that they join may wait for the encoder, but then the encoder thread drains it.
CallsAnswered ==
    /\ call # "idle" ~> call = "idle"
    /\ usb # "idle" ~> usb = "idle"

-----------------------------------------------------------------------------
(* The refinement of RecordingService: its state changes when the handler  *)
(* answers.  Until then a start has not begun, and a stop has not ended.   *)

Answered == [ok |-> "0", busy |-> "-1", failed |-> "-2", path |-> "path", null |-> "null"]

recording ==
    CASE call = "start" \/ (call \notin {"idle", "stop", "stopping"} /\ window # None) ->
            IF main = "idle" /\ reply = "busy" THEN mediaMuxer ELSE None
      [] call = "stopping" ->
            IF main # "idle" \/ reply = "path" THEN session ELSE None
      [] OTHER -> mediaMuxer

Service == INSTANCE RecordingService WITH
    Path <- Session, NoPath <- None,
    file <- [s \in Session |->
                IF s = recording THEN "growing"
                ELSE IF muxer[s] = "closed" THEN "complete" ELSE "none"]

\* Whatever the encoder thread, the capture thread and a detach do meanwhile, each
\* call has the effect that its answer tells: a recording begins only with the answer
\* 0, at the answer of a path its file is closed, and no other step begins or ends one.
ImplementsService ==
    /\ Service!ServiceSpec
    /\ [][(call # "idle" /\ call' = "idle") =>
              IF call = "stopping" THEN Service!StopRecording(Answered[reply])
              ELSE Service!StartRecording(session, Answered[reply])]_recordingVars

-----------------------------------------------------------------------------
(* What comments say and the code does not do.                             *)

\* uvc_recorder.dart 81-84: stopRecording returns the path or null, or throws.  It
\* does none of these once drainEncoder has ended with an exception: the capture
\* thread waits for an encoder that nobody drains, the handler joins it, and the
\* codec that would wake it is stopped only after that.
StopAnswers == (call = "avail" /\ window = None) ~> call = "idle"
=============================================================================
