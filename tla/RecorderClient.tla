--------------------------- MODULE RecorderClient ---------------------------
(***************************************************************************)
(* The class UvcRecorder of uvc_recorder.dart: static fields, and async    *)
(* methods that let other calls run at every await, over a method channel  *)
(* that carries calls and answers in order.  The native side (the handlers *)
(* of UVCManager.kt and UvcVideoRecorder.kt, see Recording) answers one    *)
(* call at a time: 0, -1 or -2 to startRecording, a path or null to        *)
(* stopRecording.  It never answers with an error: the recorder catches    *)
(* every exception and answers -2, so the catch blocks stay idle.          *)
(*                                                                         *)
(* Every call has a path and a camera of its own: the device id of call t  *)
(* is called t too.  The app may restart once: the isolate alone (a hot    *)
(* restart), or with it the engine and the UVCManager of UVCManager.kt.    *)
(***************************************************************************)
EXTENDS Naturals, Sequences

CONSTANTS Task,     \* calls of the application, each with a path and a camera of its own
          NoPath    \* null

Path == Task \cup {NoPath}

ASSUME ClientAssumption == NoPath \notin Task /\ "no" \notin Path

VARIABLES _isRecording, _currentRecordingPath, _currentDeviceId,   \* UvcRecorder
          task,      \* what each call is doing
          result,    \* what each call's future completed with
          cancels,   \* the path a cancelRecording remembered
          refused,   \* history: starts that were answered -1 or -2
          requests, replies,    \* the channel, oldest first
          native,    \* the path of the recording in progress, or NoPath
          drawing,   \* cameras whose holder has the surface of some encoder
          missed,    \* history: those of them that a stop could not reach
          file,      \* each path's file
          ended,     \* history: the recording that each stopRecording ended
          crossed,   \* history: a start has overlapped with another start or a stop
          restarted, \* history: "no", or what the app has restarted
          synced     \* history: queryIsRecording has completed since

clientVars  == <<_isRecording, _currentRecordingPath, _currentDeviceId>>
taskVars    == <<task, result, cancels, refused, crossed>>
channelVars == <<requests, replies>>
nativeVars  == <<native, drawing, missed, file, ended>>
appVars     == <<restarted, synced>>
vars == <<clientVars, taskVars, channelVars, nativeVars, appVars>>

Method == {"startRecording", "stopRecording", "isRecording"}
Answer == {"0", "-1", "-2", "true", "false", "path", "null"}

TypeOK ==
    /\ _isRecording \in BOOLEAN
    /\ _currentRecordingPath \in Path
    /\ _currentDeviceId \in Path
    /\ task \in [Task -> {"new", "invoke", "startRecording", "stopRecording",
                          "isRecording", "delete", "done", "gone"}]
    /\ result \in [Task -> {"none", "started", "path", "null", "true", "false",
                            "StateError", "IOError"}]
    /\ cancels \in [Task -> Path \cup {"no"}]
    /\ refused \subseteq Task /\ crossed \in BOOLEAN
    /\ requests \in Seq([task : Task, method : Method, device : Path])
    /\ replies \in Seq([task : Task, answer : Answer])
    /\ native \in Path /\ drawing \subseteq Task /\ missed \subseteq Task
    /\ file \in [Task -> {"none", "growing", "complete", "deleted"}]
    /\ ended \in [Task -> Path]
    /\ restarted \in {"no", "isolate", "engine"} /\ synced \in BOOLEAN

Init ==
    /\ _isRecording = FALSE /\ _currentRecordingPath = NoPath
    /\ _currentDeviceId = NoPath
    /\ task = [t \in Task |-> "new"]
    /\ result = [t \in Task |-> "none"]
    /\ cancels = [t \in Task |-> "no"]
    /\ refused = {} /\ crossed = FALSE
    /\ requests = <<>> /\ replies = <<>>
    /\ native = NoPath /\ drawing = {} /\ missed = {}
    /\ file = [t \in Task |-> "none"]
    /\ ended = [t \in Task |-> NoPath]
    /\ restarted = "no" /\ synced = TRUE

-----------------------------------------------------------------------------
(* UvcRecorder.                                                            *)

Invoke(t, m, d) == requests' = Append(requests, [task |-> t, method |-> m, device |-> d])
TaskTo(t, l) == task' = [task EXCEPT ![t] = l]
Complete(t, r) == result' = [result EXCEPT ![t] = r]

Starting == \E t \in Task : task[t] \in {"invoke", "startRecording"}
Stopping == \E t \in Task : task[t] = "stopRecording"

\* Mutation of StartRecording: the device is noted before the test.
StartNotesEarly(t) ==
    /\ task[t] = "new"
    /\ _currentDeviceId' = t
    /\ IF _isRecording
       THEN TaskTo(t, "done") /\ Complete(t, "StateError")
       ELSE TaskTo(t, "invoke") /\ UNCHANGED result
    /\ crossed' = (crossed \/ (~_isRecording /\ (Starting \/ Stopping)))
    /\ UNCHANGED <<_isRecording, _currentRecordingPath, cancels, refused, channelVars,
                   nativeVars, appVars>>

\* startRecording, to its first await: the directory, and the path's parents.
StartRecording(t) ==
    /\ task[t] = "new"
    /\ IF _isRecording
       THEN TaskTo(t, "done") /\ Complete(t, "StateError")
       ELSE TaskTo(t, "invoke") /\ UNCHANGED result
    /\ crossed' = (crossed \/ (~_isRecording /\ (Starting \/ Stopping)))
    /\ UNCHANGED <<clientVars, cancels, refused, channelVars, nativeVars, appVars>>

\* The call is sent, unless the directory could not be found or made.
StartInvokes(t) ==
    /\ task[t] = "invoke"
    /\ \/ /\ Invoke(t, "startRecording", t)
          /\ TaskTo(t, "startRecording")
          /\ UNCHANGED result
       \/ /\ TaskTo(t, "done") /\ Complete(t, "IOError")
          /\ UNCHANGED requests
    /\ UNCHANGED <<clientVars, cancels, refused, crossed, replies, nativeVars, appVars>>

\* Mutation of StopRecording: cancelRecording reads the path when the stop has cleared it.
CancelReadsLate(t) ==
    /\ task[t] = "new"
    /\ \E c \in {"no", NoPath} : cancels' = [cancels EXCEPT ![t] = c]
    /\ IF _isRecording /\ _currentDeviceId # NoPath
       THEN /\ Invoke(t, "stopRecording", _currentDeviceId)
            /\ TaskTo(t, "stopRecording")
            /\ UNCHANGED result
       ELSE /\ TaskTo(t, IF cancels'[t] \in Task THEN "delete" ELSE "done")
            /\ Complete(t, "null")
            /\ UNCHANGED requests
    /\ crossed' = (crossed \/ Starting)
    /\ UNCHANGED <<clientVars, refused, replies, nativeVars, appVars>>

\* stopRecording, also as the first thing cancelRecording does.
StopRecording(t) ==
    /\ task[t] = "new"
    /\ \E c \in {"no", _currentRecordingPath} : cancels' = [cancels EXCEPT ![t] = c]
    /\ IF _isRecording /\ _currentDeviceId # NoPath
       THEN /\ Invoke(t, "stopRecording", _currentDeviceId)
            /\ TaskTo(t, "stopRecording")
            /\ UNCHANGED result
       ELSE /\ TaskTo(t, IF cancels'[t] \in Task THEN "delete" ELSE "done")
            /\ Complete(t, "null")
            /\ UNCHANGED requests
    /\ crossed' = (crossed \/ Starting)
    /\ UNCHANGED <<clientVars, refused, replies, nativeVars, appVars>>

QueryIsRecording(t) ==
    /\ task[t] = "new"
    /\ Invoke(t, "isRecording", t)
    /\ TaskTo(t, "isRecording")
    /\ UNCHANGED <<clientVars, result, cancels, refused, crossed, replies, nativeVars, appVars>>

\* Mutation of StartReturns: the device is not kept.
StartForgetsDevice(t) ==
    /\ task[t] = "startRecording"
    /\ _isRecording' = TRUE
    /\ _currentRecordingPath' = t
    /\ TaskTo(t, "done") /\ Complete(t, "started")
    /\ UNCHANGED _currentDeviceId

\* startRecording does not look at the answer.
StartReturns(t) ==
    /\ task[t] = "startRecording"
    /\ _isRecording' = TRUE
    /\ _currentRecordingPath' = t
    /\ _currentDeviceId' = t
    /\ TaskTo(t, "done") /\ Complete(t, "started")

\* Mutations of StopReturns: the answer is kept as the path; the path stays.
StopStoresAnswer(t, a) ==
    /\ task[t] = "stopRecording"
    /\ _isRecording' = FALSE
    /\ _currentRecordingPath' = a
    /\ _currentDeviceId' = NoPath
    /\ TaskTo(t, IF cancels[t] \in Task THEN "delete" ELSE "done")
    /\ Complete(t, a)

StopKeepsPath(t, a) ==
    /\ task[t] = "stopRecording"
    /\ _isRecording' = FALSE
    /\ _currentDeviceId' = NoPath
    /\ TaskTo(t, IF cancels[t] \in Task THEN "delete" ELSE "done")
    /\ Complete(t, a)
    /\ UNCHANGED _currentRecordingPath

StopReturns(t, a) ==
    /\ task[t] = "stopRecording"
    /\ _isRecording' = FALSE
    /\ _currentRecordingPath' = NoPath
    /\ _currentDeviceId' = NoPath
    /\ TaskTo(t, IF cancels[t] \in Task THEN "delete" ELSE "done")
    /\ Complete(t, a)

QueryReturns(t, a) ==
    /\ task[t] = "isRecording"
    /\ _isRecording' = (a = "true")
    /\ TaskTo(t, "done") /\ Complete(t, a)
    /\ UNCHANGED <<_currentRecordingPath, _currentDeviceId>>

Return(t, a) == StartReturns(t) \/ StopReturns(t, a) \/ QueryReturns(t, a)

\* The awaited answer arrives; one to a call of the isolate before is dropped.
Receive ==
    /\ replies # <<>>
    /\ replies' = Tail(replies)
    /\ LET t == Head(replies).task IN
       /\ \/ Return(t, Head(replies).answer)
          \/ task[t] = "gone" /\ UNCHANGED <<clientVars, task, result>>
       /\ synced' = (synced \/ task[t] = "isRecording")
    /\ UNCHANGED <<cancels, refused, crossed, requests, nativeVars, restarted>>

\* The end of cancelRecording: the file goes, if it exists.
Delete(t) ==
    /\ task[t] = "delete"
    /\ file' = [file EXCEPT ![cancels[t]] = IF @ = "none" THEN @ ELSE "deleted"]
    /\ TaskTo(t, "done")
    /\ UNCHANGED <<clientVars, result, cancels, refused, crossed, channelVars,
                   native, drawing, missed, ended, appVars>>

-----------------------------------------------------------------------------
(* The native side: RecordingService, the channel, and who draws.          *)

Service == INSTANCE RecordingService WITH Path <- Task, recording <- native

Answered(t, a) == replies' = Append(replies, [task |-> t, answer |-> a])

\* nativeSetRecordingSurfaceObj gives camera d's holder a surface or takes it away,
\* or does nothing: there is no holder, or is_available or set_recording_window finds
\* m_lock taken (Available and FindHolder of Recording).  Nobody looks at its answer.
HandleStart(t) ==
    \E a \in {"0", "-1", "-2"} :
        /\ Service!StartRecording(t, a)
        /\ Answered(t, a)
        /\ \E reached \in BOOLEAN :
              drawing' = IF a = "0" /\ reached THEN drawing \cup {t} ELSE drawing
        /\ refused' = IF a = "0" THEN refused ELSE refused \cup {t}
        /\ UNCHANGED <<missed, ended>>

\* The surface is taken from camera d, whichever is recorded; then the recorder stops.
HandleStop(t, d) ==
    /\ \E reached \in BOOLEAN :
        /\ drawing' = IF reached THEN drawing \ {d} ELSE drawing
        /\ missed' = IF reached THEN missed \ {d} ELSE missed \cup ({d} \cap drawing)
    /\ \E a \in {"path", "null"} : Service!StopRecording(a) /\ Answered(t, a)
    /\ ended' = [ended EXCEPT ![t] = native]
    /\ UNCHANGED refused

HandleIsRecording(t) ==
    \E a \in {"true", "false"} :
        /\ Service!IsRecording(a)
        /\ Answered(t, a)
        /\ UNCHANGED <<drawing, missed, refused, ended>>

OnMethodCall ==
    /\ requests # <<>>
    /\ requests' = Tail(requests)
    /\ LET t == Head(requests).task  m == Head(requests).method IN
       \/ m = "startRecording" /\ HandleStart(t)
       \/ m = "stopRecording" /\ HandleStop(t, Head(requests).device)
       \/ m = "isRecording" /\ HandleIsRecording(t)
    /\ UNCHANGED <<clientVars, task, result, cancels, crossed, appVars>>

-----------------------------------------------------------------------------
(* The app restarts.                                                       *)

\* The static fields begin anew and the calls under way are gone.  Without its
\* engine, onDetachedFromEngine drops the channel and takes the surface from every
\* camera, but the recorder is not stopped: the new UVCManager has none, and nobody
\* can end the file.
Restart ==
    /\ restarted = "no"
    /\ restarted' \in {"isolate", "engine"}
    /\ synced' = FALSE
    /\ _isRecording' = FALSE /\ _currentRecordingPath' = NoPath /\ _currentDeviceId' = NoPath
    /\ task' = [t \in Task |-> IF task[t] \in {"new", "done"} THEN task[t] ELSE "gone"]
    /\ replies' = <<>>
    /\ IF restarted' = "isolate"
       THEN UNCHANGED <<requests, native, drawing, missed>>
       ELSE requests' = <<>> /\ native' = NoPath /\ drawing' = {} /\ missed' = {}
    /\ UNCHANGED <<result, cancels, refused, crossed, file, ended>>

-----------------------------------------------------------------------------
Next ==
    \/ \E t \in Task :
          \/ StartRecording(t) \/ StartInvokes(t)
          \/ StopRecording(t) \/ QueryIsRecording(t)
          \/ Delete(t)
    \/ Receive
    \/ OnMethodCall
    \/ Restart

Spec == Init /\ [][Next]_vars

-----------------------------------------------------------------------------
(* Properties.                                                             *)

Underway == \E t \in Task : task[t] \notin {"new", "done", "gone"}
AtRest == ~Underway /\ requests = <<>>

\* A recording can always be stopped: when no call is under way and the native
\* side records, Dart knows that it does and knows the device, so the next
\* stopRecording reaches it.  Answers to overlapping starts, stops and queries
\* overwrite the fields, but in the order of the native calls.  Not after a restart:
\* queryIsRecording brings _isRecording back and not the device id.
CanBeStopped ==
    (AtRest /\ native # NoPath /\ restarted = "no") => _isRecording /\ _currentDeviceId # NoPath

\* If no start was refused, the three fields say at rest what the native side does;
\* after a restart and a queryIsRecording _isRecording does, whatever requests of the
\* isolate before were still on their way.
FieldsAgree ==
    (AtRest /\ refused = {} /\ synced) =>
        /\ _isRecording = (native # NoPath)
        /\ restarted = "no" => _currentRecordingPath = native /\ _currentDeviceId = native

\* Whatever overlaps and restarts, no cancelRecording deletes the file of the recording
\* in progress: when it deletes the path that it remembered before its await, its own
\* stop or an earlier one has ended that recording.  And it leaves no file of the
\* recording that its stop has ended, unless a start has overlapped with another start
\* or a stop, or the app has restarted: then the path may be that of another.
CancelRemoves ==
    /\ native # NoPath => file[native] = "growing"
    /\ (~crossed /\ restarted = "no") => \A t \in Task :
          (task[t] = "done" /\ cancels[t] # "no" /\ ended[t] # NoPath) => file[ended[t]] = "deleted"

\* Only the camera that is recorded has an encoder's surface, and none has between
\* recordings, but for the cameras that a stop has asked for and could not reach: the
\* device id that a stopRecording carries is that of the recording it ends, unless a
\* start has overlapped with another start or a stop, or the app has restarted.
OnlyRecordedDraws ==
    (~crossed /\ restarted = "no") => drawing \ missed \subseteq {native}

-----------------------------------------------------------------------------
(* What the documentation says and the code does not do.                   *)

\* uvc_recorder.dart 32-33: a start that fails throws.  The answers -1 and -2
\* are not looked at, so it completes with a path to which nothing is recorded.
StartTellsFailure == \A t \in refused : result[t] # "started"
=============================================================================
