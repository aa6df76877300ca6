--------------------------- MODULE Recording_proofs ---------------------------
(***************************************************************************)
(* Theorems about Recording, for any number of recordings and of frames,   *)
(* and whether or not calls throw.  The recorder's own are inherited: what *)
(* the handlers and the capture thread do to it are steps of               *)
(* VideoRecorder.                                                          *)
(***************************************************************************)
EXTENDS Recording, VideoRecorder_proofs

-----------------------------------------------------------------------------
(* Recording implements VideoRecorder.                                     *)

LEMMA RecorderSteps == [RecordingNext]_recordingVars => [Next]_vars
<1> SUFFICES ASSUME [RecordingNext]_recordingVars PROVE [Next]_vars
  OBVIOUS
<1>1. CASE HandleStart
  BY <1>1 DEF HandleStart, Next
<1>2. CASE HandleStop
  BY <1>2 DEF HandleStop
<1>3. CASE StopTheRecorder
  BY <1>3 DEF StopTheRecorder, Next
<1>4. CASE Started \/ Stopped \/ Available \/ FindHolder \/ Join
           \/ InstallWindow \/ Drop \/ HandlerDestroys
  BY <1>4 DEF Started, Stopped, Available, FindHolder, Join, InstallWindow, Drop,
              HandlerDestroys, Destroy
<1>5. CASE Recorder
  BY <1>5 DEF Recorder, Next
<1>6. CASE Attach \/ Detach \/ UsbStep
  BY <1>6 DEF Attach, Detach, UsbStep, Forget, UsbDestroys, Destroy
<1>7. ASSUME NEW s \in Session, CaptureStep(s) PROVE [Next]_vars
  BY <1>7 DEF CaptureStep, LoopTest, GetFrame, LockWindow, PostFrame, Next
<1>8. CASE UNCHANGED recordingVars
  BY <1>8 DEF recordingVars
<1> QED
  BY <1>1, <1>2, <1>3, <1>4, <1>5, <1>6, <1>7, <1>8 DEF RecordingNext, HandlerStep

\* Whatever the handlers, the capture thread and a detach do, nothing is left open
\* in the recorder between two recordings.
THEOREM RecordingLeavesNothing == RecordingSpec => []CleanBetween
<1>1. RecordingInit => TypeInv /\ CleanInv
  BY TypeInit, CleanInit DEF RecordingInit
<1>2. TypeInv /\ CleanInv /\ [RecordingNext]_recordingVars => (TypeInv /\ CleanInv)'
  BY RecorderSteps, TypeStep, CleanStep
<1> QED
  BY <1>1, <1>2, CleanImplies, PTL DEF RecordingSpec

-----------------------------------------------------------------------------
(* The capture thread, its window and its holder.                          *)

\* No capture thread runs.
Quiet == \A s \in Session : capture[s] \in {"none", "done"}

\* The native side in type, without the upper bound of refs.
NativeType ==
    /\ call \in {"idle", "start", "stop", "stopping",
                 "avail", "find", "join", "install", "drop", "destroy"}
    /\ window \in Ref
    /\ m_recording_window \in Ref
    /\ capture \in [Session -> {"none", "test", "frame", "lock", "locked", "done"}]
    /\ refs \in [Session -> Nat]

\* Who may still get at the holder: the USB thread from the detach to its
\* destructor, and the handler that has a shared_ptr.  The two never destroy it both.
HolderLives ==
    /\ usb # "idle" => holder = "orphan"
    /\ call \in {"join", "install", "drop"} => holder # "none" /\ usb # "destroy"
    /\ call = "destroy" => holder = "orphan" /\ usb = "idle"

\* The holder has a reference to its window, and a capture thread that runs is the
\* one of that window.  Who has asked it to end joins it before anything else.
CaptureOwned ==
    /\ m_recording_window # None => refs[m_recording_window] > 0
    /\ ~Quiet => holder # "none"
    /\ \A s \in Session : capture[s] \notin {"none", "done"} => m_recording_window = s
    /\ call = "install" => Quiet
    /\ (~m_recording_active /\ call \notin {"join", "destroy"} /\ usb # "destroy") => Quiet

\* stopRecording: what the disconnected surface leaves is quiet until the answer.
Disconnected ==
    /\ call \in {"stop", "stopping"} => window = None
    /\ call = "find" => ~set
    /\ (call \in {"drop", "destroy", "stop", "stopping"} /\ window = None /\ set) => Quiet
    /\ main = "eos" => call = "stopping"

CaptureInv == NativeType /\ HolderLives /\ CaptureOwned /\ Disconnected

LEMMA CaptureInit == RecordingInit => CaptureInv
BY Refs DEF RecordingInit, Init, CaptureInv, NativeType, HolderLives, CaptureOwned,
            Disconnected, Quiet

\* Steps that concern neither the handlers nor the native side.
LEMMA CaptureFrame ==
    ASSUME CaptureInv, UNCHANGED <<handlerVars, nativeVars>>, main' = "eos" => main = "eos"
    PROVE  CaptureInv'
BY DEF CaptureInv, NativeType, HolderLives, CaptureOwned, Disconnected, Quiet,
       handlerVars, nativeVars, holderVars

\* Nothing but stopRecording asks for the end of the stream.
LEMMA NoEos ==
    ASSUME RecorderStep \/ \E s \in Session : Draw(s) PROVE main' = "eos" => main = "eos"
BY DEF RecorderStep, MainStep, CreateCodec, CreateMuxer, Go, SignalEndOfInputStream, Sleep,
       CleanupCodec, CleanupMuxer, DrainStep, Test, ReadCodec, Dequeue, AddTrack,
       StartMuxer, MuxerIsStarted, WriteBuffer, Encode, Draw, Goto, callVars

\* A destructor goes on when the thread of its window has ended, and no other runs.
LEMMA DestroyQuiet == CaptureInv /\ Destroy => Quiet
BY Refs DEF CaptureInv, CaptureOwned, Destroy, Quiet

\* Giving back a reference to the window of the holder leaves its counts in type.
LEMMA ReleasedType == CaptureInv => Released(refs) \in [Session -> Nat]
<1> SUFFICES ASSUME CaptureInv PROVE Released(refs) \in [Session -> Nat]
  OBVIOUS
<1>1. CASE m_recording_window = None
  BY <1>1 DEF CaptureInv, NativeType, Released
<1>2. CASE m_recording_window # None
  <2>1. refs[m_recording_window] \in Nat /\ refs[m_recording_window] > 0
    BY <1>2, Refs DEF CaptureInv, NativeType, CaptureOwned
  <2>2. refs[m_recording_window] - 1 \in Nat
    BY <2>1
  <2> QED
    BY <1>2, <2>2 DEF CaptureInv, NativeType, Released
<1> QED
  BY <1>1, <1>2

LEMMA CaptureStepInv == TypeInv /\ CaptureInv /\ [RecordingNext]_recordingVars => CaptureInv'
<1> SUFFICES ASSUME TypeInv, CaptureInv, [RecordingNext]_recordingVars PROVE CaptureInv'
  OBVIOUS
<1> USE Refs DEF CaptureInv
<1>1. CASE HandleStart
  <2> USE DEF HandleStart, StartRecording, Goto, vars, callVars, handlerVars, holderVars,
              nativeVars
  <2>1. NativeType'
    BY <1>1 DEF NativeType
  <2>2. HolderLives'
    BY <1>1 DEF HolderLives
  <2>3. CaptureOwned'
    BY <1>1 DEF CaptureOwned, HolderLives, NativeType, Quiet
  <2>4. Disconnected'
    BY <1>1 DEF Disconnected, CaptureOwned, Quiet
  <2> QED
    BY <2>1, <2>2, <2>3, <2>4
<1>2. CASE HandleStop
  <2> USE DEF HandleStop, vars, callVars, handlerVars, holderVars, nativeVars
  <2>1. NativeType'
    BY <1>2 DEF NativeType
  <2>2. HolderLives'
    BY <1>2 DEF HolderLives
  <2>3. CaptureOwned'
    BY <1>2 DEF CaptureOwned, HolderLives, NativeType, Quiet
  <2>4. Disconnected'
    BY <1>2 DEF Disconnected, CaptureOwned, Quiet
  <2> QED
    BY <2>1, <2>2, <2>3, <2>4
<1>3. CASE Started
  <2> USE DEF Started, vars, callVars, handlerVars, holderVars, nativeVars
  <2>1. NativeType'
    BY <1>3 DEF NativeType, TypeInv, PlatformType
  <2>2. HolderLives'
    BY <1>3 DEF HolderLives
  <2>3. CaptureOwned'
    BY <1>3 DEF CaptureOwned, HolderLives, NativeType, Quiet
  <2>4. Disconnected'
    BY <1>3 DEF Disconnected, CaptureOwned, Quiet
  <2> QED
    BY <2>1, <2>2, <2>3, <2>4
<1>4. CASE StopTheRecorder
  <2> USE DEF StopTheRecorder, StopRecording, Goto, vars, callVars, handlerVars,
              holderVars, nativeVars
  <2>1. NativeType'
    BY <1>4 DEF NativeType
  <2>2. HolderLives'
    BY <1>4 DEF HolderLives
  <2>3. CaptureOwned'
    BY <1>4 DEF CaptureOwned, HolderLives, NativeType, Quiet
  <2>4. Disconnected'
    BY <1>4 DEF Disconnected, CaptureOwned, Quiet
  <2> QED
    BY <2>1, <2>2, <2>3, <2>4
<1>5. CASE Stopped
  <2> USE DEF Stopped, vars, callVars, handlerVars, holderVars, nativeVars
  <2>1. NativeType'
    BY <1>5 DEF NativeType
  <2>2. HolderLives'
    BY <1>5 DEF HolderLives
  <2>3. CaptureOwned'
    BY <1>5 DEF CaptureOwned, HolderLives, NativeType, Quiet
  <2>4. Disconnected'
    BY <1>5 DEF Disconnected, CaptureOwned, Quiet
  <2> QED
    BY <2>1, <2>2, <2>3, <2>4
<1>6. CASE Available
  <2> USE DEF Available, NativeReturn, vars, callVars, handlerVars, holderVars, nativeVars
  <2>1. NativeType'
    BY <1>6 DEF NativeType
  <2>2. HolderLives'
    BY <1>6 DEF HolderLives
  <2>3. CaptureOwned'
    BY <1>6 DEF CaptureOwned, HolderLives, NativeType, Quiet
  <2>4. Disconnected'
    BY <1>6 DEF Disconnected, CaptureOwned, Quiet
  <2> QED
    BY <2>1, <2>2, <2>3, <2>4
<1>7. CASE FindHolder
  <2> USE DEF FindHolder, NativeReturn, vars, callVars, handlerVars, holderVars, nativeVars
  <2>1. NativeType'
    BY <1>7 DEF NativeType
  <2>2. HolderLives'
    BY <1>7 DEF HolderLives
  <2>3. CaptureOwned'
    BY <1>7 DEF CaptureOwned, HolderLives, NativeType, Quiet
  <2>4. Disconnected'
    BY <1>7 DEF Disconnected, CaptureOwned, Quiet
  <2> QED
    BY <2>1, <2>2, <2>3, <2>4
<1>8. CASE Join
  <2> USE DEF Join, vars, callVars, handlerVars, holderVars, nativeVars
  <2>1. NativeType'
    BY <1>8 DEF NativeType
  <2>2. HolderLives'
    BY <1>8 DEF HolderLives
  <2>3. CaptureOwned'
    BY <1>8 DEF CaptureOwned, HolderLives, NativeType, Quiet
  <2>4. Disconnected'
    BY <1>8 DEF Disconnected, CaptureOwned, Quiet
  <2> QED
    BY <2>1, <2>2, <2>3, <2>4
<1>9. CASE InstallWindow
  <2> USE DEF InstallWindow, CaptureTo, vars, callVars, handlerVars, holderVars, nativeVars
  <2>1. NativeType'
    BY <1>9, ReleasedType DEF NativeType
  <2>2. HolderLives'
    BY <1>9, ReleasedType DEF HolderLives
  <2>3. CaptureOwned'
    BY <1>9, ReleasedType DEF CaptureOwned, HolderLives, NativeType, Quiet
  <2>4. Disconnected'
    BY <1>9, ReleasedType DEF Disconnected, CaptureOwned, Quiet
  <2> QED
    BY <2>1, <2>2, <2>3, <2>4
<1>10. CASE Drop
  <2> USE DEF Drop, NativeReturn, vars, callVars, handlerVars, holderVars, nativeVars
  <2>1. NativeType'
    BY <1>10 DEF NativeType
  <2>2. HolderLives'
    BY <1>10 DEF HolderLives
  <2>3. CaptureOwned'
    BY <1>10 DEF CaptureOwned, HolderLives, NativeType, Quiet
  <2>4. Disconnected'
    BY <1>10 DEF Disconnected, CaptureOwned, Quiet
  <2> QED
    BY <2>1, <2>2, <2>3, <2>4
<1>11. CASE HandlerDestroys
  <2> USE DEF HandlerDestroys, Destroy, NativeReturn, vars, callVars, handlerVars,
              holderVars, nativeVars
  <2>1. NativeType'
    BY <1>11, DestroyQuiet, ReleasedType DEF NativeType
  <2>2. HolderLives'
    BY <1>11, DestroyQuiet, ReleasedType DEF HolderLives
  <2>3. CaptureOwned'
    BY <1>11, DestroyQuiet, ReleasedType DEF CaptureOwned, HolderLives, NativeType, Quiet
  <2>4. Disconnected'
    BY <1>11, DestroyQuiet, ReleasedType DEF Disconnected, CaptureOwned, Quiet
  <2> QED
    BY <2>1, <2>2, <2>3, <2>4
<1>12. CASE Attach
  <2> USE DEF Attach, vars, callVars, handlerVars, holderVars, nativeVars
  <2>1. NativeType'
    BY <1>12 DEF NativeType
  <2>2. HolderLives'
    BY <1>12 DEF HolderLives
  <2>3. CaptureOwned'
    BY <1>12 DEF CaptureOwned, HolderLives, NativeType, Quiet
  <2>4. Disconnected'
    BY <1>12 DEF Disconnected, CaptureOwned, Quiet
  <2> QED
    BY <2>1, <2>2, <2>3, <2>4
<1>13. CASE Detach
  <2> USE DEF Detach, vars, callVars, handlerVars, holderVars, nativeVars
  <2>1. NativeType'
    BY <1>13 DEF NativeType
  <2>2. HolderLives'
    BY <1>13 DEF HolderLives
  <2>3. CaptureOwned'
    BY <1>13 DEF CaptureOwned, HolderLives, NativeType, Quiet
  <2>4. Disconnected'
    BY <1>13 DEF Disconnected, CaptureOwned, Quiet
  <2> QED
    BY <2>1, <2>2, <2>3, <2>4
<1>14. CASE Forget
  <2> USE DEF Forget, vars, callVars, handlerVars, holderVars, nativeVars
  <2>1. NativeType'
    BY <1>14 DEF NativeType
  <2>2. HolderLives'
    BY <1>14 DEF HolderLives
  <2>3. CaptureOwned'
    BY <1>14 DEF CaptureOwned, HolderLives, NativeType, Quiet
  <2>4. Disconnected'
    BY <1>14 DEF Disconnected, CaptureOwned, Quiet
  <2> QED
    BY <2>1, <2>2, <2>3, <2>4
<1>15. CASE UsbDestroys
  <2> USE DEF UsbDestroys, Destroy, vars, callVars, handlerVars, holderVars, nativeVars
  <2>1. NativeType'
    BY <1>15, DestroyQuiet, ReleasedType DEF NativeType
  <2>2. HolderLives'
    BY <1>15, DestroyQuiet, ReleasedType DEF HolderLives
  <2>3. CaptureOwned'
    BY <1>15, DestroyQuiet, ReleasedType DEF CaptureOwned, HolderLives, NativeType, Quiet
  <2>4. Disconnected'
    BY <1>15, DestroyQuiet, ReleasedType DEF Disconnected, CaptureOwned, Quiet
  <2> QED
    BY <2>1, <2>2, <2>3, <2>4
<1>16. CASE Recorder
  BY <1>16, CaptureFrame, NoEos DEF Recorder
<1>17. ASSUME NEW s \in Session, CaptureStep(s) PROVE CaptureInv'
  <2>1. /\ UNCHANGED <<handlerVars, holderVars, refs>>
        /\ main' = "eos" => main = "eos"
    BY <1>17, NoEos DEF CaptureStep, LoopTest, GetFrame, LockWindow, PostFrame, vars,
                        callVars
  <2>2. /\ capture[s] \in {"test", "frame", "lock", "locked"}
        /\ \E l \in {"test", "frame", "lock", "locked", "done"} :
               capture' = [capture EXCEPT ![s] = l]
    BY <1>17 DEF CaptureStep, LoopTest, GetFrame, LockWindow, PostFrame, CaptureTo
  <2>3. NativeType'
    BY <2>1, <2>2 DEF NativeType, handlerVars, holderVars
  <2>4. HolderLives'
    BY <2>1 DEF HolderLives, handlerVars, holderVars
  <2>5. ~Quiet
    BY <2>2 DEF Quiet
  <2>6. \A u \in Session : capture[u] \in {"none", "done"} => capture'[u] = capture[u]
    BY <2>2 DEF NativeType
  <2>7. CaptureOwned'
    BY <2>1, <2>5, <2>6 DEF CaptureOwned, Quiet, handlerVars, holderVars
  <2>8. Disconnected'
    BY <2>1, <2>5 DEF Disconnected, handlerVars, holderVars
  <2> QED
    BY <2>3, <2>4, <2>7, <2>8
<1>18. CASE UNCHANGED recordingVars
  BY <1>18, CaptureFrame DEF recordingVars, vars, callVars
<1> QED
  BY <1>1, <1>2, <1>3, <1>4, <1>5, <1>6, <1>7, <1>8, <1>9, <1>10, <1>11, <1>12, <1>13,
     <1>14, <1>15, <1>16, <1>17, <1>18 DEF RecordingNext, HandlerStep, UsbStep

LEMMA CaptureInductive == RecordingSpec => [](TypeInv /\ CaptureInv)
<1>1. RecordingInit => TypeInv /\ CaptureInv
  BY TypeInit, CaptureInit DEF RecordingInit
<1>2. TypeInv /\ CaptureInv /\ [RecordingNext]_recordingVars => (TypeInv /\ CaptureInv)'
  BY RecorderSteps, TypeStep, CaptureStepInv
<1> QED
  BY <1>1, <1>2, PTL DEF RecordingSpec

\* A capture thread that is past its test has its holder, its window and a reference
\* to it, though the device may be detached at any time.
THEOREM CaptureBacked == RecordingSpec => []CaptureIsBacked
<1>1. CaptureInv => CaptureIsBacked
  BY Refs DEF CaptureInv, CaptureOwned, CaptureIsBacked, Quiet
<1> QED
  BY <1>1, CaptureInductive, PTL

\* Nothing draws when the end of the stream is signalled, if the handler reached the
\* native side.
THEOREM QuietAtEos == RecordingSpec => []QuietBeforeEos
<1>1. CaptureInv => QuietBeforeEos
  BY DEF CaptureInv, Disconnected, QuietBeforeEos, Quiet
<1> QED
  BY <1>1, CaptureInductive, PTL

-----------------------------------------------------------------------------
(* Recording implements RecordingService if ~MayThrow: a muxer in order    *)
(* whose stop() throws leaves a file that is not complete.                 *)

\* The phases of the native call.
Native == {"avail", "find", "join", "install", "drop", "destroy"}

\* Which call the platform thread's phases belong to.
CallPhases ==
    /\ main \in {"codec", "muxer", "go"} => call = "start"
    /\ main \in {"eos", "sleep"} => call = "stopping"
    /\ main # "idle" => call \in {"start", "stopping"}

\* The muxer of the recording in progress is that of the latest attempt, and later
\* attempts have none.
MuxerOfSession ==
    /\ isRecording => session \in Session /\ mediaMuxer = session /\ encoderSurface # None
    /\ main = "go" => mediaMuxer = session /\ encoderSurface # None
    /\ main = "muxer" => encoderSurface # None
    /\ main \in {"codec", "muxer"} => muxer[session] = "none"
    /\ \A s \in Session : s > session => muxer[s] = "none"
    /\ \A s \in Session : mediaMuxer = s => muxer[s] # "closed"

\* What the answer will be, and what it says.
AnswerTrue ==
    /\ (call = "start" /\ main \in {"cleanup", "closing"}) =>
            reply = "failed" /\ mediaMuxer = None
    /\ (call = "start" /\ main = "idle") =>
            reply \in (IF isRecording THEN {"ok", "busy"} ELSE {"failed"})
    /\ (call \in Native /\ window # None) => isRecording /\ reply = "ok"
    /\ (call = "stopping" /\ main # "idle") => session \in Session /\ mediaMuxer = session
    /\ (call = "stopping" /\ main \in {"cleanup", "closing"}) => reply = "path"
    /\ (call = "stopping" /\ main = "idle") =>
            /\ ~isRecording
            /\ \/ reply = "null"
               \/ /\ reply = "path" /\ session \in Session
                  /\ MayThrow \/ muxer[session] = "closed"

AnswerInv == CallPhases /\ MuxerOfSession /\ AnswerTrue

LEMMA AnswerInit == RecordingInit => AnswerInv
BY Refs DEF RecordingInit, Init, AnswerInv, CallPhases, MuxerOfSession, AnswerTrue, Native

\* Of these alone AnswerInv speaks, and the refinement mapping.
answerVars == <<isRecording, mediaMuxer, encoderSurface, session, main, reply, muxer,
call, window>>

LEMMA AnswerFrame == ASSUME AnswerInv, UNCHANGED answerVars PROVE AnswerInv'
BY DEF AnswerInv, CallPhases, MuxerOfSession, AnswerTrue, Native, answerVars

\* The encoder's and the capture thread's steps, and the USB thread's, but for those
\* that give the muxer its track and start it.
Aside ==
    \/ \E s \in Session :
          \/ Test(s) \/ ReadCodec(s) \/ Dequeue(s) \/ MuxerIsStarted(s) \/ WriteBuffer(s)
          \/ Encode(s) \/ Draw(s)
    \/ UNCHANGED vars

LEMMA AsideFrame ==
    ASSUME Aside, UNCHANGED <<call, window>> PROVE UNCHANGED answerVars
BY DEF Aside, Test, ReadCodec, Dequeue, MuxerIsStarted, WriteBuffer, Encode, Draw,
       answerVars,
       vars, fieldVars, callVars, codecVars

\* What the encoder thread does to the muxer, which is not closed.
LEMMA MuxerStarts ==
    ASSUME TypeInv, AnswerInv, NEW s \in Session, AddTrack(s) \/ StartMuxer(s)
    PROVE  /\ UNCHANGED <<isRecording, mediaMuxer, encoderSurface, session, main, reply>>
           /\ \A u \in Session : /\ muxer'[u] = "closed" <=> muxer[u] = "closed"
                                 /\ muxer[u] = "none" <=> muxer'[u] = "none"
<1>1. UNCHANGED <<isRecording, mediaMuxer, encoderSurface, session, main, reply>>
  BY DEF AddTrack, StartMuxer, fieldVars, callVars
<1>2. \/ UNCHANGED muxer
      \/ /\ mediaMuxer # None /\ muxer[mediaMuxer] \in {"open", "tracked"}
         /\ \E m \in {"tracked", "started"} : muxer' = [muxer EXCEPT ![mediaMuxer] = m]
  BY DEF AddTrack, StartMuxer, MuxerTo
<1> QED
  BY <1>1, <1>2 DEF TypeInv, CodecType

LEMMA AnswerStep ==
    TypeInv /\ CleanInv /\ AnswerInv /\ [RecordingNext]_recordingVars => AnswerInv'
<1> SUFFICES ASSUME TypeInv, CleanInv, AnswerInv,
[RecordingNext]_recordingVars PROVE AnswerInv'
  OBVIOUS
<1> USE Refs DEF AnswerInv, Native
<1>1. CASE HandleStart
  <2> USE DEF HandleStart, StartRecording, Goto, vars, callVars, fieldVars
  <2>1. CallPhases'
    BY <1>1 DEF CallPhases, AnswerTrue
  <2>2. MuxerOfSession'
    <3>1. UNCHANGED <<isRecording, mediaMuxer, encoderSurface, muxer>>
      BY <1>1
    <3>2. CASE isRecording
      BY <1>1, <3>2 DEF MuxerOfSession
    <3>3. CASE ~isRecording
      <4>1. /\ session' = session + 1 /\ session' \in Session
            /\ main' = "codec" /\ mediaMuxer = None
        BY <1>1, <3>3 DEF TypeInv, PlatformType, CleanInv, Phases
      <4>2. session \in Nat /\ session' > session
        BY <4>1, RecorderAssumption DEF TypeInv, PlatformType
      <4>3. muxer[session'] = "none"
        BY <4>1, <4>2 DEF MuxerOfSession
      <4>4. \A s \in Session : s > session' => muxer[s] = "none"
        BY <4>1, <4>2 DEF MuxerOfSession, Session
      <4> QED
        BY <3>1, <3>3, <4>1, <4>3, <4>4 DEF MuxerOfSession
    <3> QED
      BY <3>2, <3>3
  <2>3. AnswerTrue'
    BY <1>1 DEF AnswerTrue, CallPhases, MuxerOfSession, CleanInv, Phases, TypeInv,
                PlatformType, StartNumbered, CodecType
  <2> QED
    BY <2>1, <2>2, <2>3
<1>2. CASE HandleStop
  <2> USE DEF HandleStop, vars, callVars, fieldVars
  <2>1. CallPhases'
    BY <1>2 DEF CallPhases, AnswerTrue
  <2>2. MuxerOfSession'
    BY <1>2 DEF MuxerOfSession, CallPhases, AnswerTrue, CleanInv, Phases, TypeInv,
                PlatformType, StartNumbered, CodecType
  <2>3. AnswerTrue'
    BY <1>2 DEF AnswerTrue, CallPhases, MuxerOfSession, CleanInv, Phases, TypeInv,
                PlatformType, StartNumbered, CodecType
  <2> QED
    BY <2>1, <2>2, <2>3
<1>3. CASE Started
  <2> USE DEF Started, vars, callVars, fieldVars
  <2>1. CallPhases'
    BY <1>3 DEF CallPhases, AnswerTrue
  <2>2. MuxerOfSession'
    BY <1>3 DEF MuxerOfSession, CallPhases, AnswerTrue, CleanInv, Phases, TypeInv,
                PlatformType, StartNumbered, CodecType
  <2>3. AnswerTrue'
    BY <1>3 DEF AnswerTrue, CallPhases, MuxerOfSession, CleanInv, Phases, TypeInv,
                PlatformType, StartNumbered, CodecType
  <2> QED
    BY <2>1, <2>2, <2>3
<1>4. CASE StopTheRecorder
  <2> USE DEF StopTheRecorder, StopRecording, Goto, vars, callVars, fieldVars
  <2>1. CallPhases'
    BY <1>4 DEF CallPhases, AnswerTrue
  <2>2. MuxerOfSession'
    BY <1>4 DEF MuxerOfSession, CallPhases, AnswerTrue, CleanInv, Phases, TypeInv,
                PlatformType, StartNumbered, CodecType
  <2>3. AnswerTrue'
    BY <1>4 DEF AnswerTrue, CallPhases, MuxerOfSession, CleanInv, Phases, TypeInv,
                PlatformType, StartNumbered, CodecType
  <2> QED
    BY <2>1, <2>2, <2>3
<1>5. CASE Stopped
  <2> USE DEF Stopped, vars, callVars, fieldVars
  <2>1. CallPhases'
    BY <1>5 DEF CallPhases, AnswerTrue
  <2>2. MuxerOfSession'
    BY <1>5 DEF MuxerOfSession, CallPhases, AnswerTrue, CleanInv, Phases, TypeInv,
                PlatformType, StartNumbered, CodecType
  <2>3. AnswerTrue'
    BY <1>5 DEF AnswerTrue, CallPhases, MuxerOfSession, CleanInv, Phases, TypeInv,
                PlatformType, StartNumbered, CodecType
  <2> QED
    BY <2>1, <2>2, <2>3
<1>6. CASE Available
  <2> USE DEF Available, NativeReturn, vars, callVars, fieldVars
  <2>1. CallPhases'
    BY <1>6 DEF CallPhases, AnswerTrue
  <2>2. MuxerOfSession'
    BY <1>6 DEF MuxerOfSession, CallPhases, AnswerTrue, CleanInv, Phases, TypeInv,
                PlatformType, StartNumbered, CodecType
  <2>3. AnswerTrue'
    BY <1>6 DEF AnswerTrue, CallPhases, MuxerOfSession, CleanInv, Phases, TypeInv,
                PlatformType, StartNumbered, CodecType
  <2> QED
    BY <2>1, <2>2, <2>3
<1>7. CASE FindHolder
  <2> USE DEF FindHolder, NativeReturn, vars, callVars, fieldVars
  <2>1. CallPhases'
    BY <1>7 DEF CallPhases, AnswerTrue
  <2>2. MuxerOfSession'
    BY <1>7 DEF MuxerOfSession, CallPhases, AnswerTrue, CleanInv, Phases, TypeInv,
                PlatformType, StartNumbered, CodecType
  <2>3. AnswerTrue'
    BY <1>7 DEF AnswerTrue, CallPhases, MuxerOfSession, CleanInv, Phases, TypeInv,
                PlatformType, StartNumbered, CodecType
  <2> QED
    BY <2>1, <2>2, <2>3
<1>8. CASE Join
  <2> USE DEF Join, vars, callVars, fieldVars
  <2>1. CallPhases'
    BY <1>8 DEF CallPhases, AnswerTrue
  <2>2. MuxerOfSession'
    BY <1>8 DEF MuxerOfSession, CallPhases, AnswerTrue, CleanInv, Phases, TypeInv,
                PlatformType, StartNumbered, CodecType
  <2>3. AnswerTrue'
    BY <1>8 DEF AnswerTrue, CallPhases, MuxerOfSession, CleanInv, Phases, TypeInv,
                PlatformType, StartNumbered, CodecType
  <2> QED
    BY <2>1, <2>2, <2>3
<1>9. CASE InstallWindow
  <2> USE DEF InstallWindow, vars, callVars, fieldVars
  <2>1. CallPhases'
    BY <1>9 DEF CallPhases, AnswerTrue
  <2>2. MuxerOfSession'
    BY <1>9 DEF MuxerOfSession, CallPhases, AnswerTrue, CleanInv, Phases, TypeInv,
                PlatformType, StartNumbered, CodecType
  <2>3. AnswerTrue'
    BY <1>9 DEF AnswerTrue, CallPhases, MuxerOfSession, CleanInv, Phases, TypeInv,
                PlatformType, StartNumbered, CodecType
  <2> QED
    BY <2>1, <2>2, <2>3
<1>10. CASE Drop
  <2> USE DEF Drop, NativeReturn, vars, callVars, fieldVars
  <2>1. CallPhases'
    BY <1>10 DEF CallPhases, AnswerTrue
  <2>2. MuxerOfSession'
    BY <1>10 DEF MuxerOfSession, CallPhases, AnswerTrue, CleanInv, Phases, TypeInv,
                 PlatformType, StartNumbered, CodecType
  <2>3. AnswerTrue'
    BY <1>10 DEF AnswerTrue, CallPhases, MuxerOfSession, CleanInv, Phases, TypeInv,
                 PlatformType, StartNumbered, CodecType
  <2> QED
    BY <2>1, <2>2, <2>3
<1>11. CASE HandlerDestroys
  <2> USE DEF HandlerDestroys, Destroy, NativeReturn, vars, callVars, fieldVars
  <2>1. CallPhases'
    BY <1>11 DEF CallPhases, AnswerTrue
  <2>2. MuxerOfSession'
    BY <1>11 DEF MuxerOfSession, CallPhases, AnswerTrue, CleanInv, Phases, TypeInv,
                 PlatformType, StartNumbered, CodecType
  <2>3. AnswerTrue'
    BY <1>11 DEF AnswerTrue, CallPhases, MuxerOfSession, CleanInv, Phases, TypeInv,
                 PlatformType, StartNumbered, CodecType
  <2> QED
    BY <2>1, <2>2, <2>3
<1>12. CASE CreateCodec /\ UNCHANGED <<call, window>>
  <2> USE DEF CreateCodec, Goto, fieldVars, codecVars
  <2>1. CallPhases'
    BY <1>12 DEF CallPhases, AnswerTrue
  <2>2. MuxerOfSession'
    BY <1>12 DEF MuxerOfSession, CallPhases, AnswerTrue, CleanInv, Phases, TypeInv,
                 PlatformType, StartNumbered, CodecType
  <2>3. AnswerTrue'
    BY <1>12 DEF AnswerTrue, CallPhases, MuxerOfSession, CleanInv, Phases, TypeInv,
                 PlatformType, StartNumbered, CodecType
  <2> QED
    BY <2>1, <2>2, <2>3
<1>13. CASE CreateMuxer /\ UNCHANGED <<call, window>>
  <2> USE DEF CreateMuxer, Goto, fieldVars, codecVars
  <2>1. CallPhases'
    BY <1>13 DEF CallPhases, AnswerTrue
  <2>2. MuxerOfSession'
    BY <1>13 DEF MuxerOfSession, CallPhases, AnswerTrue, CleanInv, Phases, TypeInv,
                 PlatformType, StartNumbered, CodecType
  <2>3. AnswerTrue'
    BY <1>13 DEF AnswerTrue, CallPhases, MuxerOfSession, CleanInv, Phases, TypeInv,
                 PlatformType, StartNumbered, CodecType
  <2> QED
    BY <2>1, <2>2, <2>3
<1>14. CASE Go /\ UNCHANGED <<call, window>>
  <2> USE DEF Go, Goto, fieldVars, codecVars
  <2>1. CallPhases'
    BY <1>14 DEF CallPhases, AnswerTrue
  <2>2. MuxerOfSession'
    BY <1>14 DEF MuxerOfSession, CallPhases, AnswerTrue, CleanInv, Phases, TypeInv,
                 PlatformType, StartNumbered, CodecType
  <2>3. AnswerTrue'
    BY <1>14 DEF AnswerTrue, CallPhases, MuxerOfSession, CleanInv, Phases, TypeInv,
                 PlatformType, StartNumbered, CodecType
  <2> QED
    BY <2>1, <2>2, <2>3
<1>15. CASE SignalEndOfInputStream /\ UNCHANGED <<call, window>>
  <2> USE DEF SignalEndOfInputStream, Goto, fieldVars, codecVars
  <2>1. CallPhases'
    BY <1>15 DEF CallPhases, AnswerTrue
  <2>2. MuxerOfSession'
    BY <1>15 DEF MuxerOfSession, CallPhases, AnswerTrue, CleanInv, Phases, TypeInv,
                 PlatformType, StartNumbered, CodecType
  <2>3. AnswerTrue'
    BY <1>15 DEF AnswerTrue, CallPhases, MuxerOfSession, CleanInv, Phases, TypeInv,
                 PlatformType, StartNumbered, CodecType
  <2> QED
    BY <2>1, <2>2, <2>3
<1>16. CASE Sleep /\ UNCHANGED <<call, window>>
  <2> USE DEF Sleep, Goto, fieldVars, codecVars
  <2>1. CallPhases'
    BY <1>16 DEF CallPhases, AnswerTrue
  <2>2. MuxerOfSession'
    BY <1>16 DEF MuxerOfSession, CallPhases, AnswerTrue, CleanInv, Phases, TypeInv,
                 PlatformType, StartNumbered, CodecType
  <2>3. AnswerTrue'
    BY <1>16 DEF AnswerTrue, CallPhases, MuxerOfSession, CleanInv, Phases, TypeInv,
                 PlatformType, StartNumbered, CodecType
  <2> QED
    BY <2>1, <2>2, <2>3
<1>17. CASE CleanupCodec /\ UNCHANGED <<call, window>>
  <2> USE DEF CleanupCodec, Goto, fieldVars, codecVars
  <2>1. CallPhases'
    BY <1>17 DEF CallPhases, AnswerTrue
  <2>2. MuxerOfSession'
    BY <1>17 DEF MuxerOfSession, CallPhases, AnswerTrue, CleanInv, Phases, TypeInv,
                 PlatformType, StartNumbered, CodecType
  <2>3. AnswerTrue'
    BY <1>17 DEF AnswerTrue, CallPhases, MuxerOfSession, CleanInv, Phases, TypeInv,
                 PlatformType, StartNumbered, CodecType
  <2> QED
    BY <2>1, <2>2, <2>3
<1>18. CASE CleanupMuxer /\ UNCHANGED <<call, window>>
  <2> USE DEF CleanupMuxer, Goto, fieldVars, codecVars
  <2>1. CallPhases'
    BY <1>18 DEF CallPhases, AnswerTrue
  <2>2. MuxerOfSession'
    BY <1>18 DEF MuxerOfSession, CallPhases, AnswerTrue, CleanInv, Phases, TypeInv,
                 PlatformType, StartNumbered, CodecType
  <2>3. AnswerTrue'
    BY <1>18 DEF AnswerTrue, CallPhases, MuxerOfSession, CleanInv, Phases, TypeInv,
                 PlatformType, StartNumbered, CodecType
  <2> QED
    BY <2>1, <2>2, <2>3
<1>19. ASSUME NEW s \in Session, AddTrack(s) \/ StartMuxer(s), UNCHANGED <<call, window>> PROVE AnswerInv'
  BY <1>19, MuxerStarts DEF CallPhases, MuxerOfSession, AnswerTrue, TypeInv, PlatformType,
                       StartNumbered
<1>20. CASE Aside /\ UNCHANGED <<call, window>>
  BY <1>20, AsideFrame, AnswerFrame
<1>21. CASE Attach \/ Detach \/ UsbStep
  <2>1. UNCHANGED <<vars, call, window>>
    BY <1>21 DEF Attach, Detach, UsbStep, Forget, UsbDestroys, Destroy, handlerVars
  <2> QED
    BY <2>1, AsideFrame, AnswerFrame DEF Aside
<1>22. ASSUME NEW s \in Session, CaptureStep(s) PROVE AnswerInv'
  <2>1. (Draw(s) \/ UNCHANGED vars) /\ UNCHANGED <<call, window>>
    BY <1>22 DEF CaptureStep, LoopTest, GetFrame, LockWindow, PostFrame, handlerVars
  <2> QED
    BY <2>1, AsideFrame, AnswerFrame DEF Aside
<1>23. CASE Recorder
  <2>1. UNCHANGED <<call, window>>
    BY <1>23 DEF Recorder, handlerVars
  <2> QED
    BY <1>23, <2>1, <1>12, <1>13, <1>14, <1>15, <1>16, <1>17, <1>18, <1>19, <1>20
       DEF Recorder, RecorderStep, MainStep, DrainStep, Aside
<1>24. CASE UNCHANGED recordingVars
  BY <1>24, AsideFrame, AnswerFrame DEF recordingVars, handlerVars, Aside
<1> QED
  BY <1>1, <1>2, <1>3, <1>4, <1>5, <1>6, <1>7, <1>8, <1>9, <1>10, <1>11,
     <1>21, <1>22, <1>23, <1>24 DEF RecordingNext, HandlerStep

\* The file at each path, as the refinement mapping has it.
File == [s \in Session |->
            IF s = recording THEN "growing"
            ELSE IF muxer[s] = "closed" THEN "complete" ELSE "none"]

\* The mapping of the recording in progress, by the phases of a call.
LEMMA RecordingInStart ==
    (call = "start" \/ (call \in Native /\ window # None)) =>
        recording = IF main = "idle" /\ reply = "busy" THEN mediaMuxer ELSE None
BY DEF recording, Native

LEMMA RecordingInStop ==
    call = "stopping" => recording = IF main # "idle" \/ reply = "path" THEN session ELSE None
BY DEF recording

LEMMA RecordingElse ==
    (call \in {"idle",
    "stop"} \/ (call \in Native /\ window = None)) => recording = mediaMuxer
BY DEF recording, Native

\* Steps that change neither, by what they do to the muxers.
LEMMA FileStays ==
    ASSUME recording' = recording,
           \A u \in Session : u # recording => (muxer'[u] = "closed" <=> muxer[u] = "closed")
    PROVE  UNCHANGED <<recording, File>>
BY DEF File

LEMMA MappingFrame == ASSUME UNCHANGED answerVars PROVE UNCHANGED <<recording, File>>
<1>1. recording' = recording
  BY DEF recording, answerVars
<1>2. muxer' = muxer
  BY DEF answerVars
<1> QED
  BY <1>1, <1>2, FileStays

\* The handler returns, and the channel answers the call.
Answering == call # "idle" /\ call' = "idle"

\* A step that does not answer is none of RecordingService's.
LEMMA Unanswered ==
    ASSUME TypeInv, CleanInv, AnswerInv, [RecordingNext]_recordingVars, ~Answering
    PROVE  UNCHANGED <<recording, File>>
<1> USE Refs DEF AnswerInv, Answering
<1>1. CASE HandleStart
  <2>1. UNCHANGED muxer
    BY <1>1 DEF HandleStart, StartRecording, Goto, vars
  <2>2. recording' = recording
    BY <1>1 DEF HandleStart, StartRecording, Goto, vars, fieldVars, callVars, recording,
                Native, CallPhases, MuxerOfSession,
                  AnswerTrue, CleanInv, Phases
  <2> QED
    BY <2>1, <2>2, FileStays
<1>2. CASE HandleStop
  <2>1. UNCHANGED muxer
    BY <1>2 DEF HandleStop, vars
  <2>2. recording' = recording
    BY <1>2 DEF HandleStop, vars, fieldVars, callVars, recording, Native, CallPhases,
                MuxerOfSession,
                  AnswerTrue, CleanInv, Phases
  <2> QED
    BY <2>1, <2>2, FileStays
<1>3. CASE Started
  <2>1. UNCHANGED muxer
    BY <1>3 DEF Started, vars
  <2>2. recording' = recording
    BY <1>3 DEF Started, vars, fieldVars, callVars, recording, Native, CallPhases,
                MuxerOfSession,
                  AnswerTrue, CleanInv, Phases
  <2> QED
    BY <2>1, <2>2, FileStays
<1>4. CASE StopTheRecorder
  <2>1. UNCHANGED muxer
    BY <1>4 DEF StopTheRecorder, StopRecording, Goto, vars
  <2>2. recording' = recording
    BY <1>4 DEF StopTheRecorder, StopRecording, Goto, vars, fieldVars, callVars,
                recording, Native, CallPhases, MuxerOfSession,
                  AnswerTrue, CleanInv, Phases
  <2> QED
    BY <2>1, <2>2, FileStays
<1>5. CASE Stopped
  <2>1. UNCHANGED muxer
    BY <1>5 DEF Stopped, vars
  <2>2. recording' = recording
    BY <1>5 DEF Stopped, vars, fieldVars, callVars, recording, Native, CallPhases,
                MuxerOfSession,
                  AnswerTrue, CleanInv, Phases
  <2> QED
    BY <2>1, <2>2, FileStays
<1>6. CASE Available
  <2>1. UNCHANGED muxer
    BY <1>6 DEF Available, NativeReturn, vars
  <2>2. recording' = recording
    BY <1>6 DEF Available, NativeReturn, vars, fieldVars, callVars, recording, Native,
                CallPhases, MuxerOfSession,
                  AnswerTrue, CleanInv, Phases
  <2> QED
    BY <2>1, <2>2, FileStays
<1>7. CASE FindHolder
  <2>1. UNCHANGED muxer
    BY <1>7 DEF FindHolder, NativeReturn, vars
  <2>2. recording' = recording
    BY <1>7 DEF FindHolder, NativeReturn, vars, fieldVars, callVars, recording, Native,
                CallPhases, MuxerOfSession,
                  AnswerTrue, CleanInv, Phases
  <2> QED
    BY <2>1, <2>2, FileStays
<1>8. CASE Join
  <2>1. UNCHANGED muxer
    BY <1>8 DEF Join, vars
  <2>2. recording' = recording
    BY <1>8 DEF Join, vars, fieldVars, callVars, recording, Native, CallPhases,
                MuxerOfSession,
                  AnswerTrue, CleanInv, Phases
  <2> QED
    BY <2>1, <2>2, FileStays
<1>9. CASE InstallWindow
  <2>1. UNCHANGED muxer
    BY <1>9 DEF InstallWindow, vars
  <2>2. recording' = recording
    BY <1>9 DEF InstallWindow, vars, fieldVars, callVars, recording, Native, CallPhases,
                MuxerOfSession,
                  AnswerTrue, CleanInv, Phases
  <2> QED
    BY <2>1, <2>2, FileStays
<1>10. CASE Drop
  <2>1. UNCHANGED muxer
    BY <1>10 DEF Drop, NativeReturn, vars
  <2>2. recording' = recording
    BY <1>10 DEF Drop, NativeReturn, vars, fieldVars, callVars, recording, Native,
                 CallPhases, MuxerOfSession,
                  AnswerTrue, CleanInv, Phases
  <2> QED
    BY <2>1, <2>2, FileStays
<1>11. CASE HandlerDestroys
  <2>1. UNCHANGED muxer
    BY <1>11 DEF HandlerDestroys, Destroy, NativeReturn, vars
  <2>2. recording' = recording
    BY <1>11 DEF HandlerDestroys, Destroy, NativeReturn, vars, fieldVars, callVars,
                 recording, Native, CallPhases, MuxerOfSession,
                  AnswerTrue, CleanInv, Phases
  <2> QED
    BY <2>1, <2>2, FileStays
<1>12. CASE CreateCodec /\ UNCHANGED <<call, window>>
  <2>1. UNCHANGED muxer
    BY <1>12 DEF CreateCodec
  <2>2. recording' = recording
    BY <1>12 DEF CreateCodec, Goto, fieldVars, callVars, codecVars, recording, Native,
                 CallPhases,
                  MuxerOfSession, AnswerTrue, CleanInv, Phases
  <2> QED
    BY <2>1, <2>2, FileStays
<1>13. CASE CreateMuxer /\ UNCHANGED <<call, window>>
  <2>1. \A u \in Session : u # recording => (muxer'[u] = "closed" <=> muxer[u] = "closed")
    BY <1>13 DEF CreateMuxer, recording, CallPhases, MuxerOfSession, AnswerTrue, TypeInv,
                 PlatformType,
                  CodecType, StartNumbered
  <2>2. recording' = recording
    BY <1>13 DEF CreateMuxer, Goto, fieldVars, callVars, codecVars, recording, Native,
                 CallPhases,
                  MuxerOfSession, AnswerTrue, CleanInv, Phases
  <2> QED
    BY <2>1, <2>2, FileStays
<1>14. CASE Go /\ UNCHANGED <<call, window>>
  <2>1. UNCHANGED muxer
    BY <1>14 DEF Go
  <2>2. recording' = recording
    BY <1>14 DEF Go, Goto, fieldVars, callVars, codecVars, recording, Native, CallPhases,
                  MuxerOfSession, AnswerTrue, CleanInv, Phases
  <2> QED
    BY <2>1, <2>2, FileStays
<1>15. CASE SignalEndOfInputStream /\ UNCHANGED <<call, window>>
  <2>1. UNCHANGED muxer
    BY <1>15 DEF SignalEndOfInputStream
  <2>2. recording' = recording
    BY <1>15 DEF SignalEndOfInputStream, Goto, fieldVars, callVars, codecVars, recording,
                 Native, CallPhases,
                  MuxerOfSession, AnswerTrue, CleanInv, Phases
  <2> QED
    BY <2>1, <2>2, FileStays
<1>16. CASE Sleep /\ UNCHANGED <<call, window>>
  <2>1. UNCHANGED muxer
    BY <1>16 DEF Sleep
  <2>2. recording' = recording
    BY <1>16 DEF Sleep, Goto, fieldVars, callVars, codecVars, recording, Native, CallPhases,
                  MuxerOfSession, AnswerTrue, CleanInv, Phases
  <2> QED
    BY <2>1, <2>2, FileStays
<1>17. CASE CleanupCodec /\ UNCHANGED <<call, window>>
  <2>1. UNCHANGED muxer
    BY <1>17 DEF CleanupCodec
  <2>2. recording' = recording
    BY <1>17 DEF CleanupCodec, Goto, fieldVars, callVars, codecVars, recording, Native,
                 CallPhases,
                  MuxerOfSession, AnswerTrue, CleanInv, Phases
  <2> QED
    BY <2>1, <2>2, FileStays
<1>18. CASE CleanupMuxer /\ UNCHANGED <<call, window>>
  <2>1. \A u \in Session : u # recording => (muxer'[u] = "closed" <=> muxer[u] = "closed")
    BY <1>18 DEF CleanupMuxer, recording, CallPhases, MuxerOfSession, AnswerTrue,
                 TypeInv, PlatformType,
                  CodecType, StartNumbered
  <2>2. recording' = recording
    BY <1>18 DEF CleanupMuxer, Goto, fieldVars, callVars, codecVars, recording, Native,
                 CallPhases,
                  MuxerOfSession, AnswerTrue, CleanInv, Phases
  <2> QED
    BY <2>1, <2>2, FileStays
<1>19. ASSUME NEW s \in Session, AddTrack(s) \/ StartMuxer(s), UNCHANGED <<call, window>>
      PROVE  UNCHANGED <<recording, File>>
  <2>1. recording' = recording
    BY <1>19, MuxerStarts DEF recording
  <2> QED
    BY <1>19, <2>1, MuxerStarts, FileStays
<1>20. CASE Aside /\ UNCHANGED <<call, window>>
  BY <1>20, AsideFrame, MappingFrame
<1>21. CASE Attach \/ Detach \/ UsbStep
  <2>1. UNCHANGED <<vars, call, window>>
    BY <1>21 DEF Attach, Detach, UsbStep, Forget, UsbDestroys, Destroy, handlerVars
  <2> QED
    BY <2>1, AsideFrame, MappingFrame DEF Aside
<1>22. ASSUME NEW s \in Session, CaptureStep(s) PROVE UNCHANGED <<recording, File>>
  <2>1. (Draw(s) \/ UNCHANGED vars) /\ UNCHANGED <<call, window>>
    BY <1>22 DEF CaptureStep, LoopTest, GetFrame, LockWindow, PostFrame, handlerVars
  <2> QED
    BY <2>1, AsideFrame, MappingFrame DEF Aside
<1>23. CASE Recorder
  <2>1. UNCHANGED <<call, window>>
    BY <1>23 DEF Recorder, handlerVars
  <2> QED
    BY <1>23, <2>1, <1>12, <1>13, <1>14, <1>15, <1>16, <1>17, <1>18, <1>19, <1>20
       DEF Recorder, RecorderStep, MainStep, DrainStep, Aside
<1>24. CASE UNCHANGED recordingVars
  BY <1>24, AsideFrame, MappingFrame DEF recordingVars, handlerVars, Aside
<1> QED
  BY <1>1, <1>2, <1>3, <1>4, <1>5, <1>6, <1>7, <1>8, <1>9, <1>10, <1>11,
     <1>21, <1>22, <1>23, <1>24 DEF RecordingNext, HandlerStep

\* The second part of ImplementsService, for a step that answers.
AnswerIsTrue ==
    IF call = "stopping" THEN Service!StopRecording(Answered[reply])
    ELSE Service!StartRecording(session, Answered[reply])

\* The steps that answer.
LEMMA AnswerSteps ==
    ASSUME [RecordingNext]_recordingVars, Answering
    PROVE  /\ UNCHANGED vars
           /\ \/ call = "start" /\ main = "idle" /\ reply # "ok"
              \/ call \in Native /\ window # None
              \/ call = "stopping" /\ main = "idle"
BY DEF RecordingNext, recordingVars, handlerVars, Answering, HandleStart, HandleStop,
       HandlerStep, Started,
       StopTheRecorder, Stopped, Available, FindHolder, Join, InstallWindow, Drop,
       HandlerDestroys, NativeReturn, Destroy, Recorder, Attach, Detach, UsbStep, Forget,
       UsbDestroys, CaptureStep, LoopTest, GetFrame, LockWindow, PostFrame, Native

\* A step that answers is the step of RecordingService that the answer tells.
LEMMA AnswersMap ==
    ASSUME TypeInv, CleanInv, AnswerInv, ~MayThrow, [RecordingNext]_recordingVars, Answering
    PROVE  AnswerIsTrue
<1> USE Refs DEF AnswerInv, AnswerIsTrue, Answered
<1>1. /\ UNCHANGED <<isRecording, mediaMuxer, session, main, reply, muxer>>
      /\ recording' = mediaMuxer
  BY AnswerSteps DEF vars, fieldVars, callVars, recording, Answering
<1>2. CASE call = "start" /\ main = "idle" /\ reply # "ok"
  <2>1. reply = IF isRecording THEN "busy" ELSE "failed"
    BY <1>2 DEF AnswerTrue
  <2>2. recording = mediaMuxer /\ (isRecording <=> recording # None)
    BY <1>2, <2>1, RecordingInStart DEF MuxerOfSession, CleanInv, Phases
  <2>3. UNCHANGED <<recording, File>>
    BY <1>1, <2>2, FileStays
  <2>4. Service!StartRecording(session, Answered[reply])
    BY <2>1, <2>2, <2>3 DEF Service!StartRecording, Service!serviceVars, File
  <2> QED
    BY <1>2, <2>4
<1>3. CASE call \in Native /\ window # None
  <2>1. reply = "ok" /\ isRecording
    BY <1>3 DEF AnswerTrue
  <2>2. recording = None /\ recording' = session /\ session \in Session
    BY <1>1, <1>3, <2>1, RecordingInStart DEF MuxerOfSession
  <2>3. File' = [File EXCEPT ![session] = "growing"]
    BY <1>1, <2>2 DEF File
  <2>4. Service!StartRecording(session, Answered[reply])
    BY <2>1, <2>2, <2>3 DEF Service!StartRecording, File
  <2> QED
    BY <1>3, <2>4 DEF Native
<1>4. CASE call = "stopping" /\ main = "idle"
  <2>1. ~isRecording /\ mediaMuxer = None
    BY <1>4 DEF AnswerTrue, CleanInv, Phases
  <2>2. CASE reply = "null"
    <3>1. recording = None /\ recording' = None
      BY <1>1, <1>4, <2>1, <2>2, RecordingInStop
    <3>2. UNCHANGED <<recording, File>>
      BY <1>1, <3>1, FileStays
    <3> QED
      BY <1>4, <2>2, <3>1, <3>2 DEF Service!StopRecording, Service!serviceVars, File
  <2>3. CASE reply = "path" /\ session \in Session /\ muxer[session] = "closed"
    <3>1. recording = session /\ recording' = None
      BY <1>1, <1>4, <2>1, <2>3, RecordingInStop
    <3>2. File' = [File EXCEPT ![recording] = IF @ = "growing" THEN "complete" ELSE @]
      BY <1>1, <2>3, <3>1 DEF File
    <3> QED
      BY <1>4, <2>3, <3>1, <3>2 DEF Service!StopRecording, File
  <2> QED
    BY <1>4, <2>2, <2>3 DEF AnswerTrue
<1> QED
  BY <1>2, <1>3, <1>4, AnswerSteps

LEMMA ServiceInitial == RecordingInit => Service!ServiceInit
BY Refs DEF RecordingInit, Init, Service!ServiceInit, recording

\* Every step of Recording is one of RecordingService, or none.
LEMMA ServiceSteps ==
    ASSUME TypeInv, CleanInv, AnswerInv, ~MayThrow, [RecordingNext]_recordingVars
    PROVE  [Service!ServiceNext]_(Service!serviceVars)
<1>1. CASE ~Answering
  BY <1>1, Unanswered DEF Service!serviceVars, File
<1>2. CASE Answering
  <2>1. AnswerIsTrue
    BY <1>2, AnswersMap
  <2>2. CASE call = "stopping"
    <3>1. Service!StopRecording(Answered[reply])
      BY <2>1, <2>2 DEF AnswerIsTrue
    <3>2. Answered[reply] \in {"path", "null"}
      BY <3>1 DEF Service!StopRecording
    <3> QED
      BY <3>1, <3>2 DEF Service!ServiceNext, Service!StopRecording
  <2>3. CASE call # "stopping"
    <3>1. Service!StartRecording(session, Answered[reply])
      BY <2>1, <2>3 DEF AnswerIsTrue
    <3>2. CASE UNCHANGED Service!serviceVars
      BY <3>2
    <3>3. CASE ~ UNCHANGED Service!serviceVars
      <4>1. Answered[reply] = "0"
        BY <3>1, <3>3 DEF Service!StartRecording
      <4>2. session \in Session
        BY <1>2, <2>3, <4>1, AnswerSteps DEF AnswerInv, AnswerTrue, MuxerOfSession, Answered
      <4> QED
        BY <3>1, <4>1, <4>2 DEF Service!ServiceNext, Service!StartRecording
    <3> QED
      BY <3>2, <3>3
  <2> QED
    BY <2>2, <2>3
<1> QED
  BY <1>1, <1>2

\* A recording begins only with the answer 0, at the answer of a path its file is
\* closed, and nothing else begins or ends one: whatever the encoder thread, the capture
\* thread and a detach do, for any number of recordings, if stop() does not throw.
THEOREM RecordingServes == ~MayThrow /\ RecordingSpec => ImplementsService
<1> DEFINE I == TypeInv /\ CleanInv /\ AnswerInv /\ ~MayThrow
           A == [(call # "idle" /\ call' = "idle") =>
                    IF call = "stopping" THEN Service!StopRecording(Answered[reply])
                    ELSE Service!StartRecording(session, Answered[reply])]_recordingVars
<1>1. ~MayThrow /\ RecordingInit => I /\ Service!ServiceInit
  BY TypeInit, CleanInit, AnswerInit, ServiceInitial DEF RecordingInit
<1>2. I /\ [RecordingNext]_recordingVars => I'
  BY RecorderSteps, TypeStep, CleanStep, AnswerStep
<1>3. I /\ [RecordingNext]_recordingVars => [Service!ServiceNext]_(Service!serviceVars)
  BY ServiceSteps
<1>4. I /\ [RecordingNext]_recordingVars => A
  BY AnswersMap DEF Answering, AnswerIsTrue
<1> QED
  BY <1>1, <1>2, <1>3, <1>4, PTL DEF RecordingSpec, ImplementsService, Service!ServiceSpec
=============================================================================
