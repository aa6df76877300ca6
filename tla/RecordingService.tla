--------------------------- MODULE RecordingService ---------------------------
(***************************************************************************)
(* What UVCManager.kt's method channel promises of its recorder, one call  *)
(* at a time: the effect of a call and its answer are one step.  Recording *)
(* implements it with an encoder, a muxer and three threads; RecorderClient*)
(* takes it for the native side of uvc_recorder.dart.                      *)
(***************************************************************************)
CONSTANTS Path, NoPath

VARIABLES recording,   \* the path of the recording in progress, or NoPath
          file         \* the file at each path

serviceVars == <<recording, file>>

ServiceInit ==
    /\ recording = NoPath
    /\ file = [p \in Path |-> "none"]

\* startRecording: one recording at a time.
StartRecording(p, answer) ==
    \/ /\ recording = NoPath /\ answer = "0"
       /\ recording' = p
       /\ file' = [file EXCEPT ![p] = "growing"]
    \/ /\ answer = IF recording = NoPath THEN "-2" ELSE "-1"
       /\ UNCHANGED serviceVars

\* stopRecording: the file is complete when the path is answered.
StopRecording(answer) ==
    \/ /\ recording # NoPath /\ answer = "path"
       /\ recording' = NoPath
       /\ file' = [file EXCEPT ![recording] = IF @ = "growing" THEN "complete" ELSE @]
    \/ /\ recording = NoPath /\ answer = "null"
       /\ UNCHANGED serviceVars

IsRecording(answer) ==
    /\ answer = IF recording = NoPath THEN "false" ELSE "true"
    /\ UNCHANGED serviceVars

ServiceNext ==
    \/ \E p \in Path, a \in {"0", "-1", "-2"} : StartRecording(p, a)
    \/ \E a \in {"path", "null"} : StopRecording(a)

ServiceSpec == ServiceInit /\ [][ServiceNext]_serviceVars
=============================================================================
