---------------------------- MODULE VideoRecorder ----------------------------
(***************************************************************************)
(* UvcVideoRecorder.kt: a MediaCodec encodes what is drawn on its input    *)
(* surface, a loop on an encoder thread drains it into a MediaMuxer.       *)
(*                                                                         *)
(* startRecording and stopRecording run on the platform thread, one at a   *)
(* time.  The encoder thread shares their fields without a lock: only      *)
(* isRecording is atomic, and only Thread.sleep(500) lies between asking   *)
(* for the end of the stream and taking codec and muxer apart.             *)
(*                                                                         *)
(* The objects one startRecording creates (codec, surface, muxer, encoder  *)
(* thread) bear the number of that call.  MediaCodec and MediaMuxer are    *)
(* external; every call of theirs that the code guards with try may throw. *)
(***************************************************************************)
EXTENDS Naturals, Sequences, FiniteSets

CONSTANTS MaxSessions,  \* bound: successful or failed attempts to record
          Cap,          \* frames the encoder holds before it blocks its surface
          MayThrow      \* may calls of a muxer that is in order, or stop(), throw?

ASSUME RecorderAssumption ==
    /\ MaxSessions \in Nat
    /\ Cap \in Nat \ {0}
    /\ MayThrow \in BOOLEAN

Session == 1..MaxSessions
None == 0            \* a null reference

VARIABLES isRecording, mediaCodec, mediaMuxer, encoderSurface, muxerStarted,
          session,   \* the latest attempt to record
          main,      \* where the platform thread is
          reply,     \* what the latest call returned, or is about to
          drain,     \* where each encoder thread's drainEncoder is
          local,     \* its local variable codec
          item,      \* what dequeueOutputBuffer gave it
          seen,      \* history: encoder threads that tested isRecording since
                     \* it was cleared
          punctual,  \* history: the encoder threads have kept up so far, see KeptUp
          codec, muxer,      \* the external objects
          surface,   \* frames drawn, not yet encoded
          output,    \* encoded buffers, not yet dequeued
          format,    \* codecs that have announced their output format
          eos        \* how far the end of the stream has come

fieldVars  == <<isRecording, mediaCodec, mediaMuxer, encoderSurface, muxerStarted>>
callVars   == <<session, main, reply>>
drainVars  == <<drain, local, item>>
timeVars   == <<seen, punctual>>
codecVars  == <<codec, surface, output, format, eos>>
vars == <<fieldVars, callVars, drainVars, timeVars, codecVars, muxer>>

Ref == Session \cup {None}

TypeOK ==
    /\ isRecording \in BOOLEAN
    /\ {mediaCodec, mediaMuxer, encoderSurface} \subseteq Ref
    /\ muxerStarted \in BOOLEAN
    /\ session \in 0..MaxSessions
    /\ main \in {"idle", "codec", "muxer", "go", "eos", "sleep", "cleanup", "closing"}
    /\ reply \in {"none", "ok", "busy", "failed", "path", "null"}
    /\ drain \in [Session -> {"none", "test", "read", "dequeue", "format",
                              "track", "started", "buffer", "done"}]
    /\ local \in [Session -> Ref]
    /\ item \in [Session -> {"none", "format", "frame", "eos"}]
    /\ seen \subseteq Session
    /\ punctual \in BOOLEAN
    /\ codec \in [Session -> {"none", "running", "released", "orphan"}]
    /\ muxer \in [Session -> {"none", "open", "tracked", "started", "closed", "orphan"}]
    /\ surface \in [Session -> 0..Cap]
    /\ output \in [Session -> Seq({"format", "frame", "eos"})]
    /\ \A s \in Session : Len(output[s]) <= Cap
    /\ format \subseteq Session
    /\ eos \in [Session -> {"no", "signalled", "sent", "drained"}]

Init ==
    /\ isRecording = FALSE
    /\ mediaCodec = None /\ mediaMuxer = None /\ encoderSurface = None
    /\ muxerStarted = FALSE
    /\ session = 0 /\ main = "idle" /\ reply = "none"
    /\ drain = [s \in Session |-> "none"]
    /\ local = [s \in Session |-> None]
    /\ item = [s \in Session |-> "none"]
    /\ seen = {} /\ punctual = TRUE
    /\ codec = [s \in Session |-> "none"]
    /\ muxer = [s \in Session |-> "none"]
    /\ surface = [s \in Session |-> 0]
    /\ output = [s \in Session |-> <<>>]
    /\ format = {}
    /\ eos = [s \in Session |-> "no"]

Draining == {s \in Session : drain[s] \notin {"none", "done"}}

\* The encoder thread is not stalled in the middle of its straight-line code:
\* it waits in dequeueOutputBuffer (10 ms at most) of a codec that runs.
AtRest(s) == drain[s] = "dequeue" /\ codec[local[s]] = "running"

\* What the code counts on and nothing enforces: the slow calls of the platform
\* thread (sleeping 500 ms, creating an encoder) outlast the encoder thread's
\* code between two blocking calls.
KeptUp == \A s \in Draining : AtRest(s)

-----------------------------------------------------------------------------
(* MediaCodec, as the recorder uses it (external).                         *)

\* A frame is drawn on the surface; with Cap of them waiting, drawing blocks.
Draw(s) ==
    /\ codec[s] = "running"
    /\ surface[s] < Cap
    /\ surface' = [surface EXCEPT ![s] = @ + 1]
    /\ UNCHANGED <<fieldVars, callVars, drainVars, timeVars,
                   codec, output, format, eos, muxer>>

\* The output format precedes the first buffer, the end of the stream follows
\* the last; nothing is encoded while Cap output buffers wait.
Encode(s) ==
    /\ codec[s] = "running"
    /\ Len(output[s]) < Cap
    /\ \/ /\ surface[s] > 0
          /\ s \notin format
          /\ format' = format \cup {s}
          /\ output' = [output EXCEPT ![s] = Append(@, "format")]
          /\ UNCHANGED <<surface, eos>>
       \/ /\ surface[s] > 0
          /\ s \in format
          /\ surface' = [surface EXCEPT ![s] = @ - 1]
          /\ output' = [output EXCEPT ![s] = Append(@, "frame")]
          /\ UNCHANGED <<format, eos>>
       \/ /\ surface[s] = 0
          /\ eos[s] = "signalled"
          /\ eos' = [eos EXCEPT ![s] = "sent"]
          /\ output' = [output EXCEPT ![s] = Append(@, "eos")]
          /\ UNCHANGED <<surface, format>>
    /\ UNCHANGED <<fieldVars, callVars, drainVars, timeVars, codec, muxer>>

-----------------------------------------------------------------------------
(* startRecording.                                                         *)

Goto(l) == main' = l

\* Mutation of StartRecording: no test of isRecording.
StartUnguarded ==
    /\ main = "idle"
    /\ session < MaxSessions
    /\ session' = session + 1
    /\ Goto("codec")
    /\ UNCHANGED <<reply, fieldVars, drainVars, timeVars, codecVars, muxer>>

StartRecording ==
    /\ main = "idle"
    /\ IF isRecording
       THEN /\ reply' = "busy"
            /\ UNCHANGED <<main, session>>
       ELSE /\ session < MaxSessions
            /\ session' = session + 1
            /\ Goto("codec")
            /\ UNCHANGED reply
    /\ UNCHANGED <<fieldVars, drainVars, timeVars, codecVars, muxer>>

\* The field is assigned when create, configure, createInputSurface and start
\* have all returned; the surface is assigned in between.
CreateCodec ==
    /\ main = "codec"
    /\ punctual' = (punctual /\ KeptUp)
    /\ \/ /\ codec' = [codec EXCEPT ![session] = "running"]
          /\ mediaCodec' = session
          /\ encoderSurface' = session
          /\ Goto("muxer")
          /\ UNCHANGED reply
       \/ /\ \/ UNCHANGED <<codec, encoderSurface>>
             \/ /\ codec' = [codec EXCEPT ![session] = "orphan"]
                /\ encoderSurface' \in {encoderSurface, session}
          /\ Goto("cleanup")
          /\ reply' = "failed"
          /\ UNCHANGED mediaCodec
    /\ UNCHANGED <<isRecording, mediaMuxer, muxerStarted, session, drainVars, seen,
                   surface, output, format, eos, muxer>>

\* Mutations of CreateMuxer: muxerStarted is left as it is; a muxer that cannot be
\* created is reported without cleanup().
MuxerKeepsFlag ==
    /\ main = "muxer"
    /\ \/ /\ muxer' = [muxer EXCEPT ![session] = "open"]
          /\ mediaMuxer' = session
          /\ Goto("go")
          /\ UNCHANGED reply
       \/ /\ Goto("cleanup")
          /\ reply' = "failed"
          /\ UNCHANGED <<muxer, mediaMuxer>>
    /\ UNCHANGED <<isRecording, mediaCodec, encoderSurface, muxerStarted, session,
                   drainVars, timeVars, codecVars>>

MuxerWithoutCleanup ==
    /\ main = "muxer"
    /\ \/ /\ muxer' = [muxer EXCEPT ![session] = "open"]
          /\ mediaMuxer' = session
          /\ muxerStarted' = FALSE
          /\ Goto("go")
          /\ UNCHANGED reply
       \/ /\ Goto("idle")
          /\ reply' = "failed"
          /\ UNCHANGED <<muxer, mediaMuxer, muxerStarted>>
    /\ UNCHANGED <<isRecording, mediaCodec, encoderSurface, session,
                   drainVars, timeVars, codecVars>>

\* MediaMuxer(path) throws when the file cannot be created.
CreateMuxer ==
    /\ main = "muxer"
    /\ \/ /\ muxer' = [muxer EXCEPT ![session] = "open"]
          /\ mediaMuxer' = session
          /\ muxerStarted' = FALSE
          /\ Goto("go")
          /\ UNCHANGED reply
       \/ /\ Goto("cleanup")
          /\ reply' = "failed"
          /\ UNCHANGED <<muxer, mediaMuxer, muxerStarted>>
    /\ UNCHANGED <<isRecording, mediaCodec, encoderSurface, session,
                   drainVars, timeVars, codecVars>>

Go ==
    /\ main = "go"
    /\ isRecording' = TRUE
    /\ drain' = [drain EXCEPT ![session] = "test"]
    /\ Goto("idle")
    /\ reply' = "ok"
    /\ UNCHANGED <<mediaCodec, mediaMuxer, encoderSurface, muxerStarted, session,
                   local, item, timeVars, codecVars, muxer>>

-----------------------------------------------------------------------------
(* stopRecording and cleanup.                                              *)

StopRecording ==
    /\ main = "idle"
    /\ IF isRecording
       THEN /\ isRecording' = FALSE
            /\ seen' = {}
            /\ Goto("eos")
            /\ UNCHANGED reply
       ELSE /\ reply' = "null"
            /\ UNCHANGED <<isRecording, seen, main>>
    /\ UNCHANGED <<mediaCodec, mediaMuxer, encoderSurface, muxerStarted, session,
                   drainVars, punctual, codecVars, muxer>>

\* If the call throws, the encoder does not learn that its input has ended.
SignalEndOfInputStream ==
    /\ main = "eos"
    /\ \/ eos' = [eos EXCEPT ![mediaCodec] = "signalled"]
       \/ MayThrow /\ UNCHANGED eos
    /\ Goto("sleep")
    /\ UNCHANGED <<fieldVars, session, reply, drainVars, timeVars,
                   codec, surface, output, format, muxer>>

\* Mutation of Sleep: an answer no caller expects.
SleepAnswersStopped ==
    /\ main = "sleep"
    /\ Goto("cleanup")
    /\ reply' = "stopped"
    /\ UNCHANGED <<fieldVars, session, drainVars, timeVars, codecVars, muxer>>

\* Thread.sleep(500): time for the encoder thread to finish its pass and to
\* test the loop condition again.
Sleep ==
    /\ main = "sleep"
    /\ punctual' = (punctual /\ KeptUp /\ Draining \subseteq seen)
    /\ Goto("cleanup")
    /\ reply' = "path"
    /\ UNCHANGED <<fieldVars, session, drainVars, seen, codecVars, muxer>>

\* Mutation of CleanupCodec: the codec is forgotten.
CleanupKeepsCodec ==
    /\ main = "cleanup"
    /\ Goto("closing")
    /\ UNCHANGED <<fieldVars, session, reply, drainVars, timeVars, codecVars, muxer>>

\* stop() and release() of the codec; if stop() throws there is no release().
CleanupCodec ==
    /\ main = "cleanup"
    /\ IF mediaCodec = None
       THEN UNCHANGED <<codec, surface, output>>
       ELSE /\ \E c \in {"released"} \cup (IF MayThrow THEN {"orphan"} ELSE {}) :
                  codec' = [codec EXCEPT ![mediaCodec] = c]
            /\ surface' = [surface EXCEPT ![mediaCodec] = 0]
            /\ output' = [output EXCEPT ![mediaCodec] = <<>>]
    /\ mediaCodec' = None
    /\ Goto("closing")
    /\ UNCHANGED <<isRecording, mediaMuxer, encoderSurface, muxerStarted, session, reply,
                   drainVars, timeVars, format, eos, muxer>>

\* Mutation of CleanupMuxer: the file is not closed.
CleanupForgetsMuxer ==
    /\ main = "closing"
    /\ mediaMuxer' = None
    /\ muxerStarted' = FALSE
    /\ encoderSurface' = None
    /\ Goto("idle")
    /\ UNCHANGED <<isRecording, mediaCodec, session, reply, drainVars, timeVars, codecVars, muxer>>

\* stop() and release() of the muxer, likewise; release() of a muxer that was
\* started stops it.
CleanupMuxer ==
    /\ main = "closing"
    /\ IF mediaMuxer = None
       THEN UNCHANGED muxer
       ELSE \E m \in {"closed"} \cup (IF MayThrow /\ muxerStarted THEN {"orphan"} ELSE {}) :
               muxer' = [muxer EXCEPT ![mediaMuxer] = m]
    /\ mediaMuxer' = None
    /\ muxerStarted' = FALSE
    /\ encoderSurface' = None
    /\ Goto("idle")
    /\ UNCHANGED <<isRecording, mediaCodec, session, reply, drainVars, timeVars, codecVars>>

MainStep ==
    \/ CreateCodec \/ CreateMuxer \/ Go
    \/ SignalEndOfInputStream \/ Sleep \/ CleanupCodec \/ CleanupMuxer

-----------------------------------------------------------------------------
(* drainEncoder, on encoder thread s.                                      *)

DrainTo(s, l) == drain' = [drain EXCEPT ![s] = l]

\* The end of a pass (to "test") or of the loop (to "done"): the locals are gone.
EndPass(s, l) ==
    /\ DrainTo(s, l)
    /\ local' = [local EXCEPT ![s] = None]
    /\ item' = [item EXCEPT ![s] = "none"]

\* Mutation of Test: the loop ends when the muxer is started.
TestBoth(s) ==
    /\ drain[s] = "test"
    /\ seen' = IF isRecording THEN seen ELSE seen \cup {s}
    /\ DrainTo(s, IF isRecording /\ ~muxerStarted THEN "read" ELSE "done")
    /\ UNCHANGED <<fieldVars, callVars, local, item, punctual, codecVars, muxer>>

Test(s) ==
    /\ drain[s] = "test"
    /\ seen' = IF isRecording THEN seen ELSE seen \cup {s}
    /\ DrainTo(s, IF isRecording \/ ~muxerStarted THEN "read" ELSE "done")
    /\ UNCHANGED <<fieldVars, callVars, local, item, punctual, codecVars, muxer>>

ReadCodec(s) ==
    /\ drain[s] = "read"
    /\ local' = [local EXCEPT ![s] = mediaCodec]
    /\ DrainTo(s, IF mediaCodec = None THEN "done" ELSE "dequeue")
    /\ UNCHANGED <<fieldVars, callVars, item, timeVars, codecVars, muxer>>

\* Waits 10 ms for a buffer; a codec that was stopped or released throws.
Dequeue(s) ==
    LET c == local[s] IN
    /\ drain[s] = "dequeue"
    /\ \/ /\ codec[c] = "running" /\ output[c] # <<>>
          /\ item' = [item EXCEPT ![s] = Head(output[c])]
          /\ output' = [output EXCEPT ![c] = Tail(@)]
          /\ DrainTo(s, IF Head(output[c]) = "format" THEN "format" ELSE "buffer")
          /\ UNCHANGED local
       \/ /\ codec[c] = "running" /\ output[c] = <<>>
          /\ EndPass(s, "test")
          /\ UNCHANGED output
       \/ /\ codec[c] # "running"
          /\ EndPass(s, "done")
          /\ UNCHANGED output
    /\ UNCHANGED <<fieldVars, callVars, timeVars, codec, surface, format, eos, muxer>>

\* The muxer of the field, if there is one, comes to state m.
MuxerTo(m) ==
    muxer' = IF mediaMuxer = None THEN muxer ELSE [muxer EXCEPT ![mediaMuxer] = m]

\* INFO_OUTPUT_FORMAT_CHANGED: codec.outputFormat and addTrack, of which the first
\* throws without a codec, the other in the wrong state, ...
AddTrack(s) ==
    LET ready == mediaMuxer # None => muxer[mediaMuxer] \in {"open", "tracked"} IN
    /\ drain[s] = "format"
    /\ \/ /\ muxerStarted
          /\ EndPass(s, "test")
          /\ UNCHANGED muxer
       \/ /\ ~muxerStarted /\ codec[local[s]] = "running" /\ ready
          /\ MuxerTo("tracked")
          /\ DrainTo(s, "track")
          /\ UNCHANGED <<local, item>>
       \/ /\ ~muxerStarted
          /\ codec[local[s]] # "running" \/ ~ready \/ MayThrow
          /\ EndPass(s, "done")
          /\ UNCHANGED muxer
    /\ UNCHANGED <<fieldVars, callVars, timeVars, codecVars>>

\* ... then start() of the muxer the field refers to now, which throws without a track.
StartMuxer(s) ==
    LET ready == mediaMuxer # None => muxer[mediaMuxer] = "tracked" IN
    /\ drain[s] = "track"
    /\ \/ /\ ready
          /\ MuxerTo("started")
          /\ DrainTo(s, "started")
          /\ UNCHANGED <<local, item>>
       \/ /\ ~ready \/ MayThrow
          /\ EndPass(s, "done")
          /\ UNCHANGED muxer
    /\ UNCHANGED <<fieldVars, callVars, timeVars, codecVars>>

MuxerIsStarted(s) ==
    /\ drain[s] = "started"
    /\ muxerStarted' = TRUE
    /\ EndPass(s, "test")
    /\ UNCHANGED <<isRecording, mediaCodec, mediaMuxer, encoderSurface, callVars,
                   timeVars, codecVars, muxer>>

\* A buffer is written if the muxer is started, then released.
WriteBuffer(s) ==
    LET c == local[s]
        writes == muxerStarted /\ item[s] = "frame" /\ mediaMuxer # None
        ready == writes => muxer[mediaMuxer] = "started" IN
    /\ drain[s] = "buffer"
    /\ \/ /\ codec[c] = "running" /\ ready /\ item[s] = "frame"
          /\ EndPass(s, "test")
          /\ UNCHANGED eos
       \/ /\ codec[c] = "running" /\ item[s] = "eos"
          /\ eos' = [eos EXCEPT ![c] = "drained"]
          /\ EndPass(s, "done")
       \/ /\ codec[c] # "running" \/ ~ready \/ (writes /\ MayThrow)
          /\ EndPass(s, "done")
          /\ UNCHANGED eos
    /\ UNCHANGED <<fieldVars, callVars, timeVars, codec, surface, output, format, muxer>>

DrainStep(s) ==
    \/ Test(s) \/ ReadCodec(s) \/ Dequeue(s)
    \/ AddTrack(s) \/ StartMuxer(s) \/ MuxerIsStarted(s) \/ WriteBuffer(s)

-----------------------------------------------------------------------------
\* Everything but the calls and the drawing, which Recording refines.
RecorderStep ==
    \/ MainStep
    \/ \E s \in Session : DrainStep(s) \/ Encode(s)

Next ==
    \/ StartRecording \/ StopRecording
    \/ RecorderStep
    \/ \E s \in Session : Draw(s)

\* A call that has begun and the loop of an encoder thread run on, and the
\* encoder encodes.  Nothing makes anyone call, or draw.
Fairness ==
    /\ WF_vars(MainStep)
    /\ \A s \in Session : WF_vars(DrainStep(s)) /\ WF_vars(Encode(s))

Spec == Init /\ [][Next]_vars /\ Fairness

-----------------------------------------------------------------------------
(* Properties.                                                             *)

\* A codec is drained by one encoder thread: no loop of an earlier recording
\* goes on with the codec of the next one, whose buffers it would steal - as long
\* as the encoder threads have kept up.
OneDrain ==
    punctual =>
        \A s, u \in Draining :
            (s # u /\ local[s] = local[u] /\ local[s] # None)
                => codec[local[s]] # "running"

\* While recording, muxerStarted tells the truth about this recording's muxer,
\* also when an encoder thread set the field after cleanup() had cleared it - as
\* long as the encoder threads have kept up.
FlagIsTrue ==
    (punctual /\ isRecording /\ muxerStarted) =>
        mediaMuxer # None /\ muxer[mediaMuxer] = "started"

\* Kept up or not: between two recordings nothing of the last one is left in the
\* fields, and its file is closed; only a failed constructor or stop() leaves an
\* orphan.
CleanBetween ==
    (main = "idle" /\ ~isRecording) =>
        /\ mediaCodec = None /\ mediaMuxer = None /\ encoderSurface = None
        /\ \A s \in Session : /\ codec[s] # "running"
                              /\ muxer[s] \notin {"open", "tracked", "started"}

\* Kept up or not: when the recorder has been stopped for good, every encoder
\* thread ends.
DrainsEnd ==
    <>[](main = "idle" /\ ~isRecording) => <>[](Draining = {})

-----------------------------------------------------------------------------
(* What comments say and the code does not do.                             *)

\* UvcVideoRecorder.kt 212 "Wait for encoder to finish": when a recording is stopped
\* whose muxer has started and whose encoder thread waits for the next buffer, the end
\* of the stream comes out of the encoder, if that thread keeps up.  But the loop that
\* would take it there ends at its first test after isRecording was cleared.
EncoderFinishes ==
    \A s \in Session :
        (main = "eos" /\ session = s /\ muxerStarted /\ AtRest(s))
            ~> (eos[s] = "drained" \/ ~punctual)
=============================================================================
