------------------------- MODULE VideoRecorder_proofs -------------------------
(***************************************************************************)
(* Theorems about VideoRecorder, for any number of recordings and of       *)
(* frames, whether or not calls throw and whether or not the encoder       *)
(* threads keep up.                                                        *)
(***************************************************************************)
EXTENDS VideoRecorder, TLAPS

-----------------------------------------------------------------------------
(* Type correctness.                                                       *)

\* An encoder thread that is past reading the field mediaCodec works on a codec.
LocalsInUse ==
    \A s \in Session :
        drain[s] \in {"dequeue", "format", "track", "started", "buffer"} => local[s] \in Session

\* A start that is under way has a number.
StartNumbered == main \in {"codec", "muxer", "go"} => session \in Session

\* TypeOK in three parts, of which most steps leave two alone.
PlatformType ==
    /\ isRecording \in BOOLEAN
    /\ mediaCodec \in Ref /\ mediaMuxer \in Ref /\ encoderSurface \in Ref
    /\ muxerStarted \in BOOLEAN
    /\ session \in 0..MaxSessions
    /\ main \in {"idle", "codec", "muxer", "go", "eos", "sleep", "cleanup", "closing"}
    /\ reply \in {"none", "ok", "busy", "failed", "path", "null"}
    /\ seen \subseteq Session
    /\ punctual \in BOOLEAN
    /\ StartNumbered

DrainType ==
    /\ drain \in [Session -> {"none", "test", "read", "dequeue", "format",
                              "track", "started", "buffer", "done"}]
    /\ local \in [Session -> Ref]
    /\ item \in [Session -> {"none", "format", "frame", "eos"}]
    /\ LocalsInUse

Item == {"format", "frame", "eos"}

CodecType ==
    /\ codec \in [Session -> {"none", "running", "released", "orphan"}]
    /\ muxer \in [Session -> {"none", "open", "tracked", "started", "closed", "orphan"}]
    /\ surface \in [Session -> 0..Cap]
    /\ output \in [Session -> Seq(Item)]
    /\ \A s \in Session : Len(output[s]) <= Cap
    /\ format \subseteq Session
    /\ eos \in [Session -> {"no", "signalled", "sent", "drained"}]

TypeInv == PlatformType /\ DrainType /\ CodecType

\* The three parts are the type invariant.
LEMMA TypeParts == TypeInv => TypeOK
BY DEF TypeInv, PlatformType, DrainType, CodecType, TypeOK, Item

\* The references: a number of a recording, or none.
LEMMA Refs == /\ 0 \in Ref /\ Session \subseteq Ref /\ None = 0
              /\ \A s \in Session : s # None
              /\ \A r \in Ref : r # None => r \in Session
              /\ \A n \in 0..MaxSessions : n \in Ref
              /\ \A n \in 0..MaxSessions : n < MaxSessions => n + 1 \in Session /\ n + 1 \in 0..MaxSessions
BY RecorderAssumption DEF Ref, Session, None

\* At the start everything is of its type.
LEMMA TypeInit == Init => TypeInv
<1> SUFFICES ASSUME Init PROVE TypeInv
  OBVIOUS
<1>1. PlatformType
  <2>1. 0 \in 0..MaxSessions
    BY RecorderAssumption
  <2> QED
    BY <2>1, Refs DEF Init, PlatformType, StartNumbered
<1>2. DrainType
  BY Refs DEF Init, DrainType, LocalsInUse
<1>3. <<>> \in Seq(Item) /\ Len(<<>>) = 0
  OBVIOUS
<1>4. CodecType
  BY <1>3, RecorderAssumption DEF Init, CodecType
<1> QED
  BY <1>1, <1>2, <1>4 DEF TypeInv

\* A buffer goes into a queue that is not full, or out of one that is not empty.
LEMMA QueueGrows ==
    ASSUME NEW q \in Seq(Item), Len(q) < Cap, NEW e \in Item
    PROVE  Append(q, e) \in Seq(Item) /\ Len(Append(q, e)) <= Cap
BY RecorderAssumption

\* ... and the other way.
LEMMA QueueShrinks ==
    ASSUME NEW q \in Seq(Item), Len(q) <= Cap, q # <<>>
    PROVE  Head(q) \in Item /\ Tail(q) \in Seq(Item) /\ Len(Tail(q)) <= Cap
BY RecorderAssumption

\* What a part is about stays: the part stays.
LEMMA PlatformTypeFrame ==
    ASSUME PlatformType, UNCHANGED <<fieldVars, callVars, timeVars>> PROVE PlatformType'
BY DEF PlatformType, StartNumbered, fieldVars, callVars, timeVars

\* ... the encoder threads, ...
LEMMA DrainTypeFrame ==
    ASSUME DrainType, UNCHANGED drainVars PROVE DrainType'
BY DEF DrainType, LocalsInUse, drainVars

\* ... the objects.
LEMMA CodecTypeFrame ==
    ASSUME CodecType, UNCHANGED <<codecVars, muxer>> PROVE CodecType'
BY DEF CodecType, codecVars

\* The two steps that change the surfaces and the buffers most.
LEMMA CleanupCodecType == ASSUME PlatformType, CodecType, CleanupCodec PROVE CodecType'
<1>1. UNCHANGED <<format, eos, muxer>>
  BY DEF CleanupCodec
<1>2. CASE mediaCodec = None
  BY <1>1, <1>2 DEF CleanupCodec, CodecType
<1>3. CASE mediaCodec # None
  <2>1. mediaCodec \in Session
    BY <1>3, Refs DEF PlatformType
  <2>2. /\ \E c \in {"released", "orphan"} : codec' = [codec EXCEPT ![mediaCodec] = c]
        /\ surface' = [surface EXCEPT ![mediaCodec] = 0]
        /\ output' = [output EXCEPT ![mediaCodec] = <<>>]
    BY <1>3 DEF CleanupCodec
  <2>3. codec' \in [Session -> {"none", "running", "released", "orphan"}]
    BY <2>2 DEF CodecType
  <2>4. surface' \in [Session -> 0..Cap]
    <3>1. 0 \in 0..Cap
      BY RecorderAssumption
    <3> QED
      BY <2>2, <3>1 DEF CodecType
  <2>5. /\ output' \in [Session -> Seq(Item)]
        /\ \A s \in Session : Len(output'[s]) <= Cap
    <3>1. <<>> \in Seq(Item) /\ Len(<<>>) <= Cap
      BY RecorderAssumption
    <3> QED
      BY <2>2, <3>1 DEF CodecType
  <2> QED
    BY <1>1, <2>3, <2>4, <2>5 DEF CodecType
<1> QED
  BY <1>2, <1>3

\* ... encoding, the other.
LEMMA EncodeType == ASSUME CodecType, NEW s \in Session, Encode(s) PROVE CodecType'
<1>1. /\ UNCHANGED <<codec, muxer>>
      /\ \E e \in Item : output' = [output EXCEPT ![s] = Append(@, e)]
  BY DEF Encode, Item
<1>2. output[s] \in Seq(Item) /\ Len(output[s]) < Cap
  BY DEF Encode, CodecType
<1>3. \A e \in Item : Append(output[s], e) \in Seq(Item) /\ Len(Append(output[s], e)) <= Cap
  BY <1>2, QueueGrows
<1>4. surface' \in [Session -> 0..Cap]
  <2>1. surface[s] \in 0..Cap
    BY DEF CodecType
  <2>2. surface[s] > 0 => surface[s] - 1 \in 0..Cap
    BY <2>1, RecorderAssumption
  <2>3. \/ UNCHANGED surface
        \/ surface[s] > 0 /\ surface' = [surface EXCEPT ![s] = surface[s] - 1]
    BY DEF Encode
  <2> QED
    BY <2>2, <2>3 DEF CodecType
<1>5. format' \subseteq Session
  BY DEF Encode, CodecType
<1>6. eos' \in [Session -> {"no", "signalled", "sent", "drained"}]
  BY DEF Encode, CodecType
<1>7. /\ output' \in [Session -> Seq(Item)]
      /\ \A u \in Session : Len(output'[u]) <= Cap
  BY <1>1, <1>3 DEF CodecType
<1> QED
  BY <1>1, <1>4, <1>5, <1>6, <1>7 DEF CodecType

\* Every action keeps the types.
LEMMA TypeStep == TypeInv /\ [Next]_vars => TypeInv'
<1> SUFFICES ASSUME TypeInv, [Next]_vars PROVE TypeInv'
  OBVIOUS
<1> USE RecorderAssumption, Refs, PlatformTypeFrame, DrainTypeFrame, CodecTypeFrame DEF TypeInv
<1>1. CASE StartRecording
  <2>1. PlatformType'
    BY <1>1 DEF StartRecording, PlatformType, StartNumbered, fieldVars, callVars, timeVars,
       Goto
  <2>2. DrainType'
    BY <1>1 DEF StartRecording, fieldVars, callVars, timeVars, drainVars, codecVars
  <2>3. CodecType'
    BY <1>1 DEF StartRecording, fieldVars, callVars, timeVars, drainVars, codecVars
  <2> QED
    BY <2>1, <2>2, <2>3
<1>2. CASE StopRecording
  <2>1. PlatformType'
    BY <1>2 DEF StopRecording, PlatformType, StartNumbered, fieldVars, callVars, timeVars, Goto
  <2>2. DrainType'
    BY <1>2 DEF StopRecording, fieldVars, callVars, timeVars, drainVars, codecVars
  <2>3. CodecType'
    BY <1>2 DEF StopRecording, fieldVars, callVars, timeVars, drainVars, codecVars
  <2> QED
    BY <2>1, <2>2, <2>3
<1>3. CASE CreateCodec
  <2>1. PlatformType'
    BY <1>3 DEF CreateCodec, PlatformType, StartNumbered, fieldVars, callVars, timeVars,
       Goto, KeptUp
  <2>2. DrainType'
    BY <1>3 DEF CreateCodec, fieldVars, callVars, timeVars, drainVars, codecVars
  <2>3. CodecType'
    BY <1>3 DEF CreateCodec, CodecType, codecVars, Item
  <2> QED
    BY <2>1, <2>2, <2>3
<1>4. CASE CreateMuxer
  <2>1. PlatformType'
    BY <1>4 DEF CreateMuxer, PlatformType, StartNumbered, fieldVars, callVars, timeVars, Goto
  <2>2. DrainType'
    BY <1>4 DEF CreateMuxer, fieldVars, callVars, timeVars, drainVars, codecVars
  <2>3. CodecType'
    BY <1>4 DEF CreateMuxer, CodecType, codecVars, Item
  <2> QED
    BY <2>1, <2>2, <2>3
<1>5. CASE Go
  <2>1. PlatformType'
    BY <1>5 DEF Go, PlatformType, StartNumbered, fieldVars, callVars, timeVars, Goto
  <2>2. DrainType'
    BY <1>5 DEF Go, DrainType, LocalsInUse, drainVars, DrainTo, EndPass
  <2>3. CodecType'
    BY <1>5 DEF Go, fieldVars, callVars, timeVars, drainVars, codecVars
  <2> QED
    BY <2>1, <2>2, <2>3
<1>6. CASE SignalEndOfInputStream
  <2>1. PlatformType'
    BY <1>6 DEF SignalEndOfInputStream, PlatformType, StartNumbered, fieldVars, callVars,
       timeVars, Goto
  <2>2. DrainType'
    BY <1>6 DEF SignalEndOfInputStream, fieldVars, callVars, timeVars, drainVars, codecVars
  <2>3. CodecType'
    BY <1>6 DEF SignalEndOfInputStream, CodecType, codecVars, Item
  <2> QED
    BY <2>1, <2>2, <2>3
<1>7. CASE Sleep
  <2>1. PlatformType'
    BY <1>7 DEF Sleep, PlatformType, StartNumbered, fieldVars, callVars, timeVars, Goto, KeptUp
  <2>2. DrainType'
    BY <1>7 DEF Sleep, fieldVars, callVars, timeVars, drainVars, codecVars
  <2>3. CodecType'
    BY <1>7 DEF Sleep, fieldVars, callVars, timeVars, drainVars, codecVars
  <2> QED
    BY <2>1, <2>2, <2>3
<1>8. CASE CleanupCodec
  <2>1. PlatformType'
    BY <1>8 DEF CleanupCodec, PlatformType, StartNumbered, fieldVars, callVars, timeVars, Goto
  <2>2. DrainType'
    BY <1>8 DEF CleanupCodec, fieldVars, callVars, timeVars, drainVars, codecVars
  <2>3. CodecType'
    BY <1>8, CleanupCodecType
  <2> QED
    BY <2>1, <2>2, <2>3
<1>9. CASE CleanupMuxer
  <2>1. PlatformType'
    BY <1>9 DEF CleanupMuxer, PlatformType, StartNumbered, fieldVars, callVars, timeVars, Goto
  <2>2. DrainType'
    BY <1>9 DEF CleanupMuxer, fieldVars, callVars, timeVars, drainVars, codecVars
  <2>3. CodecType'
    BY <1>9 DEF CleanupMuxer, CodecType, codecVars, Item
  <2> QED
    BY <2>1, <2>2, <2>3
<1>10. ASSUME NEW s \in Session, Test(s) PROVE TypeInv'
  <2>1. PlatformType'
    BY <1>10 DEF Test, PlatformType, StartNumbered, fieldVars, callVars, timeVars, Goto
  <2>2. DrainType'
    BY <1>10 DEF Test, DrainType, LocalsInUse, drainVars, DrainTo, EndPass
  <2>3. CodecType'
    BY <1>10 DEF Test, fieldVars, callVars, timeVars, drainVars, codecVars
  <2> QED
    BY <2>1, <2>2, <2>3
<1>11. ASSUME NEW s \in Session, ReadCodec(s) PROVE TypeInv'
  <2>1. PlatformType'
    BY <1>11 DEF ReadCodec, fieldVars, callVars, timeVars, drainVars, codecVars
  <2>2. DrainType'
    BY <1>11 DEF ReadCodec, DrainType, LocalsInUse, drainVars, DrainTo, EndPass, PlatformType
  <2>3. CodecType'
    BY <1>11 DEF ReadCodec, fieldVars, callVars, timeVars, drainVars, codecVars
  <2> QED
    BY <2>1, <2>2, <2>3
<1>12. ASSUME NEW s \in Session, Dequeue(s) PROVE TypeInv'
  <2>1. PlatformType'
    BY <1>12 DEF Dequeue, fieldVars, callVars, timeVars, drainVars, codecVars
  <2>2. DrainType'
    <3>1. local[s] \in Session
      BY <1>12 DEF Dequeue, DrainType, LocalsInUse
    <3>2. output[local[s]] # <<>> => Head(output[local[s]]) \in Item
      BY <3>1, QueueShrinks DEF CodecType
    <3>3. /\ local' = local \/ local' = [local EXCEPT ![s] = None]
          /\ local'[s] \in Session \/ drain'[s] \in {"test", "done"}
      BY <1>12, <3>1 DEF Dequeue, DrainType, DrainTo, EndPass
    <3>4. \E l \in {"test", "done", "format", "buffer"} : drain' = [drain EXCEPT ![s] = l]
      BY <1>12 DEF Dequeue, DrainTo, EndPass
    <3>5. item' \in [Session -> {"none", "format", "frame", "eos"}]
      BY <1>12, <3>2 DEF Dequeue, DrainType, EndPass, Item
    <3>6. local' \in [Session -> Ref]
      BY <3>3 DEF DrainType
    <3>7. drain' \in [Session -> {"none", "test", "read", "dequeue", "format",
                                  "track", "started", "buffer", "done"}]
      BY <3>4 DEF DrainType
    <3>8. ASSUME NEW u \in Session,
                 drain'[u] \in {"dequeue", "format", "track", "started", "buffer"}
          PROVE  local'[u] \in Session
      <4>1. CASE u = s
        BY <4>1, <3>3, <3>8
      <4>2. CASE u # s
        <5>1. drain'[u] = drain[u] /\ local'[u] = local[u]
          BY <4>2, <3>3, <3>4 DEF DrainType
        <5> QED
          BY <5>1, <3>8 DEF DrainType, LocalsInUse
      <4> QED
        BY <4>1, <4>2
    <3> QED
      BY <3>5, <3>6, <3>7, <3>8 DEF DrainType, LocalsInUse
  <2>3. CodecType'
    <3>1. local[s] \in Session
      BY <1>12 DEF Dequeue, DrainType, LocalsInUse
    <3>2. /\ UNCHANGED <<codec, surface, format, eos, muxer>>
          /\ \/ UNCHANGED output
             \/ /\ output[local[s]] # <<>>
                /\ output' = [output EXCEPT ![local[s]] = Tail(@)]
      BY <1>12 DEF Dequeue
    <3>3. output[local[s]] # <<>> => /\ Tail(output[local[s]]) \in Seq(Item)
                                    /\ Len(Tail(output[local[s]])) <= Cap
      BY <3>1, QueueShrinks DEF CodecType
    <3>4. output' \in [Session -> Seq(Item)]
      BY <3>1, <3>2, <3>3 DEF CodecType
    <3>5. \A u \in Session : Len(output'[u]) <= Cap
      BY <3>1, <3>2, <3>3 DEF CodecType
    <3> QED
      BY <3>2, <3>4, <3>5 DEF CodecType
  <2> QED
    BY <2>1, <2>2, <2>3
<1>13a. ASSUME NEW s \in Session, AddTrack(s) PROVE TypeInv'
  <2>1. PlatformType'
    BY <1>13a DEF AddTrack, fieldVars, callVars, timeVars, drainVars, codecVars
  <2>2. DrainType'
    BY <1>13a DEF AddTrack, DrainType, LocalsInUse, drainVars, DrainTo, EndPass, PlatformType
  <2>3. CodecType'
    <3>1. /\ UNCHANGED codecVars
          /\ UNCHANGED muxer \/ muxer' = [muxer EXCEPT ![mediaMuxer] = "tracked"]
      BY <1>13a DEF AddTrack, MuxerTo
    <3> QED
      BY <3>1 DEF CodecType, codecVars
  <2> QED
    BY <2>1, <2>2, <2>3
<1>13. ASSUME NEW s \in Session, StartMuxer(s) PROVE TypeInv'
  <2>1. PlatformType'
    BY <1>13 DEF StartMuxer, fieldVars, callVars, timeVars, drainVars, codecVars
  <2>2. DrainType'
    BY <1>13 DEF StartMuxer, DrainType, LocalsInUse, drainVars, DrainTo, EndPass, PlatformType
  <2>3. CodecType'
    <3>1. /\ UNCHANGED codecVars
          /\ UNCHANGED muxer \/ muxer' = [muxer EXCEPT ![mediaMuxer] = "started"]
      BY <1>13 DEF StartMuxer, MuxerTo
    <3> QED
      BY <3>1 DEF CodecType, codecVars
  <2> QED
    BY <2>1, <2>2, <2>3
<1>14. ASSUME NEW s \in Session, MuxerIsStarted(s) PROVE TypeInv'
  <2>1. PlatformType'
    BY <1>14 DEF MuxerIsStarted, PlatformType, StartNumbered, fieldVars, callVars,
       timeVars, Goto
  <2>2. DrainType'
    BY <1>14 DEF MuxerIsStarted, DrainType, LocalsInUse, drainVars, DrainTo, EndPass
  <2>3. CodecType'
    BY <1>14 DEF MuxerIsStarted, fieldVars, callVars, timeVars, drainVars, codecVars
  <2> QED
    BY <2>1, <2>2, <2>3
<1>15. ASSUME NEW s \in Session, WriteBuffer(s) PROVE TypeInv'
  <2>1. PlatformType'
    BY <1>15 DEF WriteBuffer, fieldVars, callVars, timeVars, drainVars, codecVars
  <2>2. DrainType'
    BY <1>15 DEF WriteBuffer, DrainType, LocalsInUse, drainVars, DrainTo, EndPass
  <2>3. CodecType'
    <3>1. /\ UNCHANGED <<codec, muxer, surface, output, format>>
          /\ eos' = eos \/ eos' = [eos EXCEPT ![local[s]] = "drained"]
      BY <1>15 DEF WriteBuffer
    <3> QED
      BY <3>1 DEF CodecType
  <2> QED
    BY <2>1, <2>2, <2>3
<1>16. ASSUME NEW s \in Session, Encode(s) PROVE TypeInv'
  <2>1. PlatformType'
    BY <1>16 DEF Encode, fieldVars, callVars, timeVars, drainVars, codecVars
  <2>2. DrainType'
    BY <1>16 DEF Encode, fieldVars, callVars, timeVars, drainVars, codecVars
  <2>3. CodecType'
    BY <1>16, EncodeType
  <2> QED
    BY <2>1, <2>2, <2>3
<1>17. ASSUME NEW s \in Session, Draw(s) PROVE TypeInv'
  <2>1. PlatformType'
    BY <1>17 DEF Draw, fieldVars, callVars, timeVars, drainVars, codecVars
  <2>2. DrainType'
    BY <1>17 DEF Draw, fieldVars, callVars, timeVars, drainVars, codecVars
  <2>3. CodecType'
    BY <1>17 DEF Draw, CodecType, codecVars, Item
  <2> QED
    BY <2>1, <2>2, <2>3
<1>18. CASE UNCHANGED vars
  BY <1>18 DEF vars
<1> QED
  BY <1>1, <1>2, <1>3, <1>4, <1>5, <1>6, <1>7, <1>8, <1>9, <1>10, <1>11, <1>12, <1>13,
     <1>13a, <1>14, <1>15, <1>16, <1>17, <1>18 DEF Next, RecorderStep, MainStep, DrainStep

\* The fields, the calls, the encoder threads and the codecs stay in type.
THEOREM RecorderTypeCorrect == Spec => []TypeOK
<1> QED
  BY TypeInit, TypeStep, TypeParts, PTL DEF Spec

-----------------------------------------------------------------------------
(* Nothing is left between two recordings.                                 *)

\* Whatever runs or is open, the fields hold: the platform thread can get at it.
Held ==
    \A s \in Session :
        /\ codec[s] = "running" => mediaCodec = s
        /\ muxer[s] \in {"open", "tracked", "started"} => mediaMuxer = s

\* What the fields hold in each phase of a call.  cleanup() empties them one by
\* one, and startRecording() fills them in the same order.
Phases ==
    /\ main # "idle" => ~isRecording
    /\ (main = "codec" \/ (main = "idle" /\ ~isRecording)) => encoderSurface = None
    /\ (main \in {"codec", "closing"} \/ (main = "idle" /\ ~isRecording)) => mediaCodec = None
    /\ (main \in {"codec", "muxer"} \/ (main = "idle" /\ ~isRecording)) => mediaMuxer = None

CleanInv == Held /\ Phases

\* At the start nothing is held.
LEMMA CleanInit == Init => CleanInv
BY DEF Init, CleanInv, Held, Phases

\* What the fields do not hold neither runs nor is open.
LEMMA CleanImplies == TypeInv /\ CleanInv => CleanBetween
BY DEF TypeInv, CleanInv, Held, Phases, CleanBetween, Session, None

\* An encoder thread changes no field but muxerStarted, and of the objects only
\* the muxer it starts, which the field mediaMuxer holds.
LEMMA DrainKeepsClean ==
    ASSUME TypeInv, CleanInv, NEW s \in Session, DrainStep(s) \/ Encode(s) \/ Draw(s)
    PROVE  CleanInv'
<1>1. UNCHANGED <<isRecording, mediaCodec, mediaMuxer, encoderSurface, main, codec>>
  BY DEF DrainStep, Test, ReadCodec, Dequeue, AddTrack, StartMuxer, MuxerIsStarted, WriteBuffer,
         Encode, Draw, fieldVars, callVars, codecVars
<1>2. \/ UNCHANGED muxer
      \/ /\ mediaMuxer # None
         /\ \E m \in {"tracked", "started"} : muxer' = [muxer EXCEPT ![mediaMuxer] = m]
  BY DEF DrainStep, Test, ReadCodec, Dequeue, AddTrack, StartMuxer, MuxerIsStarted, WriteBuffer,
         Encode, Draw, MuxerTo
<1>3. Phases'
  BY <1>1 DEF CleanInv, Phases
<1>4. ASSUME NEW u \in Session, muxer'[u] \in {"open", "tracked", "started"}
      PROVE  mediaMuxer' = u
  <2>1. CASE u = mediaMuxer
    BY <2>1, <1>1
  <2>2. CASE u # mediaMuxer
    <3>1. muxer'[u] = muxer[u]
      BY <2>2, <1>2 DEF TypeInv, CodecType
    <3> QED
      BY <3>1, <1>1, <1>4 DEF CleanInv, Held
  <2> QED
    BY <2>1, <2>2
<1>5. Held'
  BY <1>1, <1>4 DEF CleanInv, Held
<1> QED
  BY <1>3, <1>5 DEF CleanInv

\* Every action keeps what the fields hold.
LEMMA CleanStep == TypeInv /\ CleanInv /\ [Next]_vars => CleanInv'
<1> SUFFICES ASSUME TypeInv, CleanInv, [Next]_vars PROVE CleanInv'
  OBVIOUS
<1> USE Refs DEF CleanInv, Goto
<1>1. CASE StartRecording
  <2>1. UNCHANGED <<codec, muxer, mediaCodec, mediaMuxer>>
    BY <1>1 DEF StartRecording, fieldVars, codecVars
  <2>2. Held'
    BY <2>1 DEF Held
  <2>3. Phases'
    BY <1>1 DEF StartRecording, Phases, fieldVars, codecVars
  <2> QED
    BY <2>2, <2>3
<1>2. CASE StopRecording
  <2>1. UNCHANGED <<codec, muxer, mediaCodec, mediaMuxer>>
    BY <1>2 DEF StopRecording, fieldVars, codecVars
  <2>2. Held'
    BY <2>1 DEF Held
  <2>3. Phases'
    BY <1>2 DEF StopRecording, Phases, fieldVars, codecVars
  <2> QED
    BY <2>2, <2>3
<1>3. CASE CreateCodec
  <2>2. Held'
    <3>1. session \in Session
      BY <1>3 DEF CreateCodec, TypeInv, PlatformType, StartNumbered
    <3>2. ASSUME NEW s \in Session, codec'[s] = "running" PROVE mediaCodec' = s
      <4>1. codec[s] # "running"
        BY <1>3 DEF CreateCodec, Held, Phases, Session, None
      <4>2. CASE s = session
        BY <1>3, <3>1, <3>2, <4>1, <4>2 DEF CreateCodec, TypeInv, CodecType
      <4>3. CASE s # session
        BY <1>3, <3>2, <4>1, <4>3 DEF CreateCodec, TypeInv, CodecType
      <4> QED
        BY <4>2, <4>3
    <3>3. UNCHANGED <<muxer, mediaMuxer>>
      BY <1>3 DEF CreateCodec
    <3> QED
      BY <3>2, <3>3 DEF Held
  <2>3. Phases'
    BY <1>3 DEF CreateCodec, Phases, codecVars
  <2> QED
    BY <2>2, <2>3
<1>4. CASE CreateMuxer
  <2>2. Held'
    <3>1. session \in Session
      BY <1>4 DEF CreateMuxer, TypeInv, PlatformType, StartNumbered
    <3>2. ASSUME NEW s \in Session, muxer'[s] \in {"open", "tracked", "started"} PROVE mediaMuxer' = s
      <4>1. muxer[s] \notin {"open", "tracked", "started"}
        BY <1>4 DEF CreateMuxer, Held, Phases, Session, None
      <4>2. muxer' = muxer \/ (mediaMuxer' = session /\ muxer' = [muxer EXCEPT ![session] = "open"])
        BY <1>4 DEF CreateMuxer
      <4> QED
        BY <3>1, <3>2, <4>1, <4>2 DEF TypeInv, CodecType
    <3>3. UNCHANGED <<codec, mediaCodec>>
      BY <1>4 DEF CreateMuxer, codecVars
    <3> QED
      BY <3>2, <3>3 DEF Held
  <2>3. Phases'
    BY <1>4 DEF CreateMuxer, Phases, codecVars
  <2> QED
    BY <2>2, <2>3
<1>5. CASE Go
  <2>1. UNCHANGED <<codec, muxer, mediaCodec, mediaMuxer>>
    BY <1>5 DEF Go, fieldVars, codecVars
  <2>2. Held'
    BY <2>1 DEF Held
  <2>3. Phases'
    BY <1>5 DEF Go, Phases, fieldVars, codecVars
  <2> QED
    BY <2>2, <2>3
<1>6. CASE SignalEndOfInputStream
  <2>1. UNCHANGED <<codec, muxer, mediaCodec, mediaMuxer>>
    BY <1>6 DEF SignalEndOfInputStream, fieldVars, codecVars
  <2>2. Held'
    BY <2>1 DEF Held
  <2>3. Phases'
    BY <1>6 DEF SignalEndOfInputStream, Phases, fieldVars, codecVars
  <2> QED
    BY <2>2, <2>3
<1>7. CASE Sleep
  <2>1. UNCHANGED <<codec, muxer, mediaCodec, mediaMuxer>>
    BY <1>7 DEF Sleep, fieldVars, codecVars
  <2>2. Held'
    BY <2>1 DEF Held
  <2>3. Phases'
    BY <1>7 DEF Sleep, Phases, fieldVars, codecVars
  <2> QED
    BY <2>2, <2>3
<1>8. CASE CleanupCodec
  <2>2. Held'
    BY <1>8 DEF CleanupCodec, Held, Phases, TypeInv, PlatformType, CodecType,
       StartNumbered, codecVars
  <2>3. Phases'
    BY <1>8 DEF CleanupCodec, Phases, codecVars
  <2> QED
    BY <2>2, <2>3
<1>9. CASE CleanupMuxer
  <2>2. Held'
    BY <1>9 DEF CleanupMuxer, Held, Phases, TypeInv, PlatformType, CodecType,
       StartNumbered, codecVars
  <2>3. Phases'
    BY <1>9 DEF CleanupMuxer, Phases, codecVars
  <2> QED
    BY <2>2, <2>3
<1>10. ASSUME NEW s \in Session, DrainStep(s) \/ Encode(s) \/ Draw(s) PROVE CleanInv'
  BY <1>10, DrainKeepsClean
<1>11. CASE UNCHANGED vars
  BY <1>11 DEF vars, fieldVars, callVars, codecVars, Held, Phases
<1> QED
  BY <1>1, <1>2, <1>3, <1>4, <1>5, <1>6, <1>7, <1>8, <1>9, <1>10, <1>11
     DEF Next, RecorderStep, MainStep

\* Between two recordings the fields hold nothing, no codec runs and no file is
\* open, however far an encoder thread lags behind.
THEOREM CleanlyBetween == Spec => []CleanBetween
<1>1. Init => TypeInv /\ CleanInv
  BY TypeInit, CleanInit
<1>2. TypeInv /\ CleanInv /\ [Next]_vars => (TypeInv /\ CleanInv)'
  BY TypeStep, CleanStep
<1> QED
  BY <1>1, <1>2, CleanImplies, PTL DEF Spec

-----------------------------------------------------------------------------
(* As long as the encoder threads keep up.                                 *)

\* No two encoder threads overlap, and none lives when an encoder has been created
\* and its own thread has not started.
ThreadsApart ==
    punctual => /\ \A s, u \in Draining : s = u
                /\ main \in {"muxer", "go"} => Draining = {}

\* The muxer of a recording is there before the first pass of its thread, not yet
\* started; the thread starts it before it says so.
MuxerFollows ==
    punctual =>
        /\ main = "go" => mediaMuxer \in Session /\ ~muxerStarted
        /\ isRecording =>
              /\ mediaMuxer \in Session
              /\ (muxerStarted \/ \E s \in Session : drain[s] = "started")
                    => muxer[mediaMuxer] = "started"

PaceInv == ThreadsApart /\ MuxerFollows

\* Nobody catches up again, and no step but Go starts an encoder thread.
LEMMA OnlyGoStarts ==
    ASSUME TypeInv, [Next]_vars
    PROVE  /\ punctual' => punctual
           /\ Go \/ Draining' \subseteq Draining
<1>1. CASE StartRecording \/ StopRecording
  BY <1>1 DEF StartRecording, StopRecording, drainVars, timeVars, Draining
<1>2. CASE CreateCodec \/ CreateMuxer \/ SignalEndOfInputStream \/ Sleep \/ CleanupCodec \/ CleanupMuxer
  BY <1>2 DEF CreateCodec, CreateMuxer, SignalEndOfInputStream, Sleep, CleanupCodec,
     CleanupMuxer,
     drainVars, timeVars, Draining, TypeInv, PlatformType
<1>3. CASE Go
  BY <1>3 DEF Go, timeVars
<1>4. ASSUME NEW s \in Session, DrainStep(s)
      PROVE  punctual' = punctual /\ Draining' \subseteq Draining
  <2>1. /\ drain[s] \in {"test", "read", "dequeue", "format", "track", "started", "buffer"}
        /\ \A u \in Session \ {s} : drain'[u] = drain[u]
    BY <1>4 DEF DrainStep, Test, ReadCodec, Dequeue, AddTrack, StartMuxer, MuxerIsStarted, WriteBuffer,
       DrainTo, EndPass, TypeInv, DrainType
  <2>2. punctual' = punctual
    BY <1>4 DEF DrainStep, Test, ReadCodec, Dequeue, AddTrack, StartMuxer, MuxerIsStarted,
       WriteBuffer, timeVars
  <2> QED
    BY <2>1, <2>2 DEF Draining
<1>5. ASSUME NEW s \in Session, Encode(s) \/ Draw(s)
      PROVE  punctual' = punctual /\ Draining' \subseteq Draining
  BY <1>5 DEF Encode, Draw, drainVars, timeVars, Draining
<1>6. CASE UNCHANGED vars
  BY <1>6 DEF vars, drainVars, timeVars, Draining
<1> QED
  BY <1>1, <1>2, <1>3, <1>4, <1>5, <1>6 DEF Next, RecorderStep, MainStep

\* An encoder is created when no codec runs: if the threads have kept up, none is left.
LEMMA CreatedAlone == TypeInv /\ CleanInv /\ CreateCodec /\ punctual' => Draining = {}
<1> SUFFICES ASSUME TypeInv, CleanInv, CreateCodec, punctual', NEW s \in Draining PROVE FALSE
  OBVIOUS
<1>1. main = "codec" /\ KeptUp
  BY DEF CreateCodec
<1>2. mediaCodec = None
  BY <1>1 DEF CleanInv, Phases
<1>3. s \in Session /\ local[s] \in Session /\ codec[local[s]] = "running"
  BY <1>1 DEF KeptUp, AtRest, Draining, TypeInv, DrainType, LocalsInUse
<1> QED
  BY <1>2, <1>3, Refs DEF CleanInv, Held

\* At the start there is no encoder thread and no recording.
LEMMA PaceInit == Init => PaceInv
BY DEF Init, PaceInv, ThreadsApart, MuxerFollows, Draining

\* Every action keeps the threads apart, ...
LEMMA ThreadsApartStep == TypeInv /\ CleanInv /\ ThreadsApart /\ [Next]_vars => ThreadsApart'
<1> SUFFICES ASSUME TypeInv, CleanInv, ThreadsApart, [Next]_vars, punctual'
             PROVE  /\ \A s, u \in Draining' : s = u
                    /\ main' \in {"muxer", "go"} => Draining' = {}
  BY DEF ThreadsApart
<1>1. punctual /\ (\A s, u \in Draining : s = u) /\ (main \in {"muxer", "go"} => Draining = {})
  BY OnlyGoStarts DEF ThreadsApart
<1>2. CASE Go
  <2>1. Draining = {} /\ session \in Session /\ main' = "idle"
    BY <1>1, <1>2 DEF Go, Goto, TypeInv, PlatformType, StartNumbered
  <2>2. drain' = [drain EXCEPT ![session] = "test"]
    BY <1>2 DEF Go
  <2>3. Draining' \subseteq Draining \cup {session}
    BY <2>2 DEF Draining, TypeInv, DrainType
  <2> QED
    BY <2>1, <2>3
<1>3. CASE ~Go
  <2>1. Draining' \subseteq Draining
    BY <1>3, OnlyGoStarts
  <2>2. main' \in {"muxer", "go"} => main = main' \/ (main = "codec" /\ CreateCodec) \/ main = "muxer"
    BY DEF Next, vars, RecorderStep, MainStep, DrainStep, StartRecording, StopRecording,
       CreateMuxer,
       CreateCodec, Go, SignalEndOfInputStream, Sleep, CleanupCodec, CleanupMuxer, Goto, Test, ReadCodec,
       Dequeue, AddTrack, StartMuxer, MuxerIsStarted, WriteBuffer, Encode, Draw, callVars
  <2>3. main' \in {"muxer", "go"} => Draining = {}
    BY <1>1, <2>2, CreatedAlone
  <2> QED
    BY <1>1, <2>1, <2>3
<1> QED
  BY <1>2, <1>3

\* ... and the flag behind its muxer.
LEMMA MuxerFollowsStep ==
    TypeInv /\ CleanInv /\ ThreadsApart /\ MuxerFollows /\ [Next]_vars => MuxerFollows'
<1> SUFFICES ASSUME TypeInv, CleanInv, ThreadsApart, MuxerFollows, [Next]_vars, punctual'
             PROVE  /\ main' = "go" => mediaMuxer' \in Session /\ ~muxerStarted'
                    /\ isRecording' =>
                          /\ mediaMuxer' \in Session
                          /\ (muxerStarted' \/ \E s \in Session : drain'[s] = "started")
                                => muxer'[mediaMuxer'] = "started"
  BY DEF MuxerFollows
<1>1. punctual /\ (main = "go" => Draining = {})
  BY OnlyGoStarts DEF ThreadsApart
<1>2. /\ main = "go" => mediaMuxer \in Session /\ ~muxerStarted
      /\ isRecording =>
            /\ mediaMuxer \in Session
            /\ (muxerStarted \/ \E s \in Session : drain[s] = "started")
                  => muxer[mediaMuxer] = "started"
  BY <1>1 DEF MuxerFollows
<1>3. main # "idle" => ~isRecording
  BY DEF CleanInv, Phases
<1> USE DEF Goto
<1>4. CASE StartRecording \/ StopRecording
  <2>1. main' # "go" /\ UNCHANGED <<mediaMuxer, muxerStarted, muxer, drain>>
    BY <1>4 DEF StartRecording, StopRecording, fieldVars, drainVars
  <2>2. isRecording' => isRecording
    BY <1>4 DEF StartRecording, StopRecording, fieldVars
  <2> QED
    BY <1>2, <2>1, <2>2
<1>5. CASE CreateCodec \/ SignalEndOfInputStream \/ Sleep \/ CleanupCodec \/ CleanupMuxer
  <2>1. main # "idle" /\ main' # "go"
    BY <1>5 DEF CreateCodec, SignalEndOfInputStream, Sleep, CleanupCodec, CleanupMuxer
  <2>2. isRecording' => isRecording
    BY <1>5 DEF CreateCodec, SignalEndOfInputStream, Sleep, CleanupCodec, CleanupMuxer,
       fieldVars
  <2> QED
    BY <1>3, <2>1, <2>2
<1>6. CASE CreateMuxer
  <2>1. session \in Session /\ ~isRecording /\ isRecording' = isRecording
    BY <1>3, <1>6 DEF CreateMuxer, TypeInv, PlatformType, StartNumbered
  <2> QED
    BY <1>6, <2>1 DEF CreateMuxer
<1>7. CASE Go
  <2>1. /\ mediaMuxer \in Session /\ ~muxerStarted /\ Draining = {}
        /\ main' = "idle" /\ mediaMuxer' = mediaMuxer /\ muxerStarted' = muxerStarted
        /\ drain' = [drain EXCEPT ![session] = "test"]
    BY <1>1, <1>2, <1>7 DEF Go
  <2>2. \A s \in Session : drain[s] # "started"
    BY <2>1 DEF Draining
  <2>3. \A s \in Session : drain'[s] # "started"
    BY <2>1, <2>2 DEF TypeInv, DrainType
  <2> QED
    BY <2>1, <2>3
<1>8. ASSUME NEW s \in Session, DrainStep(s)
      PROVE  /\ main' = "go" => mediaMuxer' \in Session /\ ~muxerStarted'
             /\ isRecording' =>
                   /\ mediaMuxer' \in Session
                   /\ (muxerStarted' \/ \E u \in Session : drain'[u] = "started")
                         => muxer'[mediaMuxer'] = "started"
  <2>1. UNCHANGED <<main, mediaMuxer, isRecording>>
    BY <1>8 DEF DrainStep, Test, ReadCodec, Dequeue, AddTrack, StartMuxer, MuxerIsStarted, WriteBuffer,
       fieldVars, callVars
  <2>2. drain[s] \notin {"none", "done"} /\ \A u \in Session \ {s} : drain'[u] = drain[u]
    BY <1>8 DEF DrainStep, Test, ReadCodec, Dequeue, AddTrack, StartMuxer, MuxerIsStarted, WriteBuffer,
       DrainTo, EndPass, TypeInv, DrainType
  <2>3. main # "go"
    BY <1>1, <2>2 DEF Draining
  <2>3a. CASE AddTrack(s)
    <3>1. /\ muxerStarted' = muxerStarted /\ drain'[s] # "started"
          /\ \/ UNCHANGED muxer
             \/ mediaMuxer # None /\ muxer[mediaMuxer] # "started" /\ ~muxerStarted
      BY <2>3a DEF AddTrack, MuxerTo, DrainTo, EndPass, fieldVars, TypeInv, DrainType
    <3> QED
      BY <1>2, <2>1, <2>2, <2>3, <3>1
  <2>4. CASE StartMuxer(s)
    <3>1. /\ muxerStarted' = muxerStarted
          /\ \/ drain'[s] # "started" /\ UNCHANGED muxer
             \/ muxer' = [muxer EXCEPT ![mediaMuxer] = "started"]
             \/ mediaMuxer = None
      BY <2>4 DEF StartMuxer, MuxerTo, DrainTo, EndPass, fieldVars, TypeInv, DrainType
    <3> QED
      BY <1>2, <2>1, <2>2, <2>3, <3>1, Refs DEF TypeInv, CodecType
  <2>5. CASE MuxerIsStarted(s)
    <3>1. drain[s] = "started" /\ UNCHANGED muxer
      BY <2>5 DEF MuxerIsStarted
    <3> QED
      BY <1>2, <2>1, <2>3, <3>1
  <2>6. CASE Test(s) \/ ReadCodec(s) \/ Dequeue(s) \/ WriteBuffer(s)
    <3>1. UNCHANGED <<muxer, muxerStarted>> /\ drain'[s] # "started"
      BY <2>6 DEF Test, ReadCodec, Dequeue, WriteBuffer, DrainTo, EndPass, fieldVars,
         TypeInv, DrainType
    <3> QED
      BY <1>2, <2>1, <2>2, <2>3, <3>1
  <2> QED
    BY <1>8, <2>3a, <2>4, <2>5, <2>6 DEF DrainStep
<1>9. ASSUME NEW s \in Session, Encode(s) \/ Draw(s)
      PROVE  UNCHANGED <<main, mediaMuxer, isRecording, muxerStarted, muxer, drain>>
  BY <1>9 DEF Encode, Draw, fieldVars, callVars, drainVars
<1>10. CASE UNCHANGED vars
  BY <1>2, <1>10 DEF vars, fieldVars, callVars, drainVars
<1>11. CASE \E s \in Session : Encode(s) \/ Draw(s)
  <2>1. UNCHANGED <<main, mediaMuxer, isRecording, muxerStarted, muxer, drain>>
    BY <1>9, <1>11
  <2> QED
    BY <1>2, <2>1
<1> QED
  BY <1>4, <1>5, <1>6, <1>7, <1>8, <1>10, <1>11 DEF Next, RecorderStep, MainStep

\* The three invariants together.
LEMMA PaceKept == Spec => [](TypeInv /\ CleanInv /\ PaceInv)
<1>1. Init => TypeInv /\ CleanInv /\ PaceInv
  BY TypeInit, CleanInit, PaceInit
<1>2. TypeInv /\ CleanInv /\ PaceInv /\ [Next]_vars => (TypeInv /\ CleanInv /\ PaceInv)'
  BY TypeStep, CleanStep, ThreadsApartStep, MuxerFollowsStep DEF PaceInv
<1> QED
  BY <1>1, <1>2, PTL DEF Spec

\* No loop of an earlier recording drains the codec of the next one, as long as the
\* encoder threads keep up.
THEOREM DrainedByOne == Spec => []OneDrain
<1>1. PaceInv => OneDrain
  BY DEF PaceInv, ThreadsApart, OneDrain
<1> QED
  BY <1>1, PaceKept, PTL

\* While recording, muxerStarted is true of the muxer of this recording, as long as the
\* encoder threads keep up.
THEOREM StartedMeansStarted == Spec => []FlagIsTrue
<1>1. PaceInv => FlagIsTrue
  BY Refs DEF PaceInv, MuxerFollows, FlagIsTrue
<1> QED
  BY <1>1, PaceKept, PTL
=============================================================================
