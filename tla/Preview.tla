------------------------------- MODULE Preview -------------------------------
(***************************************************************************)
(* One UVCVideoView and the UVCController it was given, from initState to  *)
(* dispose, while the application is paused and resumed and the device may *)
(* be unplugged.  Async methods are tasks that let others run at every     *)
(* await; calls of compute() run on isolates of their own; the method      *)
(* channel carries requests and answers in order to UVCManager.kt, which   *)
(* keeps the textures and tells the native side which one to draw on.      *)
(*                                                                         *)
(* A native call whose try_lock finds m_lock taken acts as if there were   *)
(* no device: "c" is that choice, and "missed" records it.                 *)
(***************************************************************************)
EXTENDS Integers, Sequences, FiniteSets

CONSTANTS Size,        \* video sizes
          First,       \* the size that the view asks for
          MaxEvents    \* bound: life-cycle events, pauses and resumes in turn

ASSUME PreviewAssumption == First \in Size /\ "INVALID" \notin Size /\ MaxEvents \in Nat

\* The async calls: one for each life-cycle event, and one each of the others.
Event == 1..MaxEvents
init == 0
dispose == MaxEvents + 1
detached == MaxEvents + 2
setSize == MaxEvents + 3                \* by the user
Task == {init, dispose, detached, setSize} \cup Event
None == -1                              \* no texture
Texture == 0..(MaxEvents \div 2)        \* one for initState, one for each resume
Invalid == "INVALID"                    \* VideoSize.INVALID

VARIABLES attached, running, size, window,   \* the device and its holder
          producers, created,     \* mSurfaceProducers, and how many there were
          activity,               \* FALSE after onDetachedFromActivity
          requests, replies,      \* the method channel, oldest first
          app, events,            \* the application, and its events so far
          textureId, starts,      \* UVCController, and its pending start isolates
          view, _textureId, _currentSize,    \* UVCVideoViewState
          task, got,              \* what each async method awaits, and its size
          missed,                 \* history: a try_lock has failed
          overlaps                \* history: what was asked for twice at a time

nativeVars  == <<attached, running, size, window>>
kotlinVars  == <<producers, created, activity>>
channelVars == <<requests, replies>>
appVars     == <<app, events>>
dartVars    == <<textureId, starts>>
viewVars    == <<view, _textureId, _currentSize>>
taskVars    == <<task, got>>
historyVars == <<missed, overlaps>>
vars == <<nativeVars, kotlinVars, channelVars, appVars, dartVars, viewVars,
          taskVars, historyVars>>

Request == [task : Task, method : {"createTexture", "releaseTexture"},
            texture : Texture \cup {None}]
Reply == [task : Task, texture : Texture \cup {None}]

TypeOK ==
    /\ attached \in BOOLEAN /\ running \in BOOLEAN
    /\ size \in Size /\ window \in Texture \cup {None}
    /\ producers \subseteq Texture /\ created \in Nat /\ activity \in BOOLEAN
    /\ requests \in Seq(Request) /\ replies \in Seq(Reply)
    /\ app \in {"resumed", "paused"} /\ events \in 0..MaxEvents
    /\ textureId \in Texture \cup {None} /\ starts \in Nat
    /\ view \in {"new", "mounted", "disposed"}
    /\ _textureId \in Texture \cup {None} /\ _currentSize \in Size \cup {Invalid}
    /\ task \in [Task -> {"new", "set", "get", "got", "createTexture",
                          "releaseTexture", "posted", "done"}]
    /\ got \in [Task -> Size \cup {Invalid}]
    /\ missed \in BOOLEAN /\ overlaps \subseteq {"texture", "size", "stop"}

Init ==
    /\ attached = TRUE /\ running = FALSE /\ size \in Size /\ window = None
    /\ producers = {} /\ created = 0 /\ activity = TRUE
    /\ requests = <<>> /\ replies = <<>>
    /\ app = "resumed" /\ events = 0
    /\ textureId = None /\ starts = 0
    /\ view = "new" /\ _textureId = None /\ _currentSize = First
    /\ task = [t \in Task |-> "new"]
    /\ got = [t \in Task |-> Invalid]
    /\ missed = FALSE /\ overlaps = {}

-----------------------------------------------------------------------------
(* The native side, as in HolderRegistry: a call reaches the device unless *)
(* it is gone or m_lock is taken.                                          *)

Reaches(c) == attached /\ ~c
Miss(c)    == missed' = (missed \/ (c /\ attached))

Stop(c)         == running' = (running /\ ~Reaches(c)) /\ Miss(c)
SetWindow(w, c) == window' = (IF Reaches(c) THEN w ELSE window) /\ Miss(c)

\* The isolate of start() gets to run.  "c" is also that uvc_start answers an error:
\* then too the device does not stream, and nobody tries again.
StartRuns(c) ==
    /\ starts > 0
    /\ starts' = starts - 1
    /\ running' = (running \/ Reaches(c))
    /\ Miss(c)
    /\ UNCHANGED <<attached, size, window, kotlinVars, channelVars, appVars,
                   textureId, viewVars, taskVars, overlaps>>

\* The device goes, and with its holder what was set for it.  UVCManager will
\* handle the event.
Unplug ==
    /\ attached
    /\ attached' = FALSE /\ running' = FALSE /\ window' = None /\ size' = First
    /\ task' = [task EXCEPT ![detached] = "posted"]
    /\ UNCHANGED <<kotlinVars, channelVars, appVars, dartVars, viewVars,
                   got, historyVars>>

-----------------------------------------------------------------------------
(* UVCController.                                                          *)

Overlap(what, busy) == overlaps' = overlaps \cup (IF busy THEN {what} ELSE {})
Awaits(l) == \E t \in Task : task[t] \in l

Asking == {"set", "get", "got", "createTexture"}

\* Mutation of StopAndRelease: textureId is reset only by the answer.
StopThenRelease(t, c) ==
    /\ Stop(c)
    /\ Overlap("stop", starts > 0 \/ \E u \in Task \ {setSize} : task[u] \in Asking)
    /\ IF textureId # None
       THEN /\ requests' = Append(requests, [task |-> t, method |-> "releaseTexture",
                                             texture |-> textureId])
            /\ task' = [task EXCEPT ![t] = "releaseTexture"]
       ELSE /\ task' = [task EXCEPT ![t] = "done"]
            /\ UNCHANGED requests
    /\ UNCHANGED textureId

\* Mutation of StopAndRelease: the device goes on.
ReleaseWithoutStop(t, c) ==
    /\ Overlap("stop", starts > 0 \/ \E u \in Task \ {setSize} : task[u] \in Asking)
    /\ textureId' = None
    /\ IF textureId # None
       THEN /\ requests' = Append(requests, [task |-> t, method |-> "releaseTexture",
                                             texture |-> textureId])
            /\ task' = [task EXCEPT ![t] = "releaseTexture"]
       ELSE /\ task' = [task EXCEPT ![t] = "done"]
            /\ UNCHANGED requests
    /\ UNCHANGED <<running, missed>>

\* stop() and releaseTexture(), up to the answer, as in pause, dispose, detached.
StopAndRelease(t, c) ==
    /\ Stop(c)
    /\ Overlap("stop", starts > 0 \/ \E u \in Task \ {setSize} : task[u] \in Asking)
    /\ textureId' = None
    /\ IF textureId # None
       THEN /\ requests' = Append(requests, [task |-> t, method |-> "releaseTexture",
                                             texture |-> textureId])
            /\ task' = [task EXCEPT ![t] = "releaseTexture"]
       ELSE /\ task' = [task EXCEPT ![t] = "done"]
            /\ UNCHANGED requests

\* start(), where textureId is now tex: the state is CONNECTED unless the device
\* streams, and also when it streams and its holder could not be looked up.
Start(tex) ==
    /\ tex # None
    /\ \/ starts' = starts + 1
       \/ Reaches(FALSE) /\ running /\ UNCHANGED starts

\* The method returns; its local size with it.
Done(t) ==
    /\ task' = [task EXCEPT ![t] = "done"]
    /\ got' = [got EXCEPT ![t] = Invalid]

\* What initState and a resume do once there is a texture.
Show(t, tex) ==
    /\ Start(tex)
    /\ IF view = "mounted"
       THEN _textureId' = tex /\ _currentSize' = got[t]
       ELSE UNCHANGED <<_textureId, _currentSize>>
    /\ Done(t)

\* Mutation of CreateOrShow: textureId is not looked at.
CreateAlways(t) ==
    /\ requests' = Append(requests, [task |-> t, method |-> "createTexture",
                                     texture |-> None])
    /\ Overlap("texture", Awaits({"createTexture"}))
    /\ task' = [task EXCEPT ![t] = "createTexture"]
    /\ UNCHANGED <<starts, _textureId, _currentSize, got>>

\* createTexture(), when the size has been answered.
CreateOrShow(t) ==
    IF textureId = None
    THEN /\ requests' = Append(requests, [task |-> t, method |-> "createTexture",
                                          texture |-> None])
         /\ Overlap("texture", Awaits({"createTexture"}))
         /\ task' = [task EXCEPT ![t] = "createTexture"]
         /\ UNCHANGED <<starts, _textureId, _currentSize, got>>
    ELSE /\ Show(t, textureId)
         /\ UNCHANGED <<requests, overlaps>>

\* Mutation of Resizes: the holder keeps a size that the device does not have.
ResizesUnchecked(t) ==
    /\ task[t] = "set"
    /\ IF attached
       THEN size' \in {size} \cup (IF t = init THEN {First} ELSE Size \cup {Invalid})
       ELSE UNCHANGED size
    /\ task' = [task EXCEPT ![t] = "get"]
    /\ UNCHANGED <<attached, running, window, kotlinVars, channelVars, appVars,
                   dartVars, viewVars, got, historyVars>>

\* The isolates of setSize and getCurrentSize: set, then get.
Resizes(t) ==
    /\ task[t] = "set"
    /\ IF attached
       THEN size' \in {size} \cup (IF t = init THEN {First} ELSE Size)
       ELSE UNCHANGED size
    /\ task' = [task EXCEPT ![t] = "get"]
    /\ UNCHANGED <<attached, running, window, kotlinVars, channelVars, appVars,
                   dartVars, viewVars, got, historyVars>>

GetsSize(t) ==
    /\ task[t] = "get"
    /\ got' = [got EXCEPT ![t] = IF attached THEN size ELSE Invalid]
    /\ task' = [task EXCEPT ![t] = "got"]
    /\ UNCHANGED <<nativeVars, kotlinVars, channelVars, appVars, dartVars,
                   viewVars, historyVars>>

\* An await of setSize or getCurrentSize begins.  Its answer is used when there is
\* a texture, so a question is open until then.
AskSize(t, l) ==
    /\ task' = [task EXCEPT ![t] = l]
    /\ Overlap("size", Awaits(Asking))

-----------------------------------------------------------------------------
(* UVCVideoViewState.  Widgets are built and disposed in frames, which are *)
(* drawn while the application is resumed.                                 *)

\* getController throws once the device is no longer listed.
InitState ==
    /\ view = "new"
    /\ task[detached] \in {"new", "posted"}
    /\ view' = "mounted"
    /\ AskSize(init, "set")
    /\ UNCHANGED <<nativeVars, kotlinVars, channelVars, appVars, dartVars,
                   _textureId, _currentSize, got, missed>>

SetSize ==
    /\ view = "mounted" /\ task[setSize] = "new"
    /\ AskSize(setSize, "set")
    /\ UNCHANGED <<nativeVars, kotlinVars, channelVars, appVars, dartVars,
                   viewVars, got, missed>>

\* Life-cycle events: the view is told of them while it is mounted, before and
\* after that they change nothing.
Paused(c) ==
    /\ view = "mounted" /\ app = "resumed" /\ events < MaxEvents
    /\ app' = "paused" /\ events' = events + 1
    /\ StopAndRelease(events', c)
    /\ _textureId' = (IF textureId = None THEN None ELSE _textureId)
    /\ UNCHANGED <<attached, size, window, kotlinVars, replies, starts, view,
                   _currentSize, got>>

Resumed ==
    /\ view = "mounted" /\ app = "paused" /\ activity /\ events < MaxEvents
    /\ app' = "resumed" /\ events' = events + 1
    /\ AskSize(events', "get")
    /\ UNCHANGED <<nativeVars, kotlinVars, channelVars, dartVars, viewVars, got, missed>>

Dispose(c) ==
    /\ view = "mounted" /\ app = "resumed"
    /\ view' = "disposed"
    /\ StopAndRelease(dispose, c)
    /\ UNCHANGED <<attached, size, window, kotlinVars, replies, appVars, starts,
                   _textureId, _currentSize, got>>

\* UVCManager drops the controller from its list and calls detached().
Detached(c) ==
    /\ task[detached] = "posted"
    /\ StopAndRelease(detached, c)
    /\ UNCHANGED <<attached, size, window, kotlinVars, replies, appVars, starts,
                   viewVars, got>>

\* The size is there: initState gives up without one, a resume does not look.
SizeAnswered(t) ==
    /\ task[t] = "got"
    /\ \/ /\ t = setSize
          /\ _currentSize' = (IF view = "mounted" THEN got[t] ELSE _currentSize)
          /\ Done(t)
          /\ UNCHANGED <<requests, starts, _textureId, overlaps>>
       \/ /\ t = init /\ got[t] = Invalid
          /\ Done(t)
          /\ UNCHANGED <<requests, starts, _textureId, _currentSize, overlaps>>
       \/ /\ t = init => got[t] # Invalid
          /\ t # setSize
          /\ CreateOrShow(t)
    /\ UNCHANGED <<nativeVars, kotlinVars, replies, appVars, textureId, view, missed>>

\* Mutation of Receive: answers may overtake each other.
ReceiveLate ==
    /\ \E i \in DOMAIN replies :
        /\ replies' = SubSeq(replies, 1, i - 1) \o SubSeq(replies, i + 1, Len(replies))
        /\ LET t == replies[i].task  tex == replies[i].texture IN
           \/ /\ task[t] = "createTexture"
              /\ textureId' = tex
              /\ Show(t, tex)
           \/ /\ task[t] = "releaseTexture"
              /\ _textureId' = (IF view = "mounted" /\ t \in Event
                                THEN None ELSE _textureId)
              /\ Done(t)
              /\ UNCHANGED <<textureId, starts, _currentSize>>
    /\ UNCHANGED <<nativeVars, kotlinVars, requests, appVars, view, historyVars>>

\* An answer of the channel.
Receive ==
    /\ replies # <<>>
    /\ replies' = Tail(replies)
    /\ LET t == Head(replies).task  tex == Head(replies).texture IN
       \/ /\ task[t] = "createTexture"
          /\ textureId' = tex
          /\ Show(t, tex)
       \/ /\ task[t] = "releaseTexture"
          /\ _textureId' = (IF view = "mounted" /\ t \in Event
                            THEN None ELSE _textureId)
          /\ Done(t)
          /\ UNCHANGED <<textureId, starts, _currentSize>>
    /\ UNCHANGED <<nativeVars, kotlinVars, requests, appVars, view, historyVars>>

-----------------------------------------------------------------------------
(* UVCManager.kt, on the platform thread.                                  *)

Answer(t, tex) == replies' = Append(replies, [task |-> t, texture |-> tex])

CreateTexture(c) ==
    /\ requests # <<>> /\ Head(requests).method = "createTexture"
    /\ requests' = Tail(requests)
    /\ created' = created + 1
    /\ producers' = producers \cup {created}
    /\ SetWindow(created, c)
    /\ Answer(Head(requests).task, created)
    /\ UNCHANGED <<attached, running, size, activity, appVars, dartVars, viewVars,
                   taskVars, overlaps>>

\* Mutation of ReleaseTexture: the window stays set.
ReleaseOnly(c) ==
    /\ requests # <<>> /\ Head(requests).method = "releaseTexture"
    /\ requests' = Tail(requests)
    /\ producers' = producers \ {Head(requests).texture}
    /\ Answer(Head(requests).task, None)
    /\ UNCHANGED <<nativeVars, created, activity, appVars, dartVars, viewVars,
                   taskVars, historyVars>>

ReleaseTexture(c) ==
    /\ requests # <<>> /\ Head(requests).method = "releaseTexture"
    /\ requests' = Tail(requests)
    /\ SetWindow(None, c)
    /\ producers' = producers \ {Head(requests).texture}
    /\ Answer(Head(requests).task, None)
    /\ UNCHANGED <<attached, running, size, created, activity, appVars, dartVars,
                   viewVars, taskVars, overlaps>>

\* onDetachedFromActivity: at any time for Dart, which may not have been told
\* yet that it is paused.
ReleaseTextureAll ==
    /\ activity
    /\ activity' = FALSE
    /\ producers' = {}
    /\ UNCHANGED <<nativeVars, created, channelVars, appVars, dartVars, viewVars,
                   taskVars, historyVars>>

-----------------------------------------------------------------------------
Next ==
    \/ Unplug
    \/ InitState \/ SetSize \/ Resumed
    \/ \E c \in {FALSE, ~missed} :         \* bound: one call is missed
          \/ StartRuns(c)
          \/ Paused(c) \/ Dispose(c) \/ Detached(c)
          \/ CreateTexture(c) \/ ReleaseTexture(c)
    \/ \E t \in Task : Resizes(t) \/ GetsSize(t) \/ SizeAnswered(t)
    \/ Receive
    \/ ReleaseTextureAll

Spec == Init /\ [][Next]_vars

-----------------------------------------------------------------------------
(* Properties.                                                             *)

\* While there is an activity, the texture the controller hands out has not been
\* released, however pauses, resumes, dispose and detach overlap.
TextureLives == (activity /\ textureId # None) => textureId \in producers

\* The native side draws on a texture that has been released only if it could
\* not be told, because m_lock was taken.
WindowLives == (activity /\ ~missed /\ window # None) => window \in producers

\* No texture is lost: each is the controller's, or on its way to it, or about
\* to be released, unless two creations overlapped.
TexturesAccounted ==
    "texture" \notin overlaps =>
        \A p \in producers :
            \/ p = textureId
            \/ \E i \in DOMAIN replies :
                  replies[i].texture = p /\ task[replies[i].task] = "createTexture"
            \/ \E i \in DOMAIN requests :
                  requests[i].texture = p /\ requests[i].method = "releaseTexture"

AtRest ==
    /\ starts = 0 /\ requests = <<>> /\ replies = <<>>
    /\ \A t \in Task : task[t] \in {"new", "done"}

\* When nothing is under way, a mounted view of a resumed application shows the
\* texture on which the device's stream is drawn, in the size it streams in;
\* unless calls were missed or questions overlapped.
ShownAtRest ==
    (AtRest /\ view = "mounted" /\ app = "resumed" /\ attached /\ ~missed) =>
        /\ "texture" \notin overlaps =>
              _textureId # None /\ _textureId = textureId /\ window = textureId /\ running
        /\ "size" \notin overlaps => _currentSize = size

\* When nothing is under way, a paused application and a disposed view have no
\* texture and no stream, provided that no start, no creation and no question
\* was under way when they stopped it.
QuietAtRest ==
    (/\ AtRest /\ ~missed /\ "stop" \notin overlaps
     /\ view = "disposed" \/ (view = "mounted" /\ app = "paused")) =>
        ~running /\ producers = {} /\ textureId = None /\ window = None
=============================================================================
