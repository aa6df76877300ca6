---------------------------- MODULE Preview_proofs ----------------------------
(***************************************************************************)
(* Theorems about Preview, for any number of pauses and resumes, any sizes *)
(* and calls that miss the device at any time.                             *)
(***************************************************************************)
EXTENDS Preview, FiniteSetTheorems, TLAPS

-----------------------------------------------------------------------------
(* The queues of the channel.                                              *)

\* Something joins a queue at its end, ...
LEMMA Appended ==
    ASSUME NEW S, NEW s \in Seq(S), NEW e \in S
    PROVE  /\ Append(s, e) \in Seq(S) /\ Append(s, e) # <<>>
           /\ DOMAIN Append(s, e) = DOMAIN s \cup {Len(s) + 1}
           /\ Len(s) + 1 \notin DOMAIN s
           /\ \A i \in DOMAIN s : Append(s, e)[i] = s[i] /\ i < Len(s) + 1 /\ i \in Nat /\ s[i] \in S
           /\ Append(s, e)[Len(s) + 1] = e
OBVIOUS

\* ... and leaves it at its head.
LEMMA Taken ==
    ASSUME NEW S, NEW s \in Seq(S), s # <<>>
    PROVE  /\ Tail(s) \in Seq(S)
           /\ Head(s) = s[1] /\ Head(s) \in S /\ 1 \in DOMAIN s
           /\ \A i \in DOMAIN Tail(s) :
                 i + 1 \in DOMAIN s /\ i \in Nat \ {0} /\ Tail(s)[i] = s[i + 1]
           /\ \A i \in DOMAIN s :
                 i # 1 => i - 1 \in DOMAIN Tail(s) /\ Tail(s)[i - 1] = s[i] /\ i > 1 /\ i \in Nat
OBVIOUS

\* An empty queue.
LEMMA NoneWaits == /\ \A S : <<>> \in Seq(S)
                   /\ DOMAIN <<>> = {}
OBVIOUS

-----------------------------------------------------------------------------
(* The calls, the channel and type correctness.                            *)

Label == {"new", "set", "get", "got", "createTexture", "releaseTexture", "posted", "done"}
Waits == {"createTexture", "releaseTexture"}

\* Who may ask for a texture: initState, and each resume.
Creator == {init} \cup {e \in Event : e % 2 = 0}

\* Whose texture has been made.
Served == {t \in Creator :
             \/ task[t] = "done"
             \/ task[t] = "createTexture" /\ \A i \in DOMAIN requests : requests[i].task # t}

\* Pauses and resumes take turns, and each call is made once.
Turns ==
    /\ app = "resumed" <=> events % 2 = 0
    /\ \A e \in Event : e > events => task[e] = "new"
    /\ view = "new" => task[init] = "new" /\ events = 0
    /\ view # "disposed" => task[dispose] = "new"
    /\ attached => task[detached] = "new"
    /\ ~attached => ~running /\ window = None

Roles ==
    /\ \A t \in Task : task[t] \in Asking => t \in Creator \cup {setSize}
    /\ task[setSize] # "createTexture"
    /\ \A t \in Task : task[t] = "posted" => t = detached

\* What is on its way belongs to a call that waits for it, ...
Awaited ==
    /\ \A i \in DOMAIN requests :
          /\ task[requests[i].task] = requests[i].method
          /\ requests[i].texture = None <=> requests[i].method = "createTexture"
    /\ \A i \in DOMAIN replies :
          /\ task[replies[i].task] \in Waits
          /\ replies[i].texture = None <=> task[replies[i].task] = "releaseTexture"

\* ... to one each, ...
Distinct ==
    /\ \A i, j \in DOMAIN requests : requests[i].task = requests[j].task => i = j
    /\ \A i, j \in DOMAIN replies : replies[i].task = replies[j].task => i = j
    /\ \A i \in DOMAIN requests, j \in DOMAIN replies : requests[i].task # replies[j].task

\* ... and nobody waits for nothing.
Pending ==
    \A t \in Task : task[t] \in Waits =>
        \/ \E i \in DOMAIN requests : requests[i].task = t
        \/ \E i \in DOMAIN replies : replies[i].task = t

Counted == created <= Cardinality(Served)

TypeInv == TypeOK /\ Turns /\ Roles /\ Awaited /\ Distinct /\ Pending /\ Counted

\* The calls are different ones.
LEMMA Names ==
    /\ {init, dispose, detached, setSize} \subseteq Task /\ Event \subseteq Task
    /\ Event \subseteq Nat /\ init \in Nat /\ init \notin Event /\ 0 \notin Event
    /\ dispose \notin Event \cup {init, detached, setSize}
    /\ detached \notin Event \cup {init, setSize}
    /\ setSize \notin Event \cup {init}
    /\ Creator \subseteq Task /\ init \in Creator
    /\ {dispose, detached, setSize} \cap Creator = {}
    /\ None \notin Texture /\ Texture \subseteq Nat
BY PreviewAssumption DEF Task, Event, init, dispose, detached, setSize, Creator, None, Texture

\* There are as many creators as textures.
LEMMA CreatorCount ==
    /\ IsFiniteSet(Creator)
    /\ Cardinality(Creator) <= (MaxEvents \div 2) + 1
<1> DEFINE M == MaxEvents \div 2
           f == [t \in Creator |-> t \div 2]
<1>1. M \in Nat /\ MaxEvents \in Nat
  BY PreviewAssumption
<1>2. \A t \in Creator : t \in Nat /\ t % 2 = 0 /\ t <= MaxEvents
  BY <1>1 DEF Creator, Event, init
<1>3. \A t \in Creator : t \div 2 \in 0..M
  BY <1>1, <1>2
<1>4. \A t, u \in Creator : t \div 2 = u \div 2 => t = u
  BY <1>2
<1>5. f \in Injection(Creator, 0..M)
  BY <1>3, <1>4 DEF Injection, IsInjective
<1>6. IsFiniteSet(0..M) /\ Cardinality(0..M) = M + 1
  BY <1>1, FS_Interval
<1> HIDE DEF f, M
<1>7. IsFiniteSet(Creator) /\ Cardinality(Creator) <= Cardinality(0..M)
  BY <1>5, <1>6, FS_Injection
<1> QED
  BY <1>6, <1>7 DEF M

\* What is in the queues, by type.
LEMMA Queued ==
    ASSUME TypeInv
    PROVE  /\ requests \in Seq(Request) /\ replies \in Seq(Reply)
           /\ \A i \in DOMAIN requests :
                 /\ requests[i] \in Request /\ requests[i].task \in Task
                 /\ task[requests[i].task] \in Waits
           /\ \A i \in DOMAIN replies :
                 /\ replies[i] \in Reply /\ replies[i].task \in Task
                 /\ task[replies[i].task] \in Waits
<1>1. requests \in Seq(Request) /\ replies \in Seq(Reply)
  BY DEF TypeInv, TypeOK
<1>2. /\ \A i \in DOMAIN requests : requests[i] \in Request
      /\ \A i \in DOMAIN replies : replies[i] \in Reply
  BY <1>1
<1> QED
  BY <1>1, <1>2 DEF Request, Reply, TypeInv, Awaited, Waits

\* While a creation is requested there is room for one more texture.
LEMMA Room ==
    ASSUME TypeInv, NEW i \in DOMAIN requests, requests[i].method = "createTexture"
    PROVE  /\ created \in Texture
           /\ requests[i].task \in Creator \ Served
<1> DEFINE t == requests[i].task
<1>1. task[t] = "createTexture" /\ t \in Task
  BY Queued DEF TypeInv, Awaited
<1>2. t \in Creator
  BY <1>1 DEF TypeInv, Roles, Asking
<1>3. t \notin Served
  BY <1>1 DEF Served
<1>4. Served \cup {t} \subseteq Creator
  BY <1>2 DEF Served
<1>5. IsFiniteSet(Served)
  BY <1>4, CreatorCount, FS_Subset
<1>6. Cardinality(Served \cup {t}) = Cardinality(Served) + 1
  BY <1>3, <1>5, FS_AddElement
<1>7. Cardinality(Served \cup {t}) <= Cardinality(Creator)
  BY <1>4, CreatorCount, FS_Subset
<1>8. Cardinality(Served) \in Nat /\ Cardinality(Creator) \in Nat
  BY <1>5, CreatorCount, FS_CardinalityType
<1>9. created \in Nat /\ created <= Cardinality(Served)
  BY DEF TypeInv, TypeOK, Counted
<1>10. created <= MaxEvents \div 2
  BY <1>6, <1>7, <1>8, <1>9, CreatorCount, PreviewAssumption
<1> QED
  BY <1>2, <1>3, <1>9, <1>10, PreviewAssumption DEF Texture

\* The steps, by what they do to the channel: a call goes on without it, ...
Moves(t, l) ==
    /\ task[t] \notin Waits \cup {"done"} /\ task' = [task EXCEPT ![t] = l]
    /\ l \in Asking => t \in Creator \cup {setSize}
    /\ l = "posted" => t = detached
    /\ UNCHANGED channelVars

\* ... or asks for something, ...
Sends(t, m, p) ==
    /\ task[t] \notin Waits \cup {"done"} /\ task' = [task EXCEPT ![t] = m]
    /\ requests' = Append(requests, [task |-> t, method |-> m, texture |-> p])
    /\ \/ m = "createTexture" /\ p = None /\ t \in Creator
       \/ m = "releaseTexture" /\ p = textureId /\ textureId # None
    /\ UNCHANGED replies

\* ... the oldest request is served, ...
Serves(q, p) ==
    /\ requests # <<>> /\ q = Head(requests) /\ q = requests[1] /\ 1 \in DOMAIN requests
    /\ requests' = Tail(requests)
    /\ replies' = Append(replies, [task |-> q.task, texture |-> p])
    /\ UNCHANGED task
    /\ \/ q.method = "createTexture" /\ p = created /\ created' = created + 1
       \/ q.method = "releaseTexture" /\ p = None /\ created' = created

\* ... or the oldest answer received.
Hears(r) ==
    /\ replies # <<>> /\ r = Head(replies) /\ r = replies[1] /\ 1 \in DOMAIN replies
    /\ replies' = Tail(replies) /\ task' = [task EXCEPT ![r.task] = "done"]
    /\ UNCHANGED requests

ChannelStep ==
    \/ UNCHANGED <<task, channelVars, created>>
    \/ \E t \in Task, l \in Label \ Waits : Moves(t, l) /\ UNCHANGED created
    \/ \E t \in Task, m \in Waits, p \in Texture \cup {None} : Sends(t, m, p) /\ UNCHANGED created
    \/ \E q \in Request, p \in Texture \cup {None} : Serves(q, p)
    \/ \E r \in Reply : Hears(r) /\ UNCHANGED created

\* A stop sends one request or none.
LEMMA Stops ==
    ASSUME TypeInv, NEW t \in Task, NEW c, StopAndRelease(t, c), UNCHANGED replies,
           task[t] \notin Waits \cup {"done"}
    PROVE  \/ textureId = None /\ Moves(t, "done")
           \/ textureId # None /\ Sends(t, "releaseTexture", textureId)
BY DEF StopAndRelease, Moves, Sends, channelVars, Asking

\* So does a creator when the size is answered.
LEMMA Sized ==
    ASSUME TypeInv, NEW t \in Task, CreateOrShow(t), UNCHANGED replies, task[t] = "got",
           t # setSize
    PROVE  \/ textureId # None /\ Moves(t, "done")
           \/ textureId = None /\ Sends(t, "createTexture", None)
<1>1. t \in Creator
  BY DEF TypeInv, Roles, Asking
<1> QED
  BY <1>1 DEF CreateOrShow, Show, Done, Moves, Sends, channelVars, Asking, Waits

\* Every step is of one of those kinds.
LEMMA Kinds ==
    ASSUME TypeInv, [Next]_vars
    PROVE  ChannelStep
<1> USE Names
<1>a. /\ None \in Texture \cup {None} /\ textureId \in Texture \cup {None}
      /\ Waits \subseteq Label /\ "done" \in Label \ Waits
  BY DEF TypeInv, TypeOK, Waits, Label
<1>1. CASE Unplug
  <2>1. Moves(detached, "posted")
    BY <1>1 DEF TypeInv, Turns, Unplug, Moves, Waits, Asking, channelVars
  <2> QED
    BY <1>1, <2>1 DEF ChannelStep, Unplug, kotlinVars, Label, Waits
<1>2. CASE InitState
  <2>1. Moves(init, "set")
    BY <1>2 DEF TypeInv, Turns, InitState, AskSize, Moves, Waits, Asking, channelVars
  <2> QED
    BY <1>2, <2>1 DEF ChannelStep, InitState, kotlinVars, Label, Waits
<1>3. CASE SetSize
  <2>1. Moves(setSize, "set")
    BY <1>3 DEF SetSize, AskSize, Moves, Waits, Asking, channelVars
  <2> QED
    BY <1>3, <2>1 DEF ChannelStep, SetSize, kotlinVars, Label, Waits
<1>b. ASSUME events < MaxEvents
      PROVE  /\ events + 1 \in Event /\ task[events + 1] = "new"
             /\ events % 2 = 1 => events + 1 \in Creator
  <2>1. events \in Nat /\ MaxEvents \in Nat
    BY PreviewAssumption DEF TypeInv, TypeOK
  <2>2. events + 1 \in Event /\ events + 1 > events
    BY <1>b, <2>1 DEF Event
  <2>3. events % 2 = 1 => (events + 1) % 2 = 0
    BY <2>1
  <2> QED
    BY <2>2, <2>3 DEF TypeInv, Turns, Creator
<1>4. CASE Resumed
  <2>1. events % 2 = 1
    BY <1>4, PreviewAssumption DEF TypeInv, TypeOK, Turns, Resumed
  <2>2. Moves(events + 1, "get")
    BY <1>b, <1>4, <2>1 DEF Resumed, AskSize, Moves, Waits, Asking, channelVars
  <2> QED
    BY <1>b, <1>4, <2>2 DEF ChannelStep, Resumed, kotlinVars, Label, Waits
<1>5. ASSUME NEW c, StartRuns(c) PROVE ChannelStep
  BY <1>5 DEF StartRuns, ChannelStep, taskVars, kotlinVars
<1>c. ASSUME NEW t \in Task, NEW c, StopAndRelease(t, c), UNCHANGED replies, UNCHANGED created,
             task[t] \notin Waits \cup {"done"}
      PROVE  ChannelStep
  BY <1>a, <1>c, Stops DEF ChannelStep, Waits
<1>6. ASSUME NEW c, Paused(c) PROVE ChannelStep
  <2>1. task[events + 1] \notin Waits \cup {"done"} /\ events + 1 \in Task /\ events' = events + 1
    BY <1>b, <1>6 DEF Paused, Waits
  <2> QED
    BY <1>c, <1>6, <2>1 DEF Paused, kotlinVars
<1>7. ASSUME NEW c, Dispose(c) PROVE ChannelStep
  <2>1. task[dispose] \notin Waits \cup {"done"}
    BY <1>7 DEF Dispose, Waits, TypeInv, Turns
  <2> QED
    BY <1>c, <1>7, <2>1 DEF Dispose, kotlinVars
<1>8. ASSUME NEW c, Detached(c) PROVE ChannelStep
  <2>1. task[detached] \notin Waits \cup {"done"}
    BY <1>8 DEF Detached, Waits
  <2> QED
    BY <1>c, <1>8, <2>1 DEF Detached, kotlinVars
<1>d. ASSUME requests # <<>>
      PROVE  /\ Head(requests) \in Request /\ Head(requests) = requests[1]
             /\ 1 \in DOMAIN requests
  BY <1>d, Queued, Taken
<1>9. ASSUME NEW c, CreateTexture(c) PROVE ChannelStep
  <2>1. created \in Texture
    BY <1>d, <1>9, Room DEF CreateTexture
  <2>2. Serves(Head(requests), created)
    BY <1>d, <1>9 DEF CreateTexture, Answer, Serves, taskVars
  <2> QED
    BY <1>d, <1>9, <2>1, <2>2 DEF ChannelStep, CreateTexture
<1>10. ASSUME NEW c, ReleaseTexture(c) PROVE ChannelStep
  <2>1. Serves(Head(requests), None)
    BY <1>d, <1>10 DEF ReleaseTexture, Answer, Serves, taskVars
  <2> QED
    BY <1>a, <1>d, <1>10, <2>1 DEF ChannelStep, ReleaseTexture
<1>11. ASSUME NEW t \in Task, Resizes(t) PROVE ChannelStep
  <2>1. Moves(t, "get")
    BY <1>11 DEF Resizes, Moves, TypeInv, Roles, Asking, Waits, channelVars
  <2> QED
    BY <1>11, <2>1 DEF ChannelStep, Resizes, kotlinVars, Label, Waits
<1>12. ASSUME NEW t \in Task, GetsSize(t) PROVE ChannelStep
  <2>1. Moves(t, "got")
    BY <1>12 DEF GetsSize, Moves, TypeInv, Roles, Asking, Waits, channelVars
  <2> QED
    BY <1>12, <2>1 DEF ChannelStep, GetsSize, kotlinVars, Label, Waits
<1>13. ASSUME NEW t \in Task, SizeAnswered(t) PROVE ChannelStep
  <2>1. task[t] = "got" /\ UNCHANGED replies /\ UNCHANGED created
    BY <1>13 DEF SizeAnswered, kotlinVars
  <2>2. CASE Done(t) /\ UNCHANGED requests
    <3>1. Moves(t, "done")
      BY <2>1, <2>2 DEF Done, Moves, Asking, Waits, channelVars
    <3> QED
      BY <1>a, <2>1, <3>1 DEF ChannelStep
  <2>3. CASE t # setSize /\ CreateOrShow(t)
    BY <1>a, <2>1, <2>3, Sized DEF ChannelStep, Waits
  <2> QED
    BY <1>13, <2>2, <2>3 DEF SizeAnswered
<1>14. CASE Receive
  <2>1. replies # <<>> /\ Head(replies) \in Reply /\ Head(replies) = replies[1] /\ 1 \in DOMAIN replies
    BY <1>14, Queued, Taken DEF Receive
  <2>2. Hears(Head(replies))
    BY <1>14, <2>1 DEF Receive, Show, Done, Hears
  <2> QED
    BY <1>14, <2>1, <2>2 DEF ChannelStep, Receive, kotlinVars
<1>15. CASE ReleaseTextureAll
  BY <1>15 DEF ReleaseTextureAll, ChannelStep, taskVars
<1>16. CASE UNCHANGED vars
  BY <1>16 DEF vars, ChannelStep, taskVars, kotlinVars
<1> QED
  BY <1>1, <1>2, <1>3, <1>4, <1>5, <1>6, <1>7, <1>8, <1>9, <1>10, <1>11, <1>12, <1>13, <1>14,
     <1>15, <1>16 DEF Next

\* Request n is new.
Joins(n, t, m, p) ==
    /\ n \notin DOMAIN requests /\ DOMAIN requests' = DOMAIN requests \cup {n}
    /\ \A i \in DOMAIN requests : requests'[i] = requests[i] /\ i \in Nat /\ i < n
    /\ requests'[n].task = t /\ requests'[n].method = m /\ requests'[n].texture = p

\* Answer n is new.
Follows(n, t, p) ==
    /\ n \notin DOMAIN replies /\ DOMAIN replies' = DOMAIN replies \cup {n}
    /\ \A i \in DOMAIN replies : replies'[i] = replies[i] /\ i \in Nat /\ i < n
    /\ replies'[n].task = t /\ replies'[n].texture = p

\* The queues when a request is sent, ...
LEMMA SendsQueues ==
    ASSUME TypeInv, NEW t \in Task, NEW m \in Waits, NEW p \in Texture \cup {None}, Sends(t, m, p)
    PROVE  /\ requests' \in Seq(Request) /\ replies' = replies
           /\ \E n \in Nat : Joins(n, t, m, p)
<1> DEFINE q == [task |-> t, method |-> m, texture |-> p]
<1>1. q \in Request /\ q.task = t /\ q.method = m /\ q.texture = p
  BY DEF Request, Waits
<1>2. requests' = Append(requests, q) /\ replies' = replies
  BY DEF Sends
<1> HIDE DEF q
<1>4. /\ requests' \in Seq(Request)
      /\ DOMAIN requests' = DOMAIN requests \cup {Len(requests) + 1}
      /\ Len(requests) + 1 \in Nat \ DOMAIN requests
      /\ \A i \in DOMAIN requests :
            requests'[i] = requests[i] /\ i \in Nat /\ i < Len(requests) + 1
      /\ requests'[Len(requests) + 1] = q
  BY <1>1, <1>2, Queued, Appended
<1>5. Joins(Len(requests) + 1, t, m, p)
  BY <1>1, <1>4 DEF Joins
<1> QED
  BY <1>2, <1>4, <1>5

\* ... with nothing of that call on its way, ...
LEMMA SendsTasks ==
    ASSUME TypeInv, NEW t \in Task, NEW m \in Waits, NEW p \in Texture \cup {None}, Sends(t, m, p)
    PROVE  /\ task[t] \notin Waits /\ task'[t] = m
           /\ \A u \in Task : u # t => task'[u] = task[u]
           /\ p = None <=> m = "createTexture"
           /\ \A i \in DOMAIN requests : requests[i].task # t
           /\ \A i \in DOMAIN replies : replies[i].task # t
<1>1. (p = None <=> m = "createTexture") /\ task[t] \notin Waits
  BY DEF Sends, TypeInv, TypeOK
<1>2. /\ \A i \in DOMAIN requests : requests[i].task # t
      /\ \A i \in DOMAIN replies : replies[i].task # t
  BY <1>1, Queued
<1>3. task'[t] = m /\ \A u \in Task : u # t => task'[u] = task[u]
  BY DEF Sends, TypeInv, TypeOK
<1> QED
  BY <1>1, <1>2, <1>3

\* ... when one is served, ...
LEMMA ServesQueues ==
    ASSUME TypeInv, NEW q \in Request, NEW p \in Texture \cup {None}, Serves(q, p)
    PROVE  /\ requests' \in Seq(Request) /\ replies' \in Seq(Reply)
           /\ q = requests[1] /\ 1 \in DOMAIN requests
           /\ \A i \in DOMAIN requests' :
                 i + 1 \in DOMAIN requests /\ i \in Nat \ {0} /\ requests'[i] = requests[i + 1]
           /\ \A i \in DOMAIN requests :
                 i # 1 => i - 1 \in DOMAIN requests' /\ requests'[i - 1] = requests[i]
           /\ \E n \in Nat : Follows(n, q.task, p)
           /\ q.task \in Task /\ task[q.task] = q.method /\ q.method \in Waits
           /\ p = None <=> q.method = "releaseTexture"
           /\ q.texture = None <=> q.method = "createTexture"
           /\ UNCHANGED task
<1> DEFINE r == [task |-> q.task, texture |-> p]
<1>1. r \in Reply /\ r.task = q.task /\ r.texture = p
  BY DEF Request, Reply
<1>2. /\ q = requests[1] /\ 1 \in DOMAIN requests /\ requests # <<>>
      /\ replies' = Append(replies, r) /\ requests' = Tail(requests) /\ UNCHANGED task
  BY DEF Serves
<1>3. /\ q.task \in Task /\ task[q.task] = q.method
      /\ q.method \in Waits
      /\ p = None <=> task[q.task] = "releaseTexture"
      /\ q.texture = None <=> q.method = "createTexture"
  <2>1. q.task \in Task /\ task[q.task] = q.method /\ q.method \in Waits
    BY <1>2, Queued DEF TypeInv, TypeOK, Awaited, Serves, Waits
  <2>2. q.texture = None <=> q.method = "createTexture"
    BY <1>2, Queued DEF TypeInv, Awaited
  <2>3. p = None <=> task[q.task] = "releaseTexture"
    BY <2>1, Names DEF TypeInv, TypeOK, Serves, None
  <2> QED
    BY <2>1, <2>2, <2>3
<1> HIDE DEF r
<1>4. /\ requests' \in Seq(Request)
      /\ \A i \in DOMAIN requests' :
            i + 1 \in DOMAIN requests /\ i \in Nat \ {0} /\ requests'[i] = requests[i + 1]
      /\ \A i \in DOMAIN requests :
            i # 1 => i - 1 \in DOMAIN requests' /\ requests'[i - 1] = requests[i]
  BY <1>2, Queued, Taken
<1>5. /\ replies' \in Seq(Reply)
      /\ DOMAIN replies' = DOMAIN replies \cup {Len(replies) + 1}
      /\ Len(replies) + 1 \in Nat \ DOMAIN replies
      /\ \A i \in DOMAIN replies :
            replies'[i] = replies[i] /\ i \in Nat /\ i < Len(replies) + 1
      /\ replies'[Len(replies) + 1] = r
  BY <1>1, <1>2, Queued, Appended
<1>6. Follows(Len(replies) + 1, q.task, p)
  BY <1>1, <1>5 DEF Follows
<1> QED
  BY <1>2, <1>3, <1>4, <1>5, <1>6

\* ... and when an answer is received.
LEMMA HearsQueues ==
    ASSUME TypeInv, NEW r \in Reply, Hears(r)
    PROVE  /\ replies' \in Seq(Reply) /\ requests' = requests
           /\ r = replies[1] /\ 1 \in DOMAIN replies
           /\ \A i \in DOMAIN replies' :
                 i + 1 \in DOMAIN replies /\ i \in Nat \ {0} /\ replies'[i] = replies[i + 1]
           /\ \A i \in DOMAIN replies :
                 i # 1 => i - 1 \in DOMAIN replies' /\ replies'[i - 1] = replies[i] /\ i > 1
           /\ r.task \in Task /\ task'[r.task] = "done"
           /\ r.texture = None <=> task[r.task] = "releaseTexture"
           /\ task[r.task] \in Waits
           /\ \A u \in Task : u # r.task => task'[u] = task[u]
           /\ \A i \in DOMAIN requests : requests[i].task \in Task /\ requests[i].task # r.task
           /\ \A i \in DOMAIN replies' : replies'[i].task \in Task /\ replies'[i].task # r.task
<1>1. /\ r = replies[1] /\ 1 \in DOMAIN replies /\ replies # <<>>
      /\ replies' = Tail(replies) /\ requests' = requests
      /\ r.task \in Task
  BY DEF Hears, Reply
<1>2. /\ replies' \in Seq(Reply)
      /\ \A i \in DOMAIN replies' :
            i + 1 \in DOMAIN replies /\ i \in Nat \ {0} /\ replies'[i] = replies[i + 1]
      /\ \A i \in DOMAIN replies :
            i # 1 => i - 1 \in DOMAIN replies' /\ replies'[i - 1] = replies[i] /\ i > 1
  BY <1>1, Queued, Taken
<1>3. task'[r.task] = "done" /\ \A u \in Task : u # r.task => task'[u] = task[u]
  BY <1>1 DEF Hears, TypeInv, TypeOK
<1>4. /\ \A i \in DOMAIN requests : requests[i].task \in Task /\ requests[i].task # r.task
      /\ \A i \in DOMAIN replies' : replies'[i].task \in Task /\ replies'[i].task # r.task
  BY <1>1, <1>2, Queued DEF TypeInv, Distinct
<1>5. task[r.task] \in Waits /\ (r.texture = None <=> task[r.task] = "releaseTexture")
  BY <1>1 DEF TypeInv, Awaited
<1> QED
  BY <1>1, <1>2, <1>3, <1>4, <1>5

\* A call goes on without the channel.
LEMMA MovesKeep ==
    ASSUME TypeInv, NEW t \in Task, NEW l \in Label \ Waits, Moves(t, l)
    PROVE  Awaited' /\ Distinct' /\ Pending'
<1>1. \A u \in Task : task[u] \in Waits <=> task'[u] \in Waits
  BY DEF TypeInv, TypeOK, Moves
<1>2. \A u \in Task : task[u] \in Waits => task'[u] = task[u]
  BY DEF TypeInv, TypeOK, Moves
<1>3. Awaited'
  BY <1>2, Queued DEF TypeInv, Awaited, Moves, channelVars
<1>4. Distinct'
  BY DEF TypeInv, Distinct, Moves, channelVars
<1>5. Pending'
  BY <1>1 DEF TypeInv, Pending, Moves, channelVars
<1> QED
  BY <1>3, <1>4, <1>5

\* Its request is the youngest.
LEMMA SendsKeep ==
    ASSUME TypeInv, NEW t \in Task, NEW m \in Waits, NEW p \in Texture \cup {None}, Sends(t, m, p)
    PROVE  Awaited' /\ Distinct' /\ Pending'
<1>1. PICK n \in Nat : Joins(n, t, m, p)
  BY SendsQueues
<1>2. /\ replies' = replies /\ task'[t] = m
      /\ \A u \in Task : u # t => task'[u] = task[u]
      /\ p = None <=> m = "createTexture"
      /\ \A i \in DOMAIN requests : requests[i].task # t
      /\ \A i \in DOMAIN replies : replies[i].task # t
  BY SendsQueues, SendsTasks
<1>3. Awaited'
  BY <1>1, <1>2, Queued DEF Joins, TypeInv, Awaited
<1>4. Distinct'
  BY <1>1, <1>2 DEF Joins, TypeInv, Distinct
<1>5. Pending'
  <2> SUFFICES ASSUME NEW u \in Task, task'[u] \in Waits
               PROVE  \/ \E i \in DOMAIN requests' : requests'[i].task = u
                      \/ \E i \in DOMAIN replies' : replies'[i].task = u
    BY DEF Pending
  <2>1. CASE u = t
    BY <1>1, <2>1 DEF Joins
  <2>2. CASE u # t
    BY <1>1, <1>2, <2>2 DEF Joins, TypeInv, Pending
  <2> QED
    BY <2>1, <2>2
<1> QED
  BY <1>3, <1>4, <1>5

\* The answer of the oldest request is the youngest.
LEMMA ServesKeep ==
    ASSUME TypeInv, NEW q \in Request, NEW p \in Texture \cup {None}, Serves(q, p)
    PROVE  Awaited' /\ Distinct' /\ Pending'
<1>1. PICK n \in Nat : Follows(n, q.task, p)
  BY ServesQueues
<1>2. /\ q = requests[1] /\ 1 \in DOMAIN requests /\ UNCHANGED task
      /\ task[q.task] = q.method /\ q.method \in Waits
      /\ p = None <=> q.method = "releaseTexture"
  BY ServesQueues
<1>3. \A i \in DOMAIN requests' :
        i + 1 \in DOMAIN requests /\ i \in Nat \ {0} /\ requests'[i] = requests[i + 1]
  BY ServesQueues
<1>4. Awaited'
  <2>1. \A i \in DOMAIN requests' :
          /\ task'[requests'[i].task] = requests'[i].method
          /\ requests'[i].texture = None <=> requests'[i].method = "createTexture"
    BY <1>2, <1>3 DEF TypeInv, Awaited
  <2>2. \A i \in DOMAIN replies' :
          /\ task'[replies'[i].task] \in Waits
          /\ replies'[i].texture = None <=> task'[replies'[i].task] = "releaseTexture"
    BY <1>1, <1>2 DEF Follows, TypeInv, Awaited
  <2> QED
    BY <2>1, <2>2 DEF Awaited
<1>5. Distinct'
  <2>1. \A i, j \in DOMAIN requests' : requests'[i].task = requests'[j].task => i = j
    BY <1>3 DEF TypeInv, Distinct
  <2>2. \A i, j \in DOMAIN replies' : replies'[i].task = replies'[j].task => i = j
    BY <1>1, <1>2 DEF Follows, TypeInv, Distinct
  <2>3. \A i \in DOMAIN requests', j \in DOMAIN replies' : requests'[i].task # replies'[j].task
    BY <1>1, <1>2, <1>3 DEF Follows, TypeInv, Distinct
  <2> QED
    BY <2>1, <2>2, <2>3 DEF Distinct
<1>6. Pending'
  <2> SUFFICES ASSUME NEW u \in Task, task[u] \in Waits
               PROVE  \/ \E i \in DOMAIN requests' : requests'[i].task = u
                      \/ \E i \in DOMAIN replies' : replies'[i].task = u
    BY <1>2 DEF Pending
  <2>1. CASE u = q.task
    BY <1>1, <2>1 DEF Follows
  <2>2. ASSUME NEW i \in DOMAIN requests, requests[i].task = u, u # q.task
        PROVE  \E j \in DOMAIN requests' : requests'[j].task = u
    <3>1. i # 1
      BY <1>2, <2>2
    <3> QED
      BY <2>2, <3>1, ServesQueues
  <2>3. CASE \E i \in DOMAIN replies : replies[i].task = u
    BY <1>1, <2>3 DEF Follows
  <2> QED
    BY <2>1, <2>2, <2>3 DEF TypeInv, Pending
<1> QED
  BY <1>4, <1>5, <1>6

\* The oldest answer is received, and its call is done.
LEMMA HearsKeep ==
    ASSUME TypeInv, NEW r \in Reply, Hears(r)
    PROVE  Awaited' /\ Distinct' /\ Pending'
<1>1. /\ r = replies[1] /\ 1 \in DOMAIN replies /\ requests' = requests
      /\ task'[r.task] = "done" /\ \A u \in Task : u # r.task => task'[u] = task[u]
  BY HearsQueues
<1>2. /\ \A i \in DOMAIN requests : requests[i].task \in Task /\ requests[i].task # r.task
      /\ \A i \in DOMAIN replies' : replies'[i].task \in Task /\ replies'[i].task # r.task
      /\ \A i \in DOMAIN replies' :
            i + 1 \in DOMAIN replies /\ i \in Nat \ {0} /\ replies'[i] = replies[i + 1]
  BY HearsQueues
<1>3. Awaited'
  BY <1>1, <1>2 DEF TypeInv, Awaited
<1>4. Distinct'
  BY <1>1, <1>2 DEF TypeInv, Distinct
<1>5. Pending'
  <2> SUFFICES ASSUME NEW u \in Task, task'[u] \in Waits
               PROVE  \/ \E i \in DOMAIN requests' : requests'[i].task = u
                      \/ \E i \in DOMAIN replies' : replies'[i].task = u
    BY DEF Pending
  <2>1. u # r.task /\ task[u] \in Waits
    BY <1>1 DEF Waits
  <2>2. ASSUME NEW i \in DOMAIN replies, replies[i].task = u
        PROVE  \E j \in DOMAIN replies' : replies'[j].task = u
    <3>1. i # 1
      BY <1>1, <2>1, <2>2
    <3> QED
      BY <2>2, <3>1, HearsQueues
  <2> QED
    BY <1>1, <2>1, <2>2 DEF TypeInv, Pending
<1> QED
  BY <1>3, <1>4, <1>5

\* What every step does to the channel and the calls.
LEMMA ChannelKept ==
    ASSUME TypeInv, ChannelStep
    PROVE  /\ requests' \in Seq(Request) /\ replies' \in Seq(Reply)
           /\ task' \in [Task -> Label] /\ created' \in Nat
           /\ Awaited' /\ Distinct' /\ Pending' /\ Roles' /\ Counted'
<1>a. task \in [Task -> Label] /\ created \in Nat
  BY DEF TypeInv, TypeOK, Label
<1>1. requests' \in Seq(Request) /\ replies' \in Seq(Reply) /\ Awaited' /\ Distinct' /\ Pending'
  <2>1. CASE UNCHANGED <<task, channelVars, created>>
    BY <2>1, Queued DEF channelVars, TypeInv, Awaited, Distinct, Pending
  <2>2. ASSUME NEW t \in Task, NEW l \in Label \ Waits, Moves(t, l)
        PROVE  requests' \in Seq(Request) /\ replies' \in Seq(Reply) /\ Awaited' /\ Distinct' /\ Pending'
    BY <2>2, Queued, MovesKeep DEF Moves, channelVars
  <2>3. ASSUME NEW t \in Task, NEW m \in Waits, NEW p \in Texture \cup {None}, Sends(t, m, p)
        PROVE  requests' \in Seq(Request) /\ replies' \in Seq(Reply) /\ Awaited' /\ Distinct' /\ Pending'
    BY <2>3, SendsKeep, SendsQueues, Queued
  <2>4. ASSUME NEW q \in Request, NEW p \in Texture \cup {None}, Serves(q, p)
        PROVE  requests' \in Seq(Request) /\ replies' \in Seq(Reply) /\ Awaited' /\ Distinct' /\ Pending'
    BY <2>4, ServesKeep, ServesQueues
  <2>5. ASSUME NEW r \in Reply, Hears(r)
        PROVE  requests' \in Seq(Request) /\ replies' \in Seq(Reply) /\ Awaited' /\ Distinct' /\ Pending'
    BY <2>5, HearsKeep, HearsQueues, Queued
  <2> QED
    BY <2>1, <2>2, <2>3, <2>4, <2>5 DEF ChannelStep
<1>2. task' \in [Task -> Label] /\ created' \in Nat
  <2>1. created' \in Nat
    <3>1. created' = created \/ created' = created + 1
      BY DEF ChannelStep, Serves
    <3> QED
      BY <1>a, <3>1
  <2>2. task' = task \/ \E t \in Task, l \in Label : task' = [task EXCEPT ![t] = l]
    BY DEF ChannelStep, Moves, Sends, Serves, Hears, Reply, Waits, Label
  <2> QED
    BY <1>a, <2>1, <2>2
<1>3. Roles'
  <2>1. \A u \in Task : task'[u] \in Asking => task[u] \in Asking \/ u \in Creator \cup {setSize}
    BY <1>a DEF ChannelStep, Moves, Sends, Serves, Hears, Asking, Waits
  <2>2. task'[setSize] # "createTexture"
    BY <1>a, Names DEF TypeInv, Roles, ChannelStep, Moves, Sends, Serves, Hears, Waits
  <2>3. \A u \in Task : task'[u] = "posted" => task[u] = "posted" \/ u = detached
    BY <1>a DEF ChannelStep, Moves, Sends, Serves, Hears, Waits
  <2> QED
    BY <2>1, <2>2, <2>3 DEF TypeInv, Roles
<1>4. Counted'
  <2>1. Served \subseteq Served'
    <3> SUFFICES ASSUME NEW u \in Served PROVE u \in Served'
      OBVIOUS
    <3>1. u \in Creator /\ u \in Task
      BY Names DEF Served
    <3>2. CASE task[u] = "done"
      <4>1. task'[u] = "done"
        BY <1>a, <3>1, <3>2 DEF ChannelStep, Moves, Sends, Serves, Hears
      <4> QED
        BY <3>1, <4>1 DEF Served
    <3>3. CASE task[u] = "createTexture" /\ \A i \in DOMAIN requests : requests[i].task # u
      <4>1. task'[u] \in {"createTexture", "done"}
        BY <1>a, <3>1, <3>3 DEF ChannelStep, Moves, Sends, Serves, Hears, Waits
      <4>2. \A i \in DOMAIN requests' : requests'[i].task # u
        <5>1. CASE UNCHANGED requests
          BY <3>3, <5>1
        <5>2. ASSUME NEW t \in Task, NEW m \in Waits, NEW p \in Texture \cup {None}, Sends(t, m, p)
              PROVE  \A i \in DOMAIN requests' : requests'[i].task # u
          <6>1. t # u
            BY <3>3, <5>2 DEF Sends, Waits
          <6>2. [task |-> t, method |-> m, texture |-> p] \in Request
            BY DEF Request, Waits
          <6> QED
            BY <3>3, <5>2, <6>1, <6>2, Queued, Appended DEF Sends
        <5>3. ASSUME NEW q \in Request, NEW p \in Texture \cup {None}, Serves(q, p)
              PROVE  \A i \in DOMAIN requests' : requests'[i].task # u
          BY <3>3, <5>3, Queued, Taken DEF Serves
        <5> QED
          BY <5>1, <5>2, <5>3 DEF ChannelStep, Moves, Hears, channelVars
      <4> QED
        BY <3>1, <4>1, <4>2 DEF Served
    <3> QED
      BY <3>2, <3>3 DEF Served
  <2>2. IsFiniteSet(Served')
    <3>1. Served' \subseteq Creator
      BY DEF Served
    <3> QED
      BY <3>1, CreatorCount, FS_Subset
  <2>3. IsFiniteSet(Served) /\ Cardinality(Served) <= Cardinality(Served')
    BY <2>1, <2>2, FS_Subset
  <2>4. Cardinality(Served) \in Nat /\ Cardinality(Served') \in Nat
    BY <2>2, <2>3, FS_CardinalityType
  <2>5. created <= Cardinality(Served)
    BY DEF TypeInv, Counted
  <2>6. CASE UNCHANGED created
    BY <1>a, <2>3, <2>4, <2>5, <2>6 DEF Counted
  <2>7. ASSUME NEW q \in Request, NEW p \in Texture \cup {None}, Serves(q, p),
               q.method = "createTexture", created' = created + 1
        PROVE  Counted'
    <3>1. q = requests[1] /\ 1 \in DOMAIN requests /\ requests # <<>> /\ requests' = Tail(requests)
      BY <2>7 DEF Serves
    <3>2. q.task \in Creator \ Served
      BY <2>7, <3>1, Room
    <3>3. task'[q.task] = "createTexture"
      BY <2>7, <3>1 DEF TypeInv, Awaited, Serves
    <3>4. \A i \in DOMAIN requests' : requests'[i].task # q.task
      BY <3>1, Queued, Taken DEF TypeInv, Distinct
    <3>5. Served \cup {q.task} \subseteq Served'
      BY <2>1, <3>2, <3>3, <3>4 DEF Served
    <3>6. Cardinality(Served \cup {q.task}) = Cardinality(Served) + 1
      BY <2>3, <3>2, FS_AddElement
    <3>7. Cardinality(Served \cup {q.task}) <= Cardinality(Served')
      BY <2>2, <3>5, FS_Subset
    <3> QED
      BY <1>a, <2>4, <2>5, <2>7, <3>6, <3>7 DEF Counted
  <2> QED
    BY <2>6, <2>7 DEF ChannelStep, Serves
<1> QED
  BY <1>1, <1>2, <1>3, <1>4

\* What is left of the type invariant.
FieldsOK ==
    /\ attached \in BOOLEAN /\ running \in BOOLEAN
    /\ size \in Size /\ window \in Texture \cup {None}
    /\ producers \subseteq Texture /\ activity \in BOOLEAN
    /\ app \in {"resumed", "paused"} /\ events \in 0..MaxEvents
    /\ textureId \in Texture \cup {None} /\ starts \in Nat
    /\ view \in {"new", "mounted", "disposed"}
    /\ _textureId \in Texture \cup {None} /\ _currentSize \in Size \cup {Invalid}
    /\ got \in [Task -> Size \cup {Invalid}]
    /\ missed \in BOOLEAN /\ overlaps \subseteq {"texture", "size", "stop"}

\* At the start nothing is asked.
LEMMA TypeInit == Init => TypeInv
<1> SUFFICES ASSUME Init PROVE TypeInv
  OBVIOUS
<1>1. TypeOK
  <2>1. requests \in Seq(Request) /\ replies \in Seq(Reply)
    BY NoneWaits DEF Init
  <2>2. /\ task \in [Task -> {"new", "set", "get", "got", "createTexture",
                             "releaseTexture", "posted", "done"}]
        /\ got \in [Task -> Size \cup {Invalid}]
    BY DEF Init
  <2>3. 0 \in 0..MaxEvents
    BY PreviewAssumption
  <2> QED
    BY <2>1, <2>2, <2>3, PreviewAssumption DEF Init, TypeOK
<1>2. Turns
  BY Names, PreviewAssumption DEF Init, Turns, Event
<1>3. Roles
  BY Names DEF Init, Roles, Asking
<1>4. Awaited /\ Distinct /\ Pending
  BY NoneWaits DEF Init, Awaited, Distinct, Pending, Waits
<1>5. Counted
  <2>1. Served \subseteq Creator
    BY DEF Served
  <2>2. Cardinality(Served) \in Nat
    BY <2>1, CreatorCount, FS_Subset, FS_CardinalityType
  <2> QED
    BY <2>2 DEF Init, Counted
<1> QED
  BY <1>1, <1>2, <1>3, <1>4, <1>5 DEF TypeInv

\* A stop leaves the fields in type.
LEMMA StopsKeep ==
    ASSUME TypeInv, NEW t \in Task, NEW c \in BOOLEAN, StopAndRelease(t, c)
    PROVE  /\ running' \in BOOLEAN /\ missed' \in BOOLEAN /\ textureId' \in Texture \cup {None}
           /\ overlaps' \subseteq {"texture", "size", "stop"}
           /\ ~attached => ~running'
           /\ t # init => task'[init] = task[init]
           /\ t # detached => task'[detached] = task[detached]
           /\ t # dispose => task'[dispose] = task[dispose]
           /\ \A e \in Event : t # e => task'[e] = task[e]
<1>1. /\ running' \in BOOLEAN /\ missed' \in BOOLEAN /\ textureId' \in Texture \cup {None}
      /\ overlaps' \subseteq {"texture", "size", "stop"}
  BY DEF TypeInv, TypeOK, StopAndRelease, Stop, Miss, Reaches, Overlap
<1>2. ~attached => ~running'
  BY DEF TypeInv, TypeOK, Turns, StopAndRelease, Stop, Reaches
<1>3. \A u \in Task : t # u => task'[u] = task[u]
  BY DEF TypeInv, TypeOK, StopAndRelease
<1> QED
  BY <1>1, <1>2, <1>3, Names

\* A creator that shows its texture or asks for one leaves them so too.
LEMMA ShowsKeep ==
    ASSUME TypeInv, NEW t \in Task, NEW tex \in Texture \cup {None}, Show(t, tex)
    PROVE  /\ starts' \in Nat /\ _textureId' \in Texture \cup {None}
           /\ _currentSize' \in Size \cup {Invalid} /\ got' \in [Task -> Size \cup {Invalid}]
<1>1. starts' \in Nat
  <2>1. Start(tex)
    BY DEF Show
  <2>2. starts' = starts + 1 \/ starts' = starts
    BY <2>1 DEF Start
  <2> QED
    BY <2>2 DEF TypeInv, TypeOK
<1>2. got' \in [Task -> Size \cup {Invalid}]
  BY DEF TypeInv, TypeOK, Show, Done
<1>3. _textureId' \in Texture \cup {None} /\ _currentSize' \in Size \cup {Invalid}
  BY DEF TypeInv, TypeOK, Show
<1> QED
  BY <1>1, <1>2, <1>3

\* The actions one by one.
LEMMA TypeStep == TypeInv /\ [Next]_vars => TypeInv'
<1> SUFFICES ASSUME TypeInv, [Next]_vars PROVE TypeInv'
  OBVIOUS
<1> SUFFICES FieldsOK' /\ Turns'
  <2>1. ChannelStep
    BY Kinds
  <2>2. FieldsOK' /\ requests' \in Seq(Request) /\ replies' \in Seq(Reply)
          /\ task' \in [Task -> Label] /\ created' \in Nat => TypeOK'
    BY DEF FieldsOK, TypeOK, Label
  <2> QED
    BY <2>1, <2>2, ChannelKept DEF TypeInv
<1> USE Names, PreviewAssumption DEF nativeVars, kotlinVars, appVars, dartVars, viewVars, taskVars,
        historyVars
<1>a. FieldsOK /\ Turns /\ task \in [Task -> Label]
  BY DEF TypeInv, TypeOK, FieldsOK, Label
<1>1. CASE Unplug
  <2>1. FieldsOK'
    BY <1>a, <1>1 DEF FieldsOK, Unplug
  <2>2. Turns'
    BY <1>a, <1>1 DEF Turns, Unplug
  <2> QED
    BY <2>1, <2>2
<1>2. CASE InitState
  <2>1. FieldsOK'
    BY <1>a, <1>2 DEF FieldsOK, InitState, AskSize, Overlap
  <2>2. Turns'
    BY <1>a, <1>2 DEF Turns, InitState, AskSize
  <2> QED
    BY <2>1, <2>2
<1>3. CASE SetSize
  <2>1. FieldsOK'
    BY <1>a, <1>3 DEF FieldsOK, SetSize, AskSize, Overlap
  <2>2. Turns'
    BY <1>a, <1>3 DEF Turns, SetSize, AskSize
  <2> QED
    BY <2>1, <2>2
<1>b. /\ events < MaxEvents => events + 1 \in 0..MaxEvents /\ events + 1 \in Event
      /\ events % 2 = 0 <=> (events + 1) % 2 = 1
      /\ events % 2 = 1 <=> (events + 1) % 2 = 0
      /\ events \in Nat
      /\ \A e \in Event : e > events + 1 => e > events /\ e # events + 1
  BY <1>a DEF FieldsOK, Event
<1>4. CASE Resumed
  <2>1. FieldsOK'
    BY <1>a, <1>b, <1>4 DEF FieldsOK, Resumed, AskSize, Overlap
  <2>2. Turns'
    <3>1. app' = "resumed" <=> events' % 2 = 0
      BY <1>a, <1>b, <1>4 DEF FieldsOK, Turns, Resumed
    <3>2. \A u \in Task : u # events + 1 => task'[u] = task[u]
      BY <1>a, <1>b, <1>4 DEF Resumed, AskSize
    <3>3. events + 1 \in Event
      BY <1>b, <1>4 DEF Resumed
    <3> QED
      BY <1>a, <1>b, <1>4, <3>1, <3>2, <3>3 DEF Turns, Resumed
  <2> QED
    BY <2>1, <2>2
<1>5. ASSUME NEW c \in BOOLEAN, StartRuns(c) PROVE FieldsOK' /\ Turns'
  <2>1. FieldsOK'
    BY <1>a, <1>5 DEF FieldsOK, StartRuns, Reaches, Miss
  <2>2. Turns'
    BY <1>a, <1>5 DEF FieldsOK, Turns, StartRuns, Reaches
  <2> QED
    BY <2>1, <2>2
<1>6. ASSUME NEW c \in BOOLEAN, Paused(c) PROVE FieldsOK' /\ Turns'
  <2>1. events' = events + 1 /\ events + 1 \in Event /\ StopAndRelease(events + 1, c)
    BY <1>b, <1>6 DEF Paused
  <2>2. FieldsOK'
    BY <1>a, <1>b, <1>6, <2>1, StopsKeep DEF FieldsOK, Paused
  <2>3. Turns'
    <3>1. app' = "resumed" <=> events' % 2 = 0
      BY <1>a, <1>b, <1>6, <2>1 DEF FieldsOK, Turns, Paused
    <3>2. \A e \in Event : e > events' => task'[e] = "new"
      BY <1>a, <1>b, <2>1, StopsKeep DEF Turns
    <3>3. /\ view = "mounted" /\ view' = "mounted" /\ attached' = attached /\ window' = window
          /\ task'[dispose] = task[dispose] /\ task'[detached] = task[detached]
          /\ ~attached => ~running'
      BY <1>6, <2>1, StopsKeep DEF Paused
    <3> QED
      BY <1>a, <3>1, <3>2, <3>3 DEF Turns
  <2> QED
    BY <2>2, <2>3
<1>7. ASSUME NEW c \in BOOLEAN, Dispose(c) PROVE FieldsOK' /\ Turns'
  <2>1. FieldsOK'
    BY <1>a, <1>7, StopsKeep DEF FieldsOK, Dispose
  <2>2. Turns'
    BY <1>a, <1>7, StopsKeep DEF Turns, Dispose
  <2> QED
    BY <2>1, <2>2
<1>8. ASSUME NEW c \in BOOLEAN, Detached(c) PROVE FieldsOK' /\ Turns'
  <2>1. FieldsOK'
    <3>1. StopAndRelease(detached, c) /\ detached \in Task
      BY <1>8 DEF Detached, Task
    <3>2. /\ running' \in BOOLEAN /\ missed' \in BOOLEAN /\ textureId' \in Texture \cup {None}
          /\ overlaps' \subseteq {"texture", "size", "stop"}
      BY <1>a, <1>8, <3>1, StopsKeep
    <3> QED
      BY <1>a, <1>8, <3>2 DEF FieldsOK, Detached
  <2>2. ~attached /\ attached' = attached
    BY <1>a, <1>8 DEF FieldsOK, Turns, Detached
  <2>3. Turns'
    <3>1. /\ StopAndRelease(detached, c)
          /\ UNCHANGED <<attached, window, app, events, view>>
      BY <1>8 DEF Detached
    <3>2. /\ task'[init] = task[init] /\ task'[dispose] = task[dispose]
          /\ \A e \in Event : task'[e] = task[e]
          /\ ~running'
      BY <2>2, <3>1, StopsKeep
    <3> QED
      BY <1>a, <2>2, <3>1, <3>2 DEF Turns
  <2> QED
    BY <2>1, <2>3
<1>9. ASSUME NEW c \in BOOLEAN, CreateTexture(c) PROVE FieldsOK' /\ Turns'
  <2>1. created \in Texture
    <3>1. Head(requests) = requests[1] /\ 1 \in DOMAIN requests /\ requests[1].method = "createTexture"
      BY <1>9, Queued, Taken DEF CreateTexture
    <3> QED
      BY <3>1, Room
  <2>2. FieldsOK'
    BY <1>a, <1>9, <2>1 DEF FieldsOK, CreateTexture, SetWindow, Miss
  <2>3. Turns'
    BY <1>a, <1>9 DEF FieldsOK, Turns, CreateTexture, SetWindow, Reaches
  <2> QED
    BY <2>2, <2>3
<1>10. ASSUME NEW c \in BOOLEAN, ReleaseTexture(c) PROVE FieldsOK' /\ Turns'
  <2>1. FieldsOK'
    BY <1>a, <1>10 DEF FieldsOK, ReleaseTexture, SetWindow, Miss
  <2>2. Turns'
    BY <1>a, <1>10 DEF FieldsOK, Turns, ReleaseTexture, SetWindow, Reaches
  <2> QED
    BY <2>1, <2>2
<1>11. ASSUME NEW t \in Task, Resizes(t) PROVE FieldsOK' /\ Turns'
  <2>1. FieldsOK'
    BY <1>a, <1>11 DEF FieldsOK, Resizes
  <2>2. Turns'
    BY <1>a, <1>11 DEF Turns, Resizes
  <2> QED
    BY <2>1, <2>2
<1>12. ASSUME NEW t \in Task, GetsSize(t) PROVE FieldsOK' /\ Turns'
  <2>1. FieldsOK'
    BY <1>a, <1>12 DEF FieldsOK, GetsSize
  <2>2. Turns'
    BY <1>a, <1>12 DEF Turns, GetsSize
  <2> QED
    BY <2>1, <2>2
<1>c. ASSUME NEW t \in Task, task[t] \notin {"new", "posted"},
             \E l \in Label : task' = [task EXCEPT ![t] = l],
             UNCHANGED <<attached, running, window, view, appVars>>
      PROVE  Turns'
  <2>1. \A u \in Task : task[u] = "new" => task'[u] = task[u]
    BY <1>a, <1>c
  <2> QED
    BY <1>a, <1>c, <2>1 DEF Turns
<1>13. ASSUME NEW t \in Task, SizeAnswered(t) PROVE FieldsOK' /\ Turns'
  <2>1. /\ task[t] = "got" /\ {"done", "createTexture"} \subseteq Label
        /\ UNCHANGED <<nativeVars, kotlinVars, replies, appVars, textureId, view, missed>>
    BY <1>13 DEF SizeAnswered, Label
  <2>2. CASE Done(t) /\ UNCHANGED <<starts, _textureId, overlaps>> /\ _currentSize' \in {got[t], _currentSize}
    <3>1. FieldsOK'
      BY <1>a, <2>1, <2>2 DEF FieldsOK, Done
    <3>2. Turns'
      BY <1>c, <2>1, <2>2 DEF Done
    <3> QED
      BY <3>1, <3>2
  <2>3. CASE CreateOrShow(t)
    <3>1. \/ /\ task' = [task EXCEPT ![t] = "createTexture"] /\ Overlap("texture", Awaits({"createTexture"}))
             /\ UNCHANGED <<starts, _textureId, _currentSize, got>>
          \/ Show(t, textureId) /\ UNCHANGED overlaps
      BY <2>3 DEF CreateOrShow
    <3>2. FieldsOK'
      <4>1. CASE Overlap("texture", Awaits({"createTexture"})) /\ UNCHANGED <<starts, _textureId, _currentSize, got>>
        BY <1>a, <2>1, <4>1 DEF FieldsOK, Overlap
      <4>2. CASE Show(t, textureId) /\ UNCHANGED overlaps
        <5>1. /\ starts' \in Nat /\ _textureId' \in Texture \cup {None}
              /\ _currentSize' \in Size \cup {Invalid} /\ got' \in [Task -> Size \cup {Invalid}]
          BY <1>a, <4>2, ShowsKeep DEF FieldsOK
        <5> QED
          BY <1>a, <2>1, <4>2, <5>1 DEF FieldsOK
      <4> QED
        BY <3>1, <4>1, <4>2
    <3>3. Turns'
      BY <1>c, <2>1, <3>1 DEF Show, Done
    <3> QED
      BY <3>2, <3>3
  <2> QED
    BY <1>13, <2>2, <2>3 DEF SizeAnswered
<1>14. CASE Receive
  <2>1. /\ Head(replies) \in Reply /\ Head(replies).task \in Task
        /\ Head(replies).texture \in Texture \cup {None} /\ "done" \in Label
    BY <1>14, Queued, Taken DEF Receive, Reply, Label
  <2> DEFINE t == Head(replies).task
             tex == Head(replies).texture
  <2>2. UNCHANGED <<nativeVars, kotlinVars, requests, appVars, view, historyVars>>
    BY <1>14 DEF Receive
  <2>3. \/ task[t] = "createTexture" /\ textureId' = tex /\ Show(t, tex)
        \/ /\ task[t] = "releaseTexture" /\ _textureId' \in {None, _textureId} /\ Done(t)
           /\ UNCHANGED <<textureId, starts, _currentSize>>
    BY <1>14 DEF Receive
  <2>4. FieldsOK'
    <3>1. CASE textureId' = tex /\ Show(t, tex)
      BY <1>a, <2>1, <2>2, <3>1, ShowsKeep DEF FieldsOK
    <3>2. CASE _textureId' \in {None, _textureId} /\ Done(t) /\ UNCHANGED <<textureId, starts, _currentSize>>
      BY <1>a, <2>1, <2>2, <3>2 DEF FieldsOK, Done
    <3> QED
      BY <2>3, <3>1, <3>2
  <2>5. Turns'
    BY <1>c, <2>1, <2>2, <2>3 DEF Show, Done
  <2> QED
    BY <2>4, <2>5
<1>15. CASE ReleaseTextureAll
  BY <1>a, <1>15 DEF ReleaseTextureAll, FieldsOK, Turns
<1>16. CASE UNCHANGED vars
  BY <1>a, <1>16 DEF vars, FieldsOK, Turns
<1>17. \A c \in {FALSE, ~missed} : c \in BOOLEAN
  OBVIOUS
<1> QED
  BY <1>1, <1>2, <1>3, <1>4, <1>5, <1>6, <1>7, <1>8, <1>9, <1>10, <1>11, <1>12, <1>13, <1>14,
     <1>15, <1>16, <1>17 DEF Next

\* The holder, the textures, the channel, the view and the calls stay in type; in
\* particular no more textures are made than there are requests for one.
THEOREM PreviewTypeCorrect == Spec => []TypeOK
<1>1. TypeInv => TypeOK
  BY DEF TypeInv
<1> QED
  BY <1>1, TypeInit, TypeStep, PTL DEF Spec

-----------------------------------------------------------------------------
(* The textures.                                                           *)

\* A texture is younger than every other when it is made.
Made ==
    /\ \A p \in producers : p < created
    /\ textureId # None => textureId < created
    /\ \A i \in DOMAIN requests : requests[i].texture # None => requests[i].texture < created
    /\ \A i \in DOMAIN replies : replies[i].texture # None => replies[i].texture < created

\* A texture that is to be released is nobody's, and one on its way to the controller is
\* not there yet and on its way once.
OneOwner ==
    /\ \A i \in DOMAIN requests : requests[i].texture # None =>
          /\ requests[i].texture # textureId
          /\ \A j \in DOMAIN replies : replies[j].texture # requests[i].texture
    /\ \A i \in DOMAIN replies : replies[i].texture # None =>
          /\ replies[i].texture # textureId
          /\ \A j \in DOMAIN replies : replies[i].texture = replies[j].texture => i = j

Alive == activity =>
    /\ textureId # None => textureId \in producers
    /\ \A i \in DOMAIN replies : replies[i].texture # None => replies[i].texture \in producers

\* If no two creations overlapped, there is one at a time, for a controller without a
\* texture, ...
OneCreates == "texture" \notin overlaps =>
    /\ \A t, u \in Task : task[t] = "createTexture" /\ task[u] = "createTexture" => t = u
    /\ \A t \in Task : task[t] = "createTexture" => textureId = None

\* ... and what was released before is over when it gets the next one.
ReleaseFirst == "texture" \notin overlaps =>
    /\ textureId # None => \A t \in Task : task[t] # "releaseTexture"
    /\ \A i, j \in DOMAIN requests :
          requests[i].method = "createTexture" /\ i < j => requests[j].method = "createTexture"
    /\ \A i \in DOMAIN replies : replies[i].texture # None =>
          /\ \A j \in DOMAIN requests : requests[j].method = "createTexture"
          /\ \A j \in DOMAIN replies : i < j => replies[j].texture # None

TextureInv ==
    /\ Made /\ OneOwner /\ Alive /\ WindowLives /\ OneCreates /\ ReleaseFirst
    /\ TexturesAccounted

\* The steps, by what they do to the textures: nothing, ...
Aside ==
    /\ UNCHANGED <<task, channelVars>> \/ \E t \in Task, l \in Label \ Waits : Moves(t, l)
    /\ UNCHANGED <<producers, created, activity, textureId>>
    /\ window' = window \/ (window' = None /\ ~attached')

\* ... ask for one or for the release of one, ...
AsksFor(t) ==
    /\ Sends(t, "createTexture", None) /\ textureId = None
    /\ "texture" \in overlaps' \/ \A u \in Task : task[u] # "createTexture"
    /\ UNCHANGED <<producers, created, activity, textureId, window>>

Drops(t) ==
    /\ Sends(t, "releaseTexture", textureId) /\ textureId # None /\ textureId' = None
    /\ UNCHANGED <<producers, created, activity, window>>

\* ... make it or release it, ...
Makes(q) ==
    /\ Serves(q, created) /\ q.method = "createTexture" /\ created \in Texture
    /\ created' = created + 1 /\ producers' = producers \cup {created}
    /\ window' \in {created, window} /\ (attached' /\ ~missed' => window' = created)
    /\ UNCHANGED <<activity, textureId, attached>>

Frees(q) ==
    /\ Serves(q, None) /\ q.method = "releaseTexture"
    /\ producers' = producers \ {q.texture}
    /\ window' \in {None, window} /\ (attached' /\ ~missed' => window' = None)
    /\ UNCHANGED <<activity, textureId, attached, created>>

\* ... or tell that this was done.
Comes(r) ==
    /\ Hears(r) /\ task[r.task] = "createTexture" /\ textureId' = r.texture
    /\ UNCHANGED <<producers, created, activity, window>>

Went(r) ==
    /\ Hears(r) /\ task[r.task] = "releaseTexture"
    /\ UNCHANGED <<producers, created, activity, window, textureId>>

ActivityGoes ==
    /\ activity' = FALSE /\ producers' = {}
    /\ UNCHANGED <<task, channelVars, created, textureId, window>>

TextureStep ==
    \/ Aside \/ ActivityGoes
    \/ \E t \in Task : AsksFor(t) \/ Drops(t)
    \/ \E q \in Request : Makes(q) \/ Frees(q)
    \/ \E r \in Reply : Comes(r) \/ Went(r)

\* What happened once is not forgotten, and the device does not come back.
Monotone ==
    /\ overlaps \subseteq overlaps' /\ (missed => missed')
    /\ (attached' => attached)

\* Every step is of one of those kinds.
LEMMA TextureKinds ==
    ASSUME TypeInv, [Next]_vars
    PROVE  TextureStep /\ Monotone
<1> USE Names DEF nativeVars, kotlinVars, appVars, dartVars, viewVars, taskVars, historyVars
<1>a. /\ attached \in BOOLEAN /\ missed \in BOOLEAN /\ task \in [Task -> Label]
      /\ textureId \in Texture \cup {None} /\ events \in 0..MaxEvents
      /\ "done" \in Label \ Waits
  BY DEF TypeInv, TypeOK, Label, Waits
<1>b. TypeInv'
  BY TypeStep
<1>c. ASSUME NEW t \in Task, NEW l \in Label \ Waits, Moves(t, l), Monotone,
             UNCHANGED <<producers, created, activity, textureId>>,
             window' = window \/ (window' = None /\ ~attached')
      PROVE  TextureStep /\ Monotone
  BY <1>c DEF TextureStep, Aside
<1>1. CASE Unplug
  <2>1. Moves(detached, "posted") /\ "posted" \in Label \ Waits
    BY <1>1 DEF TypeInv, Turns, Unplug, Moves, Label, Waits, Asking, channelVars
  <2> QED
    BY <1>1, <1>c, <2>1 DEF Unplug, Monotone
<1>2. CASE InitState
  <2>1. Moves(init, "set") /\ "set" \in Label \ Waits
    BY <1>2 DEF TypeInv, Turns, InitState, AskSize, Moves, Label, Waits, Asking, channelVars
  <2> QED
    BY <1>2, <1>c, <2>1 DEF InitState, AskSize, Overlap, Monotone
<1>3. CASE SetSize
  <2>1. Moves(setSize, "set") /\ "set" \in Label \ Waits
    BY <1>3 DEF SetSize, AskSize, Moves, Label, Waits, Asking, channelVars
  <2> QED
    BY <1>3, <1>c, <2>1 DEF SetSize, AskSize, Overlap, Monotone
<1>d. ASSUME events < MaxEvents
      PROVE  /\ events + 1 \in Event /\ task[events + 1] = "new"
             /\ events % 2 = 1 => events + 1 \in Creator
  <2>1. events \in Nat /\ MaxEvents \in Nat
    BY <1>a, PreviewAssumption
  <2>2. events + 1 \in Event /\ events + 1 > events
    BY <1>d, <2>1 DEF Event
  <2>3. events % 2 = 1 => (events + 1) % 2 = 0
    BY <2>1
  <2> QED
    BY <2>2, <2>3 DEF TypeInv, Turns, Creator
<1>4. CASE Resumed
  <2>1. events % 2 = 1
    BY <1>a, <1>4, PreviewAssumption DEF TypeInv, TypeOK, Turns, Resumed
  <2>2. Moves(events + 1, "get") /\ events + 1 \in Task /\ "get" \in Label \ Waits
    BY <1>d, <1>4, <2>1 DEF Resumed, AskSize, Moves, Label, Waits, Asking, channelVars
  <2> QED
    BY <1>4, <1>c, <2>2 DEF Resumed, AskSize, Overlap, Monotone
<1>5. ASSUME NEW c \in BOOLEAN, StartRuns(c) PROVE TextureStep /\ Monotone
  BY <1>5 DEF StartRuns, Miss, TextureStep, Aside, Monotone
<1>e. ASSUME NEW t \in Task, NEW c \in BOOLEAN, StopAndRelease(t, c),
             UNCHANGED <<attached, window, kotlinVars, replies>>,
             task[t] \notin Waits \cup {"done"}
      PROVE  TextureStep /\ Monotone
  <2>1. Monotone /\ textureId' = None
    BY <1>e DEF StopAndRelease, Stop, Miss, Overlap, Monotone
  <2>2. \/ textureId = None /\ Moves(t, "done")
        \/ textureId # None /\ Sends(t, "releaseTexture", textureId)
    BY <1>e, Stops
  <2>3. CASE textureId = None /\ Moves(t, "done")
    BY <1>a, <1>c, <1>e, <2>1, <2>3
  <2>4. CASE textureId # None /\ Sends(t, "releaseTexture", textureId)
    BY <1>e, <2>1, <2>4 DEF TextureStep, Drops
  <2> QED
    BY <2>2, <2>3, <2>4
<1>6. ASSUME NEW c \in BOOLEAN, Paused(c) PROVE TextureStep /\ Monotone
  <2>1. task[events + 1] \notin Waits \cup {"done"} /\ events + 1 \in Task /\ events' = events + 1
    BY <1>d, <1>6 DEF Paused, Waits
  <2> QED
    BY <1>e, <1>6, <2>1 DEF Paused
<1>7. ASSUME NEW c \in BOOLEAN, Dispose(c) PROVE TextureStep /\ Monotone
  <2>1. task[dispose] \notin Waits \cup {"done"}
    BY <1>7 DEF Dispose, Waits, TypeInv, Turns
  <2> QED
    BY <1>e, <1>7, <2>1 DEF Dispose
<1>8. ASSUME NEW c \in BOOLEAN, Detached(c) PROVE TextureStep /\ Monotone
  <2>1. task[detached] \notin Waits \cup {"done"}
    BY <1>8 DEF Detached, Waits
  <2> QED
    BY <1>e, <1>8, <2>1 DEF Detached
<1>f. ASSUME requests # <<>>
      PROVE  /\ Head(requests) \in Request /\ Head(requests) = requests[1]
             /\ 1 \in DOMAIN requests
  BY <1>f, Queued, Taken
<1>9. ASSUME NEW c \in BOOLEAN, CreateTexture(c) PROVE TextureStep /\ Monotone
  <2>1. created \in Texture
    BY <1>f, <1>9, Room DEF CreateTexture
  <2>2. Serves(Head(requests), created)
    BY <1>f, <1>9 DEF CreateTexture, Answer, Serves
  <2>3. Makes(Head(requests)) /\ Monotone
    BY <1>a, <1>9, <2>1, <2>2 DEF CreateTexture, SetWindow, Reaches, Miss, Makes, Monotone
  <2> QED
    BY <1>f, <1>9, <2>3 DEF TextureStep, CreateTexture
<1>10. ASSUME NEW c \in BOOLEAN, ReleaseTexture(c) PROVE TextureStep /\ Monotone
  <2>1. Serves(Head(requests), None)
    BY <1>f, <1>10 DEF ReleaseTexture, Answer, Serves
  <2>2. Frees(Head(requests)) /\ Monotone
    BY <1>a, <1>10, <2>1 DEF ReleaseTexture, SetWindow, Reaches, Miss, Frees, Monotone
  <2> QED
    BY <1>f, <1>10, <2>2 DEF TextureStep, ReleaseTexture
<1>11. ASSUME NEW t \in Task, Resizes(t) PROVE TextureStep /\ Monotone
  <2>1. Moves(t, "get") /\ "get" \in Label \ Waits
    BY <1>11 DEF Resizes, Moves, TypeInv, Roles, Asking, Label, Waits, channelVars
  <2> QED
    BY <1>11, <1>c, <2>1 DEF Resizes, Monotone
<1>12. ASSUME NEW t \in Task, GetsSize(t) PROVE TextureStep /\ Monotone
  <2>1. Moves(t, "got") /\ "got" \in Label \ Waits
    BY <1>12 DEF GetsSize, Moves, TypeInv, Roles, Asking, Label, Waits, channelVars
  <2> QED
    BY <1>12, <1>c, <2>1 DEF GetsSize, Monotone
<1>13. ASSUME NEW t \in Task, SizeAnswered(t) PROVE TextureStep /\ Monotone
  <2>1. /\ task[t] = "got" /\ UNCHANGED replies
        /\ UNCHANGED <<nativeVars, kotlinVars, textureId, missed>>
    BY <1>13 DEF SizeAnswered
  <2>2. CASE Done(t) /\ UNCHANGED <<requests, overlaps>>
    <3>1. Moves(t, "done")
      BY <2>1, <2>2 DEF Done, Moves, Asking, Waits, channelVars
    <3> QED
      BY <1>a, <1>c, <2>1, <2>2, <3>1 DEF Monotone
  <2>3. CASE t # setSize /\ CreateOrShow(t)
    <3>1. Monotone
      BY <2>1, <2>3 DEF CreateOrShow, Overlap, Monotone
    <3>2. \/ textureId # None /\ Moves(t, "done")
          \/ textureId = None /\ Sends(t, "createTexture", None)
      BY <2>1, <2>3, Sized
    <3>3. textureId = None => "texture" \in overlaps' \/ \A u \in Task : task[u] # "createTexture"
      BY <2>3 DEF CreateOrShow, Overlap, Awaits
    <3>4. CASE textureId # None /\ Moves(t, "done")
      BY <1>a, <1>c, <2>1, <3>1, <3>4
    <3>5. CASE textureId = None /\ Sends(t, "createTexture", None)
      BY <2>1, <3>1, <3>3, <3>5 DEF TextureStep, AsksFor
    <3> QED
      BY <3>2, <3>4, <3>5
  <2> QED
    BY <1>13, <2>2, <2>3 DEF SizeAnswered
<1>14. CASE Receive
  <2> DEFINE r == Head(replies)
  <2>1. replies # <<>> /\ r \in Reply /\ r = replies[1] /\ 1 \in DOMAIN replies
    BY <1>14, Queued, Taken DEF Receive
  <2>2. Hears(r) /\ Monotone
    BY <1>14, <2>1 DEF Receive, Show, Done, Hears, Monotone
  <2>3. Comes(r) \/ Went(r)
    BY <1>14, <2>2 DEF Receive, Comes, Went
  <2> QED
    BY <2>1, <2>2, <2>3 DEF TextureStep
<1>15. CASE ReleaseTextureAll
  BY <1>15 DEF ReleaseTextureAll, TextureStep, ActivityGoes, Monotone
<1>16. CASE UNCHANGED vars
  BY <1>16 DEF vars, TextureStep, Aside, Monotone
<1>17. \A c \in {FALSE, ~missed} : c \in BOOLEAN
  OBVIOUS
<1> QED
  BY <1>1, <1>2, <1>3, <1>4, <1>5, <1>6, <1>7, <1>8, <1>9, <1>10, <1>11, <1>12, <1>13, <1>14,
     <1>15, <1>16, <1>17 DEF Next

\* Nothing happens to the textures.
LEMMA AsideKeeps ==
    ASSUME TypeInv, TextureInv, Monotone, Aside
    PROVE  TextureInv'
<1>1. /\ \A u \in Task, l \in Waits : task'[u] = l <=> task[u] = l
      /\ UNCHANGED <<requests, replies, producers, created, activity, textureId>>
  BY DEF TypeInv, TypeOK, Aside, Moves, channelVars
<1>2. Made' /\ OneOwner' /\ Alive'
  BY <1>1 DEF TextureInv, Made, OneOwner, Alive
<1>3. WindowLives'
  BY <1>1 DEF TextureInv, WindowLives, Aside, Monotone
<1>4. OneCreates' /\ ReleaseFirst'
  BY <1>1 DEF TextureInv, OneCreates, ReleaseFirst, Monotone, Waits
<1>5. TexturesAccounted'
  <2>1. \A i \in DOMAIN replies :
           task'[replies[i].task] = "createTexture" <=> task[replies[i].task] = "createTexture"
    BY <1>1, Queued DEF Waits
  <2> QED
    BY <1>1, <2>1 DEF TextureInv, TexturesAccounted, Monotone
<1> QED
  BY <1>2, <1>3, <1>4, <1>5 DEF TextureInv

\* A texture is asked for.
LEMMA AsksForKeeps ==
    ASSUME TypeInv, TextureInv, Monotone, NEW t \in Task, AsksFor(t)
    PROVE  TextureInv'
<1>1. "createTexture" \in Waits /\ None \in Texture \cup {None} /\ Sends(t, "createTexture", None)
  BY DEF Waits, AsksFor
<1>2. PICK n \in Nat : Joins(n, t, "createTexture", None)
  BY <1>1, SendsQueues
<1>3. replies' = replies
  BY <1>1, SendsQueues
<1>4. /\ task'[t] = "createTexture" /\ task[t] \notin Waits
      /\ \A u \in Task : u # t => task'[u] = task[u]
      /\ \A i \in DOMAIN replies : replies[i].task # t
  BY <1>1, SendsTasks
<1>5. UNCHANGED <<producers, created, activity, textureId, window>> /\ textureId = None
  BY DEF AsksFor
<1>6. Made'
  BY <1>2, <1>3, <1>5 DEF TextureInv, Made, Joins
<1>7. OneOwner'
  BY <1>2, <1>3, <1>5 DEF TextureInv, OneOwner, Joins
<1>8. Alive' /\ WindowLives'
  BY <1>3, <1>5 DEF TextureInv, Alive, WindowLives, Monotone
<1>9. OneCreates'
  <2> SUFFICES ASSUME "texture" \notin overlaps'
               PROVE  /\ \A u, v \in Task :
                            task'[u] = "createTexture" /\ task'[v] = "createTexture" => u = v
                      /\ \A u \in Task : task'[u] = "createTexture" => textureId' = None
    BY DEF OneCreates
  <2>1. \A u \in Task : task'[u] = "createTexture" => u = t
    BY <1>4 DEF AsksFor
  <2> QED
    BY <1>5, <2>1
<1>10. ReleaseFirst'
  <2> SUFFICES ASSUME "texture" \notin overlaps'
               PROVE  /\ \A i, j \in DOMAIN requests' :
                            requests'[i].method = "createTexture" /\ i < j
                               => requests'[j].method = "createTexture"
                      /\ \A i \in DOMAIN replies' : replies'[i].texture # None =>
                            /\ \A j \in DOMAIN requests' : requests'[j].method = "createTexture"
                            /\ \A j \in DOMAIN replies' : i < j => replies'[j].texture # None
    BY <1>5 DEF ReleaseFirst
  <2>1. ReleaseFirst /\ "texture" \notin overlaps
    BY DEF TextureInv, Monotone
  <2>2. \A i, j \in DOMAIN requests' :
           requests'[i].method = "createTexture" /\ i < j => requests'[j].method = "createTexture"
    <3>1. ASSUME NEW i \in DOMAIN requests', NEW j \in DOMAIN requests',
                 requests'[i].method = "createTexture", i < j
          PROVE  requests'[j].method = "createTexture"
      <4>1. CASE j = n
        BY <1>2, <4>1 DEF Joins
      <4>2. CASE j # n
        <5>1. i \in DOMAIN requests /\ j \in DOMAIN requests
          BY <1>2, <3>1, <4>2 DEF Joins
        <5> QED
          BY <1>2, <2>1, <3>1, <5>1 DEF ReleaseFirst, Joins
      <4> QED
        BY <4>1, <4>2
    <3> QED
      BY <3>1
  <2>3. \A i \in DOMAIN replies' : replies'[i].texture # None =>
           /\ \A j \in DOMAIN requests' : requests'[j].method = "createTexture"
           /\ \A j \in DOMAIN replies' : i < j => replies'[j].texture # None
    BY <1>2, <1>3, <2>1 DEF ReleaseFirst, Joins
  <2> QED
    BY <2>2, <2>3
<1>11. TexturesAccounted'
  <2> SUFFICES ASSUME "texture" \notin overlaps', NEW p \in producers'
               PROVE  \/ p = textureId'
                      \/ \E i \in DOMAIN replies' :
                            replies'[i].texture = p /\ task'[replies'[i].task] = "createTexture"
                      \/ \E i \in DOMAIN requests' :
                            requests'[i].texture = p /\ requests'[i].method = "releaseTexture"
    BY DEF TexturesAccounted
  <2>1. TexturesAccounted /\ "texture" \notin overlaps
    BY DEF TextureInv, Monotone
  <2>2. \A i \in DOMAIN replies : task'[replies[i].task] = task[replies[i].task]
    BY <1>4, Queued
  <2> QED
    BY <1>2, <1>3, <1>5, <2>1, <2>2 DEF TexturesAccounted, Joins
<1> QED
  BY <1>6, <1>7, <1>8, <1>9, <1>10, <1>11 DEF TextureInv

\* The controller gives its texture up.
LEMMA DropsKeep ==
    ASSUME TypeInv, TextureInv, Monotone, NEW t \in Task, Drops(t)
    PROVE  TextureInv'
<1>1. /\ "releaseTexture" \in Waits /\ textureId \in Texture \cup {None}
      /\ Sends(t, "releaseTexture", textureId)
  BY DEF Waits, Drops, TypeInv, TypeOK
<1>2. PICK n \in Nat : Joins(n, t, "releaseTexture", textureId)
  BY <1>1, SendsQueues
<1>3. replies' = replies
  BY <1>1, SendsQueues
<1>4. /\ task'[t] = "releaseTexture" /\ task[t] \notin Waits
      /\ \A u \in Task : u # t => task'[u] = task[u]
  BY <1>1, SendsTasks
<1>5. UNCHANGED <<producers, created, activity, window>> /\ textureId # None /\ textureId' = None
  BY DEF Drops
<1>6. Made'
  BY <1>2, <1>3, <1>5 DEF TextureInv, Made, Joins
<1>7. OneOwner'
  <2>1. \A j \in DOMAIN replies : replies[j].texture # None => replies[j].texture # textureId
    BY DEF TextureInv, OneOwner
  <2>2. \A i \in DOMAIN requests' : requests'[i].texture # None =>
           /\ requests'[i].texture # textureId'
           /\ \A j \in DOMAIN replies' : replies'[j].texture # requests'[i].texture
    BY <1>2, <1>3, <1>5, <2>1 DEF TextureInv, OneOwner, Joins
  <2>3. \A i \in DOMAIN replies' : replies'[i].texture # None =>
           /\ replies'[i].texture # textureId'
           /\ \A j \in DOMAIN replies' : replies'[i].texture = replies'[j].texture => i = j
    BY <1>3, <1>5 DEF TextureInv, OneOwner
  <2> QED
    BY <2>2, <2>3 DEF OneOwner
<1>8. Alive' /\ WindowLives'
  BY <1>3, <1>5 DEF TextureInv, Alive, WindowLives, Monotone
<1>9. OneCreates'
  BY <1>4, <1>5 DEF TextureInv, OneCreates, Monotone
<1>a. "texture" \notin overlaps => \A u \in Task : task[u] # "createTexture"
  BY <1>5 DEF TextureInv, OneCreates
<1>b. "texture" \notin overlaps =>
         /\ \A i \in DOMAIN requests : requests[i].method # "createTexture"
         /\ \A i \in DOMAIN replies : replies[i].texture = None
  BY <1>a, Queued DEF TypeInv, Awaited, Waits
<1>10. ReleaseFirst'
  BY <1>2, <1>3, <1>5, <1>b DEF ReleaseFirst, Joins, Monotone
<1>11. TexturesAccounted'
  <2> SUFFICES ASSUME "texture" \notin overlaps', NEW p \in producers'
               PROVE  \E i \in DOMAIN requests' :
                            requests'[i].texture = p /\ requests'[i].method = "releaseTexture"
    BY DEF TexturesAccounted
  <2>1. TexturesAccounted /\ "texture" \notin overlaps
    BY DEF TextureInv, Monotone
  <2>2. \/ p = textureId
        \/ \E i \in DOMAIN requests :
              requests[i].texture = p /\ requests[i].method = "releaseTexture"
    BY <1>5, <1>a, <2>1, Queued DEF TexturesAccounted
  <2> QED
    BY <1>2, <2>2 DEF Joins
<1> QED
  BY <1>6, <1>7, <1>8, <1>9, <1>10, <1>11 DEF TextureInv

\* A texture is made: it is the youngest, and the only one on its way that nobody may
\* release.
LEMMA MakesKeep ==
    ASSUME TypeInv, TextureInv, Monotone, NEW q \in Request, Makes(q)
    PROVE  TextureInv'
<1>1. Serves(q, created) /\ created \in Texture /\ created # None /\ q.method = "createTexture"
  BY Names DEF Makes
<1>2. PICK n \in Nat : Follows(n, q.task, created)
  BY <1>1, ServesQueues
<1>3. /\ q = requests[1] /\ 1 \in DOMAIN requests /\ UNCHANGED task
      /\ q.task \in Task /\ task[q.task] = "createTexture" /\ q.texture = None
  BY <1>1, ServesQueues
<1>4. \A i \in DOMAIN requests' :
         i + 1 \in DOMAIN requests /\ i \in Nat \ {0} /\ requests'[i] = requests[i + 1]
  BY <1>1, ServesQueues
<1>5. /\ created' = created + 1 /\ producers' = producers \cup {created}
      /\ UNCHANGED <<activity, textureId, attached>>
  BY DEF Makes
<1>6. /\ created \in Nat /\ producers \subseteq Nat /\ textureId \in Nat \cup {None}
      /\ \A i \in DOMAIN requests : requests[i].texture \in Nat \cup {None}
      /\ \A i \in DOMAIN replies : replies[i].texture \in Nat \cup {None}
  BY Names, Queued DEF TypeInv, TypeOK, Request, Reply
<1>a. Made
  BY DEF TextureInv
<1>7. Made'
  <2>1. \A p \in Nat : p < created => p < created'
    BY <1>5, <1>6
  <2>2. created < created'
    BY <1>5, <1>6
  <2> QED
    BY <1>2, <1>4, <1>5, <1>6, <1>a, <2>1, <2>2 DEF Made, Follows
<1>8. OneOwner'
  <2>1. /\ textureId # created
        /\ \A i \in DOMAIN requests : requests[i].texture # created
        /\ \A i \in DOMAIN replies : replies[i].texture # created
    BY <1>1, <1>6, <1>a DEF Made
  <2>2. \A i \in DOMAIN requests' : requests'[i].texture # None =>
           /\ requests'[i].texture # textureId'
           /\ \A j \in DOMAIN replies' : replies'[j].texture # requests'[i].texture
    BY <1>2, <1>4, <1>5, <2>1 DEF TextureInv, OneOwner, Follows
  <2>3. \A i \in DOMAIN replies' : replies'[i].texture # None =>
           /\ replies'[i].texture # textureId'
           /\ \A j \in DOMAIN replies' : replies'[i].texture = replies'[j].texture => i = j
    BY <1>2, <1>5, <2>1 DEF TextureInv, OneOwner, Follows
  <2> QED
    BY <2>2, <2>3 DEF OneOwner
<1>9. Alive'
  BY <1>2, <1>5 DEF TextureInv, Alive, Follows
<1>10. WindowLives'
  BY <1>5 DEF TypeInv, TypeOK, Turns, TextureInv, WindowLives, Makes, Monotone
<1>11. OneCreates'
  BY <1>3, <1>5 DEF TextureInv, OneCreates, Monotone
<1>12. ReleaseFirst'
  <2> SUFFICES ASSUME "texture" \notin overlaps' PROVE ReleaseFirst'
    BY DEF ReleaseFirst
  <2>1. ReleaseFirst /\ OneCreates /\ "texture" \notin overlaps
    BY DEF TextureInv, Monotone
  <2>2. \A j \in DOMAIN requests : requests[j].method = "createTexture"
    <3>1. \A j \in DOMAIN requests : j = 1 \/ 1 < j
      BY Queued
    <3> QED
      BY <1>1, <1>3, <2>1, <3>1 DEF ReleaseFirst
  <2>3. \A j \in DOMAIN requests' : requests'[j].method = "createTexture"
    BY <1>4, <2>2
  <2>4. \A i, j \in DOMAIN replies' :
           i < j /\ replies'[i].texture # None => replies'[j].texture # None
    <3>1. ASSUME NEW i \in DOMAIN replies', NEW j \in DOMAIN replies',
                 i < j, replies'[i].texture # None
          PROVE  replies'[j].texture # None
      <4>1. CASE j = n
        BY <1>1, <1>2, <4>1 DEF Follows
      <4>2. CASE j # n
        <5>1. i \in DOMAIN replies /\ j \in DOMAIN replies
          BY <1>2, <3>1, <4>2 DEF Follows
        <5> QED
          BY <1>2, <2>1, <3>1, <5>1 DEF ReleaseFirst, Follows
      <4> QED
        BY <4>1, <4>2
    <3> QED
      BY <3>1
  <2>5. textureId' # None => \A t \in Task : task'[t] # "releaseTexture"
    BY <1>3, <1>5, <2>1 DEF ReleaseFirst
  <2> QED
    BY <2>3, <2>4, <2>5 DEF ReleaseFirst
<1>13. TexturesAccounted'
  <2> SUFFICES ASSUME "texture" \notin overlaps', NEW p \in producers'
               PROVE  \/ p = textureId'
                      \/ \E i \in DOMAIN replies' :
                            replies'[i].texture = p /\ task'[replies'[i].task] = "createTexture"
                      \/ \E i \in DOMAIN requests' :
                            requests'[i].texture = p /\ requests'[i].method = "releaseTexture"
    BY DEF TexturesAccounted
  <2>1. CASE p = created
    BY <1>2, <1>3, <2>1 DEF Follows
  <2>2. CASE p \in producers
    <3>1. TexturesAccounted
      BY DEF TextureInv
    <3>2. CASE \E i \in DOMAIN requests :
                  requests[i].texture = p /\ requests[i].method = "releaseTexture"
      <4>1. PICK i \in DOMAIN requests :
                  requests[i].texture = p /\ requests[i].method = "releaseTexture"
        BY <3>2
      <4>2. i # 1
        BY <1>1, <1>3, <4>1
      <4>3. i - 1 \in DOMAIN requests' /\ requests'[i - 1] = requests[i]
        BY <1>1, <4>2, ServesQueues
      <4> QED
        BY <4>1, <4>3
    <3>3. CASE p = textureId
      BY <1>5, <3>3
    <3>4. CASE \E i \in DOMAIN replies :
                  replies[i].texture = p /\ task[replies[i].task] = "createTexture"
      BY <1>2, <1>3, <3>4 DEF Follows
    <3> QED
      BY <2>2, <3>1, <3>2, <3>3, <3>4 DEF TexturesAccounted, Monotone
  <2> QED
    BY <1>5, <2>1, <2>2
<1> QED
  BY <1>7, <1>8, <1>9, <1>10, <1>11, <1>12, <1>13 DEF TextureInv

\* A texture is released that nobody has or will get.
LEMMA FreesKeep ==
    ASSUME TypeInv, TextureInv, Monotone, NEW q \in Request, Frees(q)
    PROVE  TextureInv'
<1>1. Serves(q, None) /\ None \in Texture \cup {None} /\ q.method = "releaseTexture"
  BY DEF Frees
<1>2. PICK n \in Nat : Follows(n, q.task, None)
  BY <1>1, ServesQueues
<1>3. /\ q = requests[1] /\ 1 \in DOMAIN requests /\ UNCHANGED task
      /\ q.task \in Task /\ task[q.task] = "releaseTexture" /\ q.texture # None
  BY <1>1, ServesQueues
<1>4. \A i \in DOMAIN requests' :
         i + 1 \in DOMAIN requests /\ i \in Nat \ {0} /\ requests'[i] = requests[i + 1]
  BY <1>1, ServesQueues
<1>5. /\ producers' = producers \ {q.texture}
      /\ UNCHANGED <<activity, textureId, attached, created>>
  BY DEF Frees
<1>6. /\ q.texture # textureId
      /\ \A i \in DOMAIN replies : replies[i].texture # q.texture
  BY <1>3 DEF TextureInv, OneOwner
<1>7. Made'
  BY <1>2, <1>4, <1>5 DEF TextureInv, Made, Follows
<1>8. OneOwner'
  <2>1. \A i \in DOMAIN requests' : requests'[i].texture # None =>
           /\ requests'[i].texture # textureId'
           /\ \A j \in DOMAIN replies' : replies'[j].texture # requests'[i].texture
    BY <1>2, <1>4, <1>5 DEF TextureInv, OneOwner, Follows
  <2>2. \A i \in DOMAIN replies' : replies'[i].texture # None =>
           /\ replies'[i].texture # textureId'
           /\ \A j \in DOMAIN replies' : replies'[i].texture = replies'[j].texture => i = j
    BY <1>2, <1>5 DEF TextureInv, OneOwner, Follows
  <2> QED
    BY <2>1, <2>2 DEF OneOwner
<1>9. Alive'
  BY <1>2, <1>5, <1>6 DEF TextureInv, Alive, Follows
<1>10. WindowLives'
  BY <1>5 DEF TypeInv, TypeOK, Turns, TextureInv, WindowLives, Frees, Monotone
<1>11. OneCreates'
  BY <1>3, <1>5 DEF TextureInv, OneCreates, Monotone
<1>12. ReleaseFirst'
  <2> SUFFICES ASSUME "texture" \notin overlaps' PROVE ReleaseFirst'
    BY DEF ReleaseFirst
  <2>1. ReleaseFirst /\ "texture" \notin overlaps
    BY DEF TextureInv, Monotone
  <2>2. \A i \in DOMAIN replies : replies[i].texture = None
    BY <1>1, <1>3, <2>1 DEF ReleaseFirst
  <2>3. \A i \in DOMAIN replies' : replies'[i].texture = None
    BY <1>2, <2>2 DEF Follows
  <2>4. \A i, j \in DOMAIN requests' :
           requests'[i].method = "createTexture" /\ i < j => requests'[j].method = "createTexture"
    <3>1. \A i, j \in DOMAIN requests' : i < j => i + 1 < j + 1
      BY <1>4
    <3> QED
      BY <1>4, <2>1, <3>1 DEF ReleaseFirst
  <2>5. textureId' # None => \A t \in Task : task'[t] # "releaseTexture"
    BY <1>3, <1>5, <2>1 DEF ReleaseFirst
  <2> QED
    BY <2>3, <2>4, <2>5 DEF ReleaseFirst
<1>13. TexturesAccounted'
  <2> SUFFICES ASSUME "texture" \notin overlaps', NEW p \in producers'
               PROVE  \/ p = textureId'
                      \/ \E i \in DOMAIN replies' :
                            replies'[i].texture = p /\ task'[replies'[i].task] = "createTexture"
                      \/ \E i \in DOMAIN requests' :
                            requests'[i].texture = p /\ requests'[i].method = "releaseTexture"
    BY DEF TexturesAccounted
  <2>1. TexturesAccounted /\ p \in producers /\ p # q.texture
    BY <1>5 DEF TextureInv
  <2>2. CASE \E i \in DOMAIN requests :
                requests[i].texture = p /\ requests[i].method = "releaseTexture"
    <3>1. PICK i \in DOMAIN requests :
                requests[i].texture = p /\ requests[i].method = "releaseTexture"
      BY <2>2
    <3>2. i # 1
      BY <1>3, <2>1, <3>1
    <3>3. i - 1 \in DOMAIN requests' /\ requests'[i - 1] = requests[i]
      BY <1>1, <3>2, ServesQueues
    <3> QED
      BY <3>1, <3>3
  <2>3. CASE p = textureId
    BY <1>5, <2>3
  <2>4. CASE \E i \in DOMAIN replies :
                replies[i].texture = p /\ task[replies[i].task] = "createTexture"
    BY <1>2, <1>3, <2>4 DEF Follows
  <2> QED
    BY <2>1, <2>2, <2>3, <2>4 DEF TexturesAccounted, Monotone
<1> QED
  BY <1>7, <1>8, <1>9, <1>10, <1>11, <1>12, <1>13 DEF TextureInv

\* The controller gets its texture.
LEMMA ComesKeep ==
    ASSUME TypeInv, TextureInv, Monotone, NEW r \in Reply, Comes(r)
    PROVE  TextureInv'
<1>1. Hears(r) /\ task[r.task] = "createTexture"
  BY DEF Comes
<1>2. /\ requests' = requests /\ r = replies[1] /\ 1 \in DOMAIN replies
      /\ r.task \in Task /\ task'[r.task] = "done" /\ r.texture # None
  BY <1>1, HearsQueues
<1>3. /\ \A u \in Task : u # r.task => task'[u] = task[u]
      /\ \A i \in DOMAIN replies' : replies'[i].task \in Task /\ replies'[i].task # r.task
  BY <1>1, HearsQueues
<1>4. \A i \in DOMAIN replies' :
         i + 1 \in DOMAIN replies /\ i \in Nat \ {0} /\ replies'[i] = replies[i + 1]
  BY <1>1, HearsQueues
<1>5. textureId' = r.texture /\ UNCHANGED <<producers, created, activity, window>>
  BY DEF Comes
<1>6. Made'
  BY <1>2, <1>4, <1>5 DEF TextureInv, Made
<1>7. OneOwner'
  <2>1. \A i \in DOMAIN requests' : requests'[i].texture # None =>
           /\ requests'[i].texture # textureId'
           /\ \A j \in DOMAIN replies' : replies'[j].texture # requests'[i].texture
    BY <1>2, <1>4, <1>5 DEF TextureInv, OneOwner
  <2>2. \A i \in DOMAIN replies' : i + 1 # 1
    BY <1>4
  <2>3. \A i, j \in DOMAIN replies' : i + 1 = j + 1 => i = j
    BY <1>4
  <2>4. \A i \in DOMAIN replies' : replies'[i].texture # None =>
           /\ replies'[i].texture # textureId'
           /\ \A j \in DOMAIN replies' : replies'[i].texture = replies'[j].texture => i = j
    BY <1>2, <1>4, <1>5, <2>2, <2>3 DEF TextureInv, OneOwner
  <2> QED
    BY <2>1, <2>4 DEF OneOwner
<1>8. Alive' /\ WindowLives'
  BY <1>2, <1>4, <1>5 DEF TextureInv, Alive, WindowLives, Monotone
<1>a. "texture" \notin overlaps' =>
         /\ "texture" \notin overlaps /\ textureId = None
         /\ \A u \in Task : task'[u] # "createTexture"
         /\ \A u \in Task : task[u] = "createTexture" => u = r.task
  BY <1>1, <1>2, <1>3 DEF TextureInv, OneCreates, Monotone
<1>9. OneCreates'
  BY <1>a DEF OneCreates
<1>10. ReleaseFirst'
  <2> SUFFICES ASSUME "texture" \notin overlaps' PROVE ReleaseFirst'
    BY DEF ReleaseFirst
  <2>1. ReleaseFirst
    BY DEF TextureInv
  <2>2. /\ \A j \in DOMAIN requests : requests[j].method = "createTexture"
        /\ \A j \in DOMAIN replies : 1 < j => replies[j].texture # None
    BY <1>2, <1>a, <2>1 DEF ReleaseFirst
  <2>3. \A i \in DOMAIN replies' : replies'[i].texture # None
    <3>1. \A i \in DOMAIN replies' : 1 < i + 1
      BY <1>4
    <3> QED
      BY <1>4, <2>2, <3>1
  <2>4. \A u \in Task : task'[u] # "releaseTexture"
    <3> SUFFICES ASSUME NEW u \in Task, task'[u] = "releaseTexture" PROVE FALSE
      OBVIOUS
    <3>1. task[u] = "releaseTexture" /\ u # r.task
      BY <1>2, <1>3
    <3>2. \/ \E i \in DOMAIN requests : requests[i].task = u
          \/ \E i \in DOMAIN replies : replies[i].task = u
      BY <3>1 DEF TypeInv, Pending, Waits
    <3>3. ASSUME NEW i \in DOMAIN requests, requests[i].task = u PROVE FALSE
      BY <2>2, <3>1, <3>3 DEF TypeInv, Awaited
    <3>4. ASSUME NEW i \in DOMAIN replies, replies[i].task = u PROVE FALSE
      <4>1. i # 1
        BY <1>2, <3>1, <3>4
      <4>2. 1 < i
        BY <4>1, Queued
      <4> QED
        BY <2>2, <3>1, <3>4, <4>2 DEF TypeInv, Awaited
    <3> QED
      BY <3>2, <3>3, <3>4
  <2> QED
    BY <1>2, <2>2, <2>3, <2>4 DEF ReleaseFirst
<1>11. TexturesAccounted'
  <2> SUFFICES ASSUME "texture" \notin overlaps', NEW p \in producers'
               PROVE  \/ p = textureId'
                      \/ \E i \in DOMAIN requests' :
                            requests'[i].texture = p /\ requests'[i].method = "releaseTexture"
    BY DEF TexturesAccounted
  <2>1. TexturesAccounted /\ p \in producers /\ p # None
    BY <1>5, Names DEF TextureInv, TypeInv, TypeOK
  <2>2. ASSUME NEW i \in DOMAIN replies, replies[i].texture = p,
               task[replies[i].task] = "createTexture"
        PROVE  p = textureId'
    <3>1. replies[i].task = r.task
      BY <1>a, <2>2, Queued
    <3>2. i = 1
      BY <1>2, <3>1 DEF TypeInv, Distinct
    <3> QED
      BY <1>2, <1>5, <2>2, <3>2
  <2> QED
    BY <1>2, <1>a, <2>1, <2>2 DEF TexturesAccounted
<1> QED
  BY <1>6, <1>7, <1>8, <1>9, <1>10, <1>11 DEF TextureInv

\* A release is over.
LEMMA WentKeeps ==
    ASSUME TypeInv, TextureInv, Monotone, NEW r \in Reply, Went(r)
    PROVE  TextureInv'
<1>1. Hears(r) /\ task[r.task] = "releaseTexture"
  BY DEF Went
<1>2. /\ requests' = requests /\ r = replies[1] /\ 1 \in DOMAIN replies
      /\ r.task \in Task /\ task'[r.task] = "done" /\ r.texture = None
  BY <1>1, HearsQueues
<1>3. /\ \A u \in Task : u # r.task => task'[u] = task[u]
      /\ \A i \in DOMAIN replies' : replies'[i].task \in Task /\ replies'[i].task # r.task
  BY <1>1, HearsQueues
<1>4. \A i \in DOMAIN replies' :
         i + 1 \in DOMAIN replies /\ i \in Nat \ {0} /\ replies'[i] = replies[i + 1]
  BY <1>1, HearsQueues
<1>5. UNCHANGED <<producers, created, activity, window, textureId>>
  BY DEF Went
<1>6. Made'
  BY <1>2, <1>4, <1>5 DEF TextureInv, Made
<1>7. OneOwner'
  <2>1. \A i \in DOMAIN requests' : requests'[i].texture # None =>
           /\ requests'[i].texture # textureId'
           /\ \A j \in DOMAIN replies' : replies'[j].texture # requests'[i].texture
    BY <1>2, <1>4, <1>5 DEF TextureInv, OneOwner
  <2>2. \A i, j \in DOMAIN replies' : i + 1 = j + 1 => i = j
    BY <1>4
  <2>3. \A i \in DOMAIN replies' : replies'[i].texture # None =>
           /\ replies'[i].texture # textureId'
           /\ \A j \in DOMAIN replies' : replies'[i].texture = replies'[j].texture => i = j
    BY <1>2, <1>4, <1>5, <2>2 DEF TextureInv, OneOwner
  <2> QED
    BY <2>1, <2>3 DEF OneOwner
<1>8. Alive' /\ WindowLives'
  BY <1>2, <1>4, <1>5 DEF TextureInv, Alive, WindowLives, Monotone
<1>a. \A u \in Task : task'[u] \in Waits => task[u] = task'[u]
  BY <1>2, <1>3 DEF Waits
<1>9. OneCreates'
  BY <1>5, <1>a DEF TextureInv, OneCreates, Monotone, Waits
<1>10. ReleaseFirst'
  <2> SUFFICES ASSUME "texture" \notin overlaps' PROVE ReleaseFirst'
    BY DEF ReleaseFirst
  <2>1. ReleaseFirst /\ "texture" \notin overlaps
    BY DEF TextureInv, Monotone
  <2>2. \A i, j \in DOMAIN replies' : i < j => i + 1 < j + 1
    BY <1>4
  <2>3. \A i \in DOMAIN replies' : replies'[i].texture # None =>
           /\ \A j \in DOMAIN requests' : requests'[j].method = "createTexture"
           /\ \A j \in DOMAIN replies' : i < j => replies'[j].texture # None
    BY <1>2, <1>4, <2>1, <2>2 DEF ReleaseFirst
  <2>4. textureId' # None => \A u \in Task : task'[u] # "releaseTexture"
    BY <1>5, <1>a, <2>1 DEF ReleaseFirst, Waits
  <2> QED
    BY <1>2, <2>1, <2>3, <2>4 DEF ReleaseFirst
<1>11. TexturesAccounted'
  <2> SUFFICES ASSUME "texture" \notin overlaps', NEW p \in producers'
               PROVE  \/ p = textureId'
                      \/ \E i \in DOMAIN replies' :
                            replies'[i].texture = p /\ task'[replies'[i].task] = "createTexture"
                      \/ \E i \in DOMAIN requests' :
                            requests'[i].texture = p /\ requests'[i].method = "releaseTexture"
    BY DEF TexturesAccounted
  <2>1. TexturesAccounted /\ p \in producers
    BY <1>5 DEF TextureInv
  <2>2. ASSUME NEW i \in DOMAIN replies, replies[i].texture = p,
               task[replies[i].task] = "createTexture"
        PROVE  \E j \in DOMAIN replies' :
                  replies'[j].texture = p /\ task'[replies'[j].task] = "createTexture"
    <3>1. i # 1
      BY <1>1, <1>2, <2>2
    <3>2. i - 1 \in DOMAIN replies' /\ replies'[i - 1] = replies[i]
      BY <1>1, <3>1, HearsQueues
    <3> QED
      BY <1>3, <2>2, <3>2
  <2> QED
    BY <1>2, <1>5, <2>1, <2>2 DEF TexturesAccounted, Monotone
<1> QED
  BY <1>6, <1>7, <1>8, <1>9, <1>10, <1>11 DEF TextureInv

\* At the start there are no textures.
LEMMA TextureInit == Init => TextureInv
<1> SUFFICES ASSUME Init PROVE TextureInv
  OBVIOUS
<1>1. DOMAIN requests = {} /\ DOMAIN replies = {} /\ producers = {} /\ textureId = None /\ window = None
  BY NoneWaits DEF Init
<1>2. \A t \in Task : task[t] = "new"
  BY DEF Init
<1> QED
  BY <1>1, <1>2 DEF TextureInv, Made, OneOwner, Alive, WindowLives, OneCreates, ReleaseFirst,
     TexturesAccounted

\* The steps one by one.
LEMMA TextureStepKeeps == TypeInv /\ TextureInv /\ [Next]_vars => TextureInv'
<1> SUFFICES ASSUME TypeInv, TextureInv, [Next]_vars PROVE TextureInv'
  OBVIOUS
<1>1. TextureStep /\ Monotone
  BY TextureKinds
<1>2. CASE Aside
  BY <1>1, <1>2, AsideKeeps
<1>3. CASE ActivityGoes
  <2>1. UNCHANGED <<task, requests, replies, created, textureId>> /\ producers' = {} /\ activity' = FALSE
    BY <1>3 DEF ActivityGoes, channelVars
  <2> QED
    BY <1>1, <2>1 DEF TextureInv, Made, OneOwner, Alive, WindowLives, OneCreates, ReleaseFirst,
       TexturesAccounted, Monotone
<1>4. ASSUME NEW t \in Task, AsksFor(t) \/ Drops(t) PROVE TextureInv'
  BY <1>1, <1>4, AsksForKeeps, DropsKeep
<1>5. ASSUME NEW q \in Request, Makes(q) \/ Frees(q) PROVE TextureInv'
  BY <1>1, <1>5, MakesKeep, FreesKeep
<1>6. ASSUME NEW r \in Reply, Comes(r) \/ Went(r) PROVE TextureInv'
  BY <1>1, <1>6, ComesKeep, WentKeeps
<1> QED
  BY <1>1, <1>2, <1>3, <1>4, <1>5, <1>6 DEF TextureStep

\* TypeInv and TextureInv hold throughout.
LEMMA TexturesInv == Spec => [](TypeInv /\ TextureInv)
BY TypeInit, TextureInit, TypeStep, TextureStepKeeps, PTL DEF Spec

\* While there is an activity, the texture that the controller hands out exists, however
\* many pauses and resumes, the dispose and the detach overlap.
THEOREM HandedOutTextureLives == Spec => []TextureLives
<1>1. TextureInv => TextureLives
  BY DEF TextureInv, Alive, TextureLives
<1> QED
  BY <1>1, TexturesInv, PTL

\* The native side draws on a released texture only if a call did not reach it.
THEOREM WindowIsLive == Spec => []WindowLives
<1>1. TextureInv => WindowLives
  BY DEF TextureInv
<1> QED
  BY <1>1, TexturesInv, PTL

\* No texture is lost, unless two creations overlapped.
THEOREM NoTextureLost == Spec => []TexturesAccounted
<1>1. TextureInv => TexturesAccounted
  BY DEF TextureInv
<1> QED
  BY <1>1, TexturesInv, PTL

-----------------------------------------------------------------------------
(* The view, the stream and the size.                                      *)

\* What the view shows is the controller's texture, ...
Shows ==
    ("texture" \notin overlaps /\ view = "mounted" /\ textureId # None) => _textureId = textureId

\* ... that is the window, which is otherwise on its way to it or from it.
Draws == ("texture" \notin overlaps /\ attached /\ ~missed) =>
    /\ textureId # None => window = textureId
    /\ \A i \in DOMAIN replies : replies[i].texture # None => window = replies[i].texture
    /\ window # None =>
          \/ window = textureId
          \/ \E i \in DOMAIN replies : replies[i].texture = window
          \/ \E i \in DOMAIN requests : requests[i].texture = window

\* Somebody will start the stream.
Wanted == \E t \in Creator : task[t] \in Asking

\* A view that is seen has its texture and its stream, or will have them.
Goes == (view = "mounted" /\ app = "resumed" /\ attached) =>
    /\ textureId # None \/ Wanted
    /\ ~missed => running \/ starts > 0 \/ Wanted

\* If no two questions overlapped there is one at a time, and its answer is still right.
OneAsks == "size" \notin overlaps =>
    \A t, u \in Task : task[t] \in Asking /\ task[u] \in Asking => t = u

SizeTrue == ("size" \notin overlaps /\ attached) =>
    /\ \A t \in Task : task[t] \in {"got", "createTexture"} => got[t] = size
    /\ (view = "mounted" /\ \A t \in Task : task[t] \notin Asking) => _currentSize = size

SizeKnown == \A t \in Task : attached /\ task[t] \in {"got", "createTexture"} => got[t] \in Size

\* A stop that came after all was quiet leaves all quiet.
Stopped == view = "disposed" \/ app = "paused"

Quiet == "stop" \notin overlaps =>
    /\ "texture" \notin overlaps
    /\ \A t, u \in Creator : task[t] \in Asking /\ task[u] \in Asking => t = u
    /\ Stopped => ~Wanted /\ starts = 0 /\ textureId = None /\ (~missed => ~running)

NewView == view = "new" => textureId = None

ViewInv == Shows /\ Goes /\ OneAsks /\ SizeTrue /\ SizeKnown /\ Quiet /\ NewView

\* Nobody begins to ask or ends, ...
SameAsking == \A u \in Task : task'[u] \in Asking <=> task[u] \in Asking

\* ... and what they know stays.
SameAnswers ==
    \A u \in Task : task'[u] \in {"got", "createTexture"} =>
        task[u] \in {"got", "createTexture"} /\ got'[u] = got[u]

\* So do the sizes, then.
LEMMA SizesRest ==
    ASSUME ViewInv, Monotone, SameAsking, SameAnswers, UNCHANGED <<view, _currentSize>>,
           ~attached' \/ UNCHANGED size
    PROVE  SizeTrue' /\ SizeKnown'
BY DEF ViewInv, SizeTrue, SizeKnown, SameAsking, SameAnswers, Monotone

\* The view and the controller stay as they are.
LEMMA ViewRests ==
    ASSUME TypeInv, TypeInv', ViewInv, Monotone, SameAsking, SizeTrue', SizeKnown',
           UNCHANGED <<view, app, textureId, starts>>, ~attached' \/ UNCHANGED running,
           _textureId' = _textureId \/ textureId = None \/ "texture" \in overlaps,
           "texture" \in overlaps' => "texture" \in overlaps \/ "stop" \in overlaps
    PROVE  ViewInv'
<1>1. Wanted' <=> Wanted
  BY Names DEF SameAsking, Wanted
<1>2. Shows' /\ NewView'
  BY DEF ViewInv, Shows, NewView, Monotone
<1>3. Goes'
  BY <1>1 DEF ViewInv, Goes, Monotone
<1>4. OneAsks'
  BY DEF ViewInv, OneAsks, SameAsking, Monotone
<1>5. Quiet'
  <2> SUFFICES ASSUME "stop" \notin overlaps' PROVE Quiet'
    BY DEF Quiet
  <2>1. Quiet /\ "stop" \notin overlaps
    BY DEF ViewInv, Monotone
  <2>2. "texture" \notin overlaps'
    BY <2>1 DEF Quiet
  <2>3. \A t, u \in Creator : task'[t] \in Asking /\ task'[u] \in Asking => t = u
    BY <2>1, Names DEF Quiet, SameAsking
  <2>4. Stopped' => ~Wanted' /\ starts' = 0 /\ textureId' = None
    BY <1>1, <2>1 DEF Quiet, Stopped
  <2>5. Stopped' /\ ~missed' => ~running'
    BY <2>1 DEF Quiet, Stopped, Monotone, TypeInv, Turns
  <2> QED
    BY <2>2, <2>3, <2>4, <2>5 DEF Quiet
<1> QED
  BY <1>2, <1>3, <1>4, <1>5 DEF ViewInv

\* The controller stops and gives its texture up.
LEMMA ViewStops ==
    ASSUME TypeInv, TypeInv', ViewInv, Monotone, NEW t \in Task, NEW c \in BOOLEAN,
           StopAndRelease(t, c), task[t] \in {"new", "posted"},
           UNCHANGED <<attached, size, starts, _currentSize, got>>,
           app' = "paused" \/ view' = "disposed" \/ ~attached,
           view' = "mounted" => view = "mounted" \/ ~attached
    PROVE  ViewInv'
<1>1. \E l \in {"releaseTexture", "done"} : task' = [task EXCEPT ![t] = l]
  BY DEF StopAndRelease
<1>2. SameAsking /\ SameAnswers
  BY <1>1 DEF TypeInv, TypeOK, SameAsking, SameAnswers, Asking
<1>3. textureId' = None
  BY DEF StopAndRelease
<1>4. Shows' /\ NewView'
  BY <1>3 DEF Shows, NewView
<1>5. Goes'
  BY DEF Goes
<1>6. OneAsks'
  BY <1>2 DEF ViewInv, OneAsks, SameAsking, Monotone
<1>7. SizeTrue' /\ SizeKnown'
  BY <1>2 DEF ViewInv, SizeTrue, SizeKnown, SameAsking, SameAnswers, Monotone
<1>8. Quiet'
  <2> SUFFICES ASSUME "stop" \notin overlaps' PROVE Quiet'
    BY DEF Quiet
  <2>1. Quiet /\ "stop" \notin overlaps
    BY DEF ViewInv, Monotone
  <2>2. /\ overlaps' = overlaps
        /\ ~(starts > 0) /\ \A u \in Task \ {setSize} : task[u] \notin Asking
    BY DEF StopAndRelease, Overlap
  <2>3. starts' = 0 /\ ~Wanted'
    BY <1>2, <2>2, Names DEF TypeInv, TypeOK, Wanted, SameAsking
  <2>4. ~missed' => ~running'
    BY DEF StopAndRelease, Stop, Miss, Reaches, TypeInv, TypeOK, Turns
  <2>5. \A u, v \in Creator : task'[u] \in Asking /\ task'[v] \in Asking => u = v
    BY <2>1, <1>2, Names DEF Quiet, SameAsking
  <2> QED
    BY <1>3, <2>1, <2>2, <2>3, <2>4, <2>5 DEF Quiet
<1> QED
  BY <1>4, <1>5, <1>6, <1>7, <1>8 DEF ViewInv

\* A question begins.
LEMMA ViewAsks ==
    ASSUME TypeInv, TypeInv', ViewInv, Monotone, NEW t \in Task, NEW l \in {"set", "get"},
           AskSize(t, l), task[t] = "new",
           UNCHANGED <<attached, running, size, textureId, starts, _textureId, _currentSize,
                       got, missed>>,
           \/ t = setSize /\ UNCHANGED <<view, app>>
           \/ t \in Creator /\ ("stop" \notin overlaps => ~Wanted) /\ view' = "mounted" /\ app' = "resumed"
              /\ (view = "mounted" \/ textureId = None)
    PROVE  ViewInv'
<1>1. task'[t] = l /\ \A u \in Task : u # t => task'[u] = task[u]
  BY DEF AskSize, TypeInv, TypeOK
<1>2. "texture" \in overlaps' <=> "texture" \in overlaps
  BY DEF AskSize, Overlap
<1>3. "stop" \in overlaps' <=> "stop" \in overlaps
  BY DEF AskSize, Overlap
<1>4. l \in Asking /\ task[t] \notin Asking /\ l \notin {"got", "createTexture"}
  BY DEF Asking
<1>5. Shows' /\ NewView'
  BY <1>2 DEF ViewInv, Shows, NewView
<1>6. Goes'
  <2>1. t \in Creator => Wanted'
    BY <1>1, <1>4 DEF Wanted
  <2>2. t = setSize => (Wanted => Wanted')
    BY <1>1, Names DEF Wanted
  <2> QED
    BY <2>1, <2>2 DEF ViewInv, Goes
<1>7. OneAsks'
  <2> SUFFICES ASSUME "size" \notin overlaps' PROVE OneAsks'
    BY DEF OneAsks
  <2>1. \A u \in Task : task[u] \notin Asking
    BY DEF AskSize, Overlap, Awaits
  <2>2. \A u \in Task : task'[u] \in Asking => u = t
    BY <1>1, <2>1
  <2> QED
    BY <2>2 DEF OneAsks
<1>8. SizeTrue'
  <2>1. task'[t] \in Asking
    BY <1>1, <1>4
  <2>2. \A u \in Task : task'[u] \in {"got", "createTexture"} => u # t /\ task[u] = task'[u]
    BY <1>1, <1>4
  <2> QED
    BY <2>1, <2>2 DEF ViewInv, SizeTrue, Monotone
<1>9. SizeKnown'
  <2>1. \A u \in Task : task'[u] \in {"got", "createTexture"} => u # t /\ task[u] = task'[u]
    BY <1>1, <1>4
  <2> QED
    BY <2>1 DEF ViewInv, SizeKnown
<1>10. Quiet'
  <2> SUFFICES ASSUME "stop" \notin overlaps' PROVE Quiet'
    BY DEF Quiet
  <2>1. Quiet /\ "stop" \notin overlaps
    BY <1>3 DEF ViewInv
  <2>2. CASE t = setSize /\ UNCHANGED <<view, app>>
    <3>1. \A u \in Creator : task'[u] = task[u]
      BY <1>1, <2>2, Names
    <3>2. Wanted' <=> Wanted
      BY <3>1 DEF Wanted
    <3> QED
      BY <1>2, <2>1, <2>2, <3>1, <3>2 DEF Quiet, Stopped
  <2>3. CASE ("stop" \notin overlaps => ~Wanted) /\ view' = "mounted" /\ app' = "resumed"
    <3>1. \A u \in Creator : task'[u] \in Asking => u = t
      BY <1>1, <2>1, <2>3, Names DEF Wanted
    <3> QED
      BY <1>2, <2>1, <2>3, <3>1 DEF Quiet, Stopped
  <2> QED
    BY <2>2, <2>3
<1> QED
  BY <1>5, <1>6, <1>7, <1>8, <1>9, <1>10 DEF ViewInv

\* A creator shows the texture that the controller has now.
LEMMA ViewShows ==
    ASSUME TypeInv, TypeInv', ViewInv, Monotone, NEW t \in Creator, NEW tex,
           Show(t, tex), task[t] \in {"got", "createTexture"}, textureId' = tex,
           UNCHANGED <<attached, running, size, view, app, missed, overlaps>>
    PROVE  ViewInv'
<1>1. t \in Task /\ task'[t] = "done" /\ \A u \in Task : u # t => task'[u] = task[u]
  BY Names DEF Show, Done, TypeInv, TypeOK
<1>2. \A u \in Task : u # t => got'[u] = got[u]
  BY <1>1 DEF Show, Done, TypeInv, TypeOK
<1>3. /\ tex # None
      /\ starts' = starts + 1 \/ (running /\ UNCHANGED starts)
      /\ view = "mounted" => _textureId' = tex /\ _currentSize' = got[t]
  BY DEF Show, Start
<1>4. task[t] \in Asking /\ Wanted /\ task'[t] \notin Asking
  BY <1>1 DEF Wanted, Asking
<1>5. Shows'
  BY <1>3 DEF Shows
<1>6. NewView'
  <2>1. view # "new"
    <3>1. ASSUME view = "new" PROVE FALSE
      <4>1. task[init] = "new" /\ events = 0
        BY <3>1 DEF TypeInv, Turns
      <4>2. t \in Event /\ t > events
        BY <1>4, <4>1, Names DEF Creator, Asking, Event
      <4> QED
        BY <1>4, <4>2 DEF TypeInv, Turns, Asking
    <3> QED
      BY <3>1
  <2> QED
    BY <2>1 DEF NewView
<1>7. Goes'
  <2>1. starts' > 0 \/ running'
    BY <1>3 DEF TypeInv, TypeOK
  <2> QED
    BY <1>3, <2>1 DEF Goes
<1>8. OneAsks'
  <2>1. \A u \in Task : task'[u] \in Asking => task[u] \in Asking
    BY <1>1, <1>4
  <2> QED
    BY <2>1 DEF ViewInv, OneAsks
<1>9. SizeTrue'
  <2>1. \A u \in Task : task'[u] \in {"got", "createTexture"} =>
           task[u] = task'[u] /\ got'[u] = got[u]
    BY <1>1, <1>2
  <2>2. ("size" \notin overlaps /\ attached) => got[t] = size
    BY <1>1 DEF ViewInv, SizeTrue
  <2> QED
    BY <1>3, <2>1, <2>2 DEF ViewInv, SizeTrue
<1>10. SizeKnown'
  <2>1. \A u \in Task : task'[u] \in {"got", "createTexture"} =>
           task[u] = task'[u] /\ got'[u] = got[u]
    BY <1>1, <1>2
  <2> QED
    BY <2>1 DEF ViewInv, SizeKnown
<1>11. Quiet'
  <2>1. \A u \in Creator : task'[u] \in Asking => task[u] \in Asking
    BY <1>1, <1>4, Names
  <2>2. "stop" \notin overlaps => ~Stopped
    BY <1>4 DEF ViewInv, Quiet
  <2> QED
    BY <2>1, <2>2 DEF ViewInv, Quiet, Stopped
<1> QED
  BY <1>5, <1>6, <1>7, <1>8, <1>9, <1>10, <1>11 DEF ViewInv

\* The size is answered to the user's setSize, ...
LEMMA ViewSized ==
    ASSUME TypeInv, ViewInv, task[setSize] = "got", Done(setSize),
           _currentSize' = (IF view = "mounted" THEN got[setSize] ELSE _currentSize),
           UNCHANGED <<nativeVars, app, textureId, starts, view, _textureId, historyVars>>
    PROVE  ViewInv'
<1> DEFINE t == setSize
<1>1. t \in Task /\ task'[t] = "done" /\ \A u \in Task : u # t => task'[u] = task[u]
  BY Names DEF Done, TypeInv, TypeOK
<1>2. \A u \in Task : u # t => got'[u] = got[u]
  BY <1>1 DEF Done, TypeInv, TypeOK
<1>3. /\ \A u \in Creator : task'[u] = task[u]
      /\ \A u \in Task : task'[u] \in Asking => task[u] \in Asking /\ u # t
      /\ task[t] \in Asking
  BY <1>1, Names DEF Asking
<1>4. Wanted' <=> Wanted
  BY <1>3 DEF Wanted
<1> USE DEF nativeVars, historyVars
<1>5. Shows' /\ NewView' /\ Goes'
  BY <1>4 DEF ViewInv, Shows, NewView, Goes
<1>6. OneAsks'
  BY <1>3 DEF ViewInv, OneAsks
<1>7. SizeTrue'
  <2>1. ("size" \notin overlaps /\ attached) => got[t] = size
    BY <1>1 DEF ViewInv, SizeTrue
  <2>2. \A u \in Task : task'[u] \in {"got", "createTexture"} => task[u] = task'[u] /\ got'[u] = got[u]
    BY <1>1, <1>2
  <2> QED
    BY <2>1, <2>2 DEF ViewInv, SizeTrue
<1>8. SizeKnown'
  BY <1>1, <1>2 DEF ViewInv, SizeKnown
<1>9. Quiet'
  BY <1>3, <1>4 DEF ViewInv, Quiet, Stopped
<1> QED
  BY <1>5, <1>6, <1>7, <1>8, <1>9 DEF ViewInv

\* ... or initState gives up, because the device is gone.
LEMMA ViewGivesUp ==
    ASSUME TypeInv, ViewInv, task[init] = "got", got[init] = Invalid, Done(init),
           UNCHANGED <<nativeVars, app, textureId, starts, view, _textureId, _currentSize,
                       historyVars>>
    PROVE  ViewInv'
<1>1. init \in Task /\ task'[init] = "done" /\ \A u \in Task : u # init => task'[u] = task[u]
  BY Names DEF Done, TypeInv, TypeOK
<1>2. ~attached
  BY <1>1, PreviewAssumption DEF ViewInv, SizeKnown, Invalid
<1>3. \A u \in Task : task'[u] \in Asking => task[u] \in Asking
  BY <1>1 DEF Asking
<1> USE DEF nativeVars, historyVars
<1>4. Shows' /\ NewView' /\ Goes' /\ SizeTrue' /\ SizeKnown'
  BY <1>2 DEF ViewInv, Shows, NewView, Goes, SizeTrue, SizeKnown
<1>5. OneAsks'
  BY <1>3 DEF ViewInv, OneAsks
<1>6. Quiet'
  BY <1>3, Names DEF ViewInv, Quiet, Stopped, Wanted
<1> QED
  BY <1>4, <1>5, <1>6 DEF ViewInv

\* A start comes true.
LEMMA ViewStarts ==
    ASSUME TypeInv, ViewInv, Monotone, NEW c \in BOOLEAN, StartRuns(c)
    PROVE  ViewInv'
<1> USE DEF viewVars, taskVars, appVars
<1>1. /\ UNCHANGED <<view, app, textureId, _textureId, _currentSize, task, got, attached, size, overlaps>>
      /\ starts > 0 /\ starts \in Nat /\ starts' = starts - 1
      /\ running' = (running \/ Reaches(c)) /\ Miss(c)
  BY DEF StartRuns, TypeInv, TypeOK
<1>2. Wanted' <=> Wanted
  BY <1>1 DEF Wanted
<1>3. Shows' /\ NewView' /\ OneAsks' /\ SizeTrue' /\ SizeKnown'
  BY <1>1 DEF ViewInv, Shows, NewView, OneAsks, SizeTrue, SizeKnown
<1>4. attached /\ ~missed' => running'
  BY <1>1 DEF Reaches, Miss, TypeInv, TypeOK
<1>5. Goes'
  BY <1>1, <1>2, <1>4 DEF ViewInv, Goes
<1>6. Quiet'
  BY <1>1, <1>2 DEF ViewInv, Quiet, Stopped
<1> QED
  BY <1>3, <1>5, <1>6 DEF ViewInv

\* The actions one by one.
LEMMA ViewStep == TypeInv /\ TextureInv /\ ViewInv /\ [Next]_vars => ViewInv'
<1> SUFFICES ASSUME TypeInv, TextureInv, ViewInv, [Next]_vars PROVE ViewInv'
  OBVIOUS
<1> USE Names DEF nativeVars, kotlinVars, appVars, dartVars, viewVars, taskVars, historyVars
<1>a. /\ attached \in BOOLEAN /\ missed \in BOOLEAN /\ task \in [Task -> Label]
      /\ got \in [Task -> Size \cup {Invalid}] /\ size \in Size
      /\ textureId \in Texture \cup {None} /\ events \in 0..MaxEvents
  BY DEF TypeInv, TypeOK, Label
<1>b. TypeInv' /\ Monotone
  BY TypeStep, TextureKinds
<1>c. ASSUME SameAsking, SameAnswers, UNCHANGED <<view, _currentSize, app, textureId, starts>>,
             ~attached' \/ UNCHANGED <<size, running>>,
             _textureId' = _textureId \/ textureId = None \/ "texture" \in overlaps,
             "texture" \in overlaps' => "texture" \in overlaps \/ "stop" \in overlaps
      PROVE  ViewInv'
  BY <1>b, <1>c, SizesRest, ViewRests
<1>1. CASE Unplug
  <2>1. SameAsking /\ SameAnswers
    BY <1>1, <1>a DEF Unplug, SameAsking, SameAnswers, Asking, TypeInv, Turns
  <2> QED
    BY <1>1, <1>c, <2>1 DEF Unplug
<1>2. CASE InitState
  <2>1. task[init] = "new" /\ app = "resumed" /\ textureId = None
    BY <1>2 DEF InitState, TypeInv, Turns, ViewInv, NewView
  <2>2. ~Wanted
    <3>1. \A u \in Creator : u = init \/ (u \in Event /\ u > events)
      BY <1>2 DEF InitState, TypeInv, Turns, Creator, Event
    <3> QED
      BY <2>1, <3>1 DEF TypeInv, Turns, Wanted, Asking
  <2> QED
    BY <1>2, <1>b, <2>1, <2>2, ViewAsks DEF InitState
<1>3. CASE SetSize
  BY <1>3, <1>b, ViewAsks DEF SetSize
<1>d. ASSUME events < MaxEvents
      PROVE  /\ events + 1 \in Event /\ task[events + 1] = "new"
             /\ events % 2 = 1 => events + 1 \in Creator
  <2>1. events \in Nat /\ MaxEvents \in Nat
    BY <1>a, PreviewAssumption
  <2>2. events + 1 \in Event /\ events + 1 > events
    BY <1>d, <2>1 DEF Event
  <2>3. events % 2 = 1 => (events + 1) % 2 = 0
    BY <2>1
  <2> QED
    BY <2>2, <2>3 DEF TypeInv, Turns, Creator
<1>4. CASE Resumed
  <2>1. events % 2 = 1
    BY <1>a, <1>4, PreviewAssumption DEF TypeInv, TypeOK, Turns, Resumed
  <2>2. events + 1 \in Creator /\ task[events + 1] = "new" /\ AskSize(events + 1, "get")
    BY <1>d, <1>4, <2>1 DEF Resumed
  <2>3. "stop" \notin overlaps => ~Wanted
    BY <1>4 DEF ViewInv, Quiet, Stopped, Resumed
  <2> QED
    BY <1>4, <1>b, <2>2, <2>3, ViewAsks DEF Resumed
<1>5. ASSUME NEW c \in BOOLEAN, StartRuns(c) PROVE ViewInv'
  BY <1>5, <1>b, ViewStarts
<1>6. ASSUME NEW c \in BOOLEAN, Paused(c) PROVE ViewInv'
  <2>1. task[events + 1] = "new" /\ events + 1 \in Task /\ StopAndRelease(events + 1, c)
    BY <1>d, <1>6 DEF Paused
  <2> QED
    BY <1>6, <1>b, <2>1, ViewStops DEF Paused
<1>7. ASSUME NEW c \in BOOLEAN, Dispose(c) PROVE ViewInv'
  <2>1. task[dispose] = "new"
    BY <1>7 DEF Dispose, TypeInv, Turns
  <2> QED
    BY <1>7, <1>b, <2>1, ViewStops DEF Dispose
<1>8. ASSUME NEW c \in BOOLEAN, Detached(c) PROVE ViewInv'
  <2>1. ~attached
    BY <1>8 DEF Detached, TypeInv, Turns
  <2> QED
    BY <1>8, <1>b, <2>1, ViewStops DEF Detached
<1>e. ASSUME UNCHANGED <<task, got, view, _currentSize, _textureId, app, textureId, starts,
                         size, running, overlaps>>
      PROVE  ViewInv'
  BY <1>c, <1>e DEF SameAsking, SameAnswers
<1>9. ASSUME NEW c \in BOOLEAN, CreateTexture(c) PROVE ViewInv'
  BY <1>9, <1>e DEF CreateTexture
<1>10. ASSUME NEW c \in BOOLEAN, ReleaseTexture(c) PROVE ViewInv'
  BY <1>10, <1>e DEF ReleaseTexture
<1>11. ASSUME NEW t \in Task, Resizes(t) PROVE ViewInv'
  <2>1. task[t] \in Asking /\ task'[t] = "get" /\ \A u \in Task : u # t => task'[u] = task[u]
    BY <1>11, <1>a DEF Resizes, Asking
  <2>2. SameAsking /\ SameAnswers
    BY <1>11, <2>1 DEF SameAsking, SameAnswers, Resizes, Asking
  <2>3. SizeTrue'
    <3>1. "size" \notin overlaps => \A u \in Task : task[u] \in Asking => u = t
      BY <2>1 DEF ViewInv, OneAsks
    <3>2. "size" \notin overlaps => \A u \in Task : task'[u] \notin {"got", "createTexture"}
      BY <2>1, <3>1 DEF Asking
    <3>3. task'[t] \in Asking
      BY <2>1 DEF Asking
    <3> QED
      BY <1>b, <3>2, <3>3 DEF SizeTrue, Monotone
  <2>4. SizeKnown'
    BY <1>b, <2>2 DEF ViewInv, SizeKnown, SameAnswers, Monotone
  <2> QED
    BY <1>11, <1>b, <2>2, <2>3, <2>4, ViewRests DEF Resizes
<1>12. ASSUME NEW t \in Task, GetsSize(t) PROVE ViewInv'
  <2>1. /\ task[t] = "get" /\ task'[t] = "got" /\ \A u \in Task : u # t => task'[u] = task[u]
        /\ got'[t] = (IF attached THEN size ELSE Invalid)
        /\ \A u \in Task : u # t => got'[u] = got[u]
        /\ UNCHANGED <<attached, size, view, _currentSize, overlaps>>
    BY <1>12, <1>a DEF GetsSize
  <2>2. SameAsking
    BY <2>1 DEF SameAsking, Asking
  <2>3. SizeTrue'
    BY <2>1, <2>2 DEF ViewInv, SizeTrue, SameAsking
  <2>4. SizeKnown'
    BY <1>a, <2>1 DEF ViewInv, SizeKnown
  <2> QED
    BY <1>12, <1>b, <2>2, <2>3, <2>4, ViewRests DEF GetsSize
<1>13. ASSUME NEW t \in Task, SizeAnswered(t) PROVE ViewInv'
  <2>1. /\ task[t] = "got"
        /\ UNCHANGED <<nativeVars, kotlinVars, replies, appVars, textureId, view, missed>>
    BY <1>13 DEF SizeAnswered
  <2>2. CASE /\ t = setSize
             /\ _currentSize' = (IF view = "mounted" THEN got[t] ELSE _currentSize)
             /\ Done(t) /\ UNCHANGED <<requests, starts, _textureId, overlaps>>
    BY <2>1, <2>2, ViewSized
  <2>3. CASE /\ t = init /\ got[t] = Invalid
             /\ Done(t) /\ UNCHANGED <<requests, starts, _textureId, _currentSize, overlaps>>
    BY <2>1, <2>3, ViewGivesUp
  <2>4. CASE t # setSize /\ CreateOrShow(t)
    <3>1. t \in Creator
      BY <2>1, <2>4 DEF TypeInv, Roles, Asking
    <3>2. CASE textureId = None
      <4>1. /\ task' = [task EXCEPT ![t] = "createTexture"]
            /\ Overlap("texture", Awaits({"createTexture"}))
            /\ UNCHANGED <<starts, _textureId, _currentSize, got>>
        BY <2>4, <3>2 DEF CreateOrShow
      <4>2. SameAsking /\ SameAnswers
        BY <1>a, <2>1, <4>1 DEF SameAsking, SameAnswers, Asking
      <4>3. ASSUME "stop" \notin overlaps PROVE overlaps' = overlaps
        <5>1. ~Awaits({"createTexture"})
          <6> SUFFICES ASSUME NEW u \in Task, task[u] = "createTexture" PROVE FALSE
            BY DEF Awaits
          <6>1. u \in Creator /\ task[u] \in Asking /\ task[t] \in Asking
            BY <2>1 DEF TypeInv, Roles, Asking
          <6>2. u = t
            BY <3>1, <4>3, <6>1 DEF ViewInv, Quiet
          <6> QED
            BY <2>1, <6>2
        <5> QED
          BY <4>1, <5>1 DEF Overlap
      <4> QED
        BY <1>c, <2>1, <4>1, <4>2, <4>3
    <3>3. CASE textureId # None
      BY <1>b, <2>1, <2>4, <3>1, <3>3, ViewShows DEF CreateOrShow
    <3> QED
      BY <3>2, <3>3
  <2> QED
    BY <1>13, <2>2, <2>3, <2>4 DEF SizeAnswered
<1>14. CASE Receive
  <2> DEFINE t == Head(replies).task
             tex == Head(replies).texture
  <2>1. t \in Task
    BY <1>14, Queued, Taken DEF Receive
  <2>2. UNCHANGED <<nativeVars, kotlinVars, requests, appVars, view, historyVars>>
    BY <1>14 DEF Receive
  <2>3. CASE task[t] = "createTexture" /\ textureId' = tex /\ Show(t, tex)
    <3>1. t \in Creator
      BY <2>1, <2>3 DEF TypeInv, Roles, Asking
    <3> QED
      BY <1>b, <2>2, <2>3, <3>1, ViewShows
  <2>4. CASE /\ task[t] = "releaseTexture"
             /\ _textureId' = (IF view = "mounted" /\ t \in Event THEN None ELSE _textureId)
             /\ Done(t)
             /\ UNCHANGED <<textureId, starts, _currentSize>>
    <3>1. SameAsking /\ SameAnswers
      BY <1>a, <2>1, <2>4 DEF Done, SameAsking, SameAnswers, Asking
    <3>2. textureId = None \/ "texture" \in overlaps
      BY <2>1, <2>4 DEF TextureInv, ReleaseFirst
    <3> QED
      BY <1>c, <2>2, <2>4, <3>1, <3>2
  <2> QED
    BY <1>14, <2>3, <2>4 DEF Receive
<1>15. CASE ReleaseTextureAll
  BY <1>15, <1>e DEF ReleaseTextureAll
<1>16. CASE UNCHANGED vars
  BY <1>16, <1>e DEF vars
<1>17. \A c \in {FALSE, ~missed} : c \in BOOLEAN
  OBVIOUS
<1> QED
  BY <1>1, <1>2, <1>3, <1>4, <1>5, <1>6, <1>7, <1>8, <1>9, <1>10, <1>11, <1>12, <1>13, <1>14,
     <1>15, <1>16, <1>17 DEF Next

\* The window follows the textures.
LEMMA DrawsStep == TypeInv /\ TextureInv /\ Draws /\ [Next]_vars => Draws'
<1> SUFFICES ASSUME TypeInv, TextureInv, Draws, [Next]_vars,
                    "texture" \notin overlaps', attached', ~missed'
             PROVE  /\ textureId' # None => window' = textureId'
                    /\ \A i \in DOMAIN replies' :
                          replies'[i].texture # None => window' = replies'[i].texture
                    /\ window' # None =>
                          \/ window' = textureId'
                          \/ \E i \in DOMAIN replies' : replies'[i].texture = window'
                          \/ \E i \in DOMAIN requests' : requests'[i].texture = window'
  BY DEF Draws
<1>1. TextureStep /\ Monotone
  BY TextureKinds
<1>2. /\ "texture" \notin overlaps /\ attached /\ ~missed
      /\ textureId # None => window = textureId
      /\ \A i \in DOMAIN replies : replies[i].texture # None => window = replies[i].texture
      /\ window # None =>
            \/ window = textureId
            \/ \E i \in DOMAIN replies : replies[i].texture = window
            \/ \E i \in DOMAIN requests : requests[i].texture = window
  BY <1>1 DEF Draws, Monotone
<1>a. OneCreates /\ ReleaseFirst /\ OneOwner
  BY DEF TextureInv
<1>3. CASE Aside
  BY <1>2, <1>3 DEF Aside, Moves, channelVars
<1>4. CASE ActivityGoes
  BY <1>2, <1>4 DEF ActivityGoes, channelVars
<1>5. ASSUME NEW t \in Task, NEW m \in Waits, NEW p \in Texture \cup {None}, Sends(t, m, p),
             UNCHANGED window, textureId' \in {None, textureId}, p = textureId
      PROVE  /\ textureId' # None => window' = textureId'
             /\ \A i \in DOMAIN replies' :
                   replies'[i].texture # None => window' = replies'[i].texture
             /\ window' # None =>
                   \/ window' = textureId'
                   \/ \E i \in DOMAIN replies' : replies'[i].texture = window'
                   \/ \E i \in DOMAIN requests' : requests'[i].texture = window'
  <2>1. PICK n \in Nat : Joins(n, t, m, p)
    BY <1>5, SendsQueues
  <2>2. replies' = replies
    BY <1>5, SendsQueues
  <2> QED
    BY <1>2, <1>5, <2>1, <2>2 DEF Joins
<1>6. ASSUME NEW t \in Task, AsksFor(t) \/ Drops(t)
      PROVE  \E m \in Waits, p \in Texture \cup {None} :
                Sends(t, m, p) /\ UNCHANGED window /\ textureId' \in {None, textureId} /\ p = textureId
  BY <1>6 DEF AsksFor, Drops, TypeInv, TypeOK, Waits
<1>7. ASSUME NEW q \in Request, Makes(q)
      PROVE  /\ textureId' # None => window' = textureId'
             /\ \A i \in DOMAIN replies' :
                   replies'[i].texture # None => window' = replies'[i].texture
             /\ window' # None => \E i \in DOMAIN replies' : replies'[i].texture = window'
  <2>1. /\ Serves(q, created) /\ created \in Texture /\ q.method = "createTexture"
        /\ window' = created /\ textureId' = textureId
    BY <1>7 DEF Makes
  <2>2. PICK n \in Nat : Follows(n, q.task, created)
    BY <2>1, ServesQueues
  <2>3. q = requests[1] /\ 1 \in DOMAIN requests /\ q.task \in Task /\ task[q.task] = "createTexture"
    BY <2>1, ServesQueues
  <2>4. textureId = None
    BY <1>2, <1>a, <2>3 DEF OneCreates
  <2>5. ASSUME NEW i \in DOMAIN replies, replies[i].texture # None PROVE FALSE
    <3>1. task[replies[i].task] = "createTexture" /\ replies[i].task \in Task
      BY <2>5, Queued DEF TypeInv, Awaited, Waits
    <3>2. replies[i].task = q.task
      BY <1>2, <1>a, <2>3, <3>1 DEF OneCreates
    <3> QED
      BY <2>3, <3>2 DEF TypeInv, Distinct
  <2> QED
    BY <2>1, <2>2, <2>4, <2>5 DEF Follows
<1>8. ASSUME NEW q \in Request, Frees(q)
      PROVE  /\ textureId' = None /\ window' = None
             /\ \A i \in DOMAIN replies' : replies'[i].texture = None
  <2>1. /\ Serves(q, None) /\ None \in Texture \cup {None} /\ q.method = "releaseTexture"
        /\ window' = None /\ textureId' = textureId
    BY <1>8 DEF Frees
  <2>2. PICK n \in Nat : Follows(n, q.task, None)
    BY <2>1, ServesQueues
  <2>3. q = requests[1] /\ 1 \in DOMAIN requests /\ q.task \in Task /\ task[q.task] = "releaseTexture"
    BY <2>1, ServesQueues
  <2>4. textureId = None
    BY <1>2, <1>a, <2>3 DEF ReleaseFirst
  <2>5. \A i \in DOMAIN replies : replies[i].texture = None
    BY <1>2, <1>a, <2>1, <2>3 DEF ReleaseFirst
  <2> QED
    BY <2>1, <2>2, <2>4, <2>5 DEF Follows
<1>9. ASSUME NEW r \in Reply, Comes(r)
      PROVE  /\ textureId' # None => window' = textureId'
             /\ \A i \in DOMAIN replies' :
                   replies'[i].texture # None => window' = replies'[i].texture
             /\ window' # None => window' = textureId'
  <2>1. /\ Hears(r) /\ task[r.task] = "createTexture" /\ textureId' = r.texture
        /\ UNCHANGED window
    BY <1>9 DEF Comes
  <2>2. /\ r = replies[1] /\ 1 \in DOMAIN replies /\ r.texture # None
        /\ \A i \in DOMAIN replies' :
              i + 1 \in DOMAIN replies /\ i \in Nat \ {0} /\ replies'[i] = replies[i + 1]
    BY <2>1, HearsQueues
  <2> QED
    BY <1>2, <2>1, <2>2
<1>10. ASSUME NEW r \in Reply, Went(r)
       PROVE  /\ textureId' # None => window' = textureId'
              /\ \A i \in DOMAIN replies' :
                    replies'[i].texture # None => window' = replies'[i].texture
              /\ window' # None =>
                    \/ window' = textureId'
                    \/ \E i \in DOMAIN replies' : replies'[i].texture = window'
                    \/ \E i \in DOMAIN requests' : requests'[i].texture = window'
  <2>1. Hears(r) /\ task[r.task] = "releaseTexture" /\ UNCHANGED <<window, textureId>>
    BY <1>10 DEF Went
  <2>2. /\ r = replies[1] /\ r.texture = None /\ requests' = requests
        /\ \A i \in DOMAIN replies' :
              i + 1 \in DOMAIN replies /\ i \in Nat \ {0} /\ replies'[i] = replies[i + 1]
    BY <2>1, HearsQueues
  <2>3. ASSUME NEW i \in DOMAIN replies, replies[i].texture = window, window # None
        PROVE  \E j \in DOMAIN replies' : replies'[j].texture = window
    <3>1. i # 1
      BY <2>2, <2>3
    <3>2. i - 1 \in DOMAIN replies' /\ replies'[i - 1] = replies[i]
      BY <2>1, <3>1, HearsQueues
    <3> QED
      BY <2>3, <3>2
  <2> QED
    BY <1>2, <2>1, <2>2, <2>3
<1>11. CASE \E t \in Task : AsksFor(t) \/ Drops(t)
  BY <1>5, <1>6, <1>11
<1>12. CASE \E q \in Request : Makes(q) \/ Frees(q)
  BY <1>7, <1>8, <1>12
<1>13. CASE \E r \in Reply : Comes(r) \/ Went(r)
  BY <1>9, <1>10, <1>13
<1> QED
  BY <1>1, <1>3, <1>4, <1>11, <1>12, <1>13 DEF TextureStep

\* At the start nothing is shown, asked or drawn.
LEMMA ViewInit == Init => ViewInv /\ Draws
<1> SUFFICES ASSUME Init PROVE ViewInv /\ Draws
  OBVIOUS
<1>1. \A t \in Task : task[t] = "new"
  BY DEF Init
<1>2. /\ view = "new" /\ textureId = None /\ window = None /\ app = "resumed" /\ overlaps = {}
      /\ DOMAIN replies = {}
  BY NoneWaits DEF Init
<1>3. Shows /\ Goes /\ NewView /\ Draws
  BY <1>2 DEF Shows, Goes, NewView, Draws
<1>4. OneAsks /\ SizeTrue /\ SizeKnown
  BY <1>1, <1>2 DEF OneAsks, SizeTrue, SizeKnown, Asking
<1>5. Quiet
  BY <1>1, <1>2, Names DEF Quiet, Stopped, Asking
<1> QED
  BY <1>3, <1>4, <1>5 DEF ViewInv

\* All the invariants hold throughout.
LEMMA PreviewInv == Spec => [](TypeInv /\ TextureInv /\ ViewInv /\ Draws)
<1>1. Init => TypeInv /\ TextureInv /\ ViewInv /\ Draws
  BY TypeInit, TextureInit, ViewInit
<1>2. TypeInv /\ TextureInv /\ ViewInv /\ Draws /\ [Next]_vars
         => TypeInv' /\ TextureInv' /\ ViewInv' /\ Draws'
  BY TypeStep, TextureStepKeeps, ViewStep, DrawsStep
<1> QED
  BY <1>1, <1>2, PTL DEF Spec

\* When nothing is under way nobody wants anything.
LEMMA RestWantsNothing == AtRest => ~Wanted /\ \A t \in Task : task[t] \notin Asking
BY Names DEF AtRest, Wanted, Asking

\* When nothing is under way, a view that is seen shows the texture on which the device's
\* stream is drawn, in the size it streams in, unless calls were missed or questions
\* overlapped: whatever pauses, resumes and sizes came before.
THEOREM SeenAtRest == Spec => []ShownAtRest
<1>1. TypeInv /\ ViewInv /\ Draws => ShownAtRest
  <2> SUFFICES ASSUME TypeInv, ViewInv, Draws, AtRest,
                      view = "mounted", app = "resumed", attached, ~missed
               PROVE  /\ "texture" \notin overlaps =>
                            _textureId # None /\ _textureId = textureId /\ window = textureId /\ running
                      /\ "size" \notin overlaps => _currentSize = size
    BY DEF ShownAtRest
  <2>1. ~Wanted /\ (\A t \in Task : task[t] \notin Asking) /\ starts = 0
    BY RestWantsNothing DEF AtRest
  <2>2. textureId # None /\ running
    BY <2>1 DEF ViewInv, Goes
  <2>3. "texture" \notin overlaps => _textureId = textureId /\ window = textureId
    BY <2>2 DEF ViewInv, Shows, Draws
  <2>4. "size" \notin overlaps => _currentSize = size
    BY <2>1 DEF ViewInv, SizeTrue
  <2> QED
    BY <2>2, <2>3, <2>4
<1> QED
  BY <1>1, PreviewInv, PTL

\* When nothing is under way, a paused application and a disposed view have no stream and
\* no texture, and nothing is drawn on, provided that nothing was under way when they
\* stopped it.
THEOREM StoppedAtRest == Spec => []QuietAtRest
<1>1. TypeInv /\ TextureInv /\ ViewInv /\ Draws => QuietAtRest
  <2> SUFFICES ASSUME TypeInv, TextureInv, ViewInv, Draws, AtRest, ~missed, "stop" \notin overlaps,
                      view = "disposed" \/ (view = "mounted" /\ app = "paused")
               PROVE  ~running /\ producers = {} /\ textureId = None /\ window = None
    BY DEF QuietAtRest
  <2>1. DOMAIN requests = {} /\ DOMAIN replies = {}
    BY NoneWaits DEF AtRest
  <2>2. "texture" \notin overlaps /\ textureId = None /\ ~running
    BY DEF ViewInv, Quiet, Stopped
  <2>3. producers = {}
    <3>1. \A p \in producers : p # None
      BY Names DEF TypeInv, TypeOK
    <3> QED
      BY <2>1, <2>2, <3>1 DEF TextureInv, TexturesAccounted
  <2>4. window = None
    BY <2>1, <2>2 DEF Draws, TypeInv, Turns
  <2> QED
    BY <2>2, <2>3, <2>4
<1> QED
  BY <1>1, PreviewInv, PTL
=============================================================================
