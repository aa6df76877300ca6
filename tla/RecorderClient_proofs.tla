------------------------ MODULE RecorderClient_proofs ------------------------
(***************************************************************************)
(* Theorems about RecorderClient, for any number of calls that overlap in  *)
(* any order, with a restart at any time.                                  *)
(***************************************************************************)
EXTENDS RecorderClient, TLAPS

-----------------------------------------------------------------------------
(* The channel, and type correctness.                                      *)

\* Something joins a queue at its end, ...
LEMMA Appended ==
    ASSUME NEW S, NEW s \in Seq(S), NEW e \in S
    PROVE  /\ Append(s, e) \in Seq(S) /\ Append(s, e) # <<>>
           /\ DOMAIN Append(s, e) = DOMAIN s \cup {Len(s) + 1}
           /\ Len(s) + 1 \notin DOMAIN s
           /\ \A i \in DOMAIN s : Append(s, e)[i] = s[i] /\ i < Len(s) + 1 /\ i \in Nat /\ s[i] \in S
           /\ Append(s, e)[Len(s) + 1] = e
OBVIOUS

\* ... and leaves it at its head.
LEMMA Taken ==
    ASSUME NEW S, NEW s \in Seq(S), s # <<>>
    PROVE  /\ Tail(s) \in Seq(S)
           /\ Head(s) = s[1] /\ Head(s) \in S /\ 1 \in DOMAIN s
           /\ \A i \in DOMAIN Tail(s) :
                 i + 1 \in DOMAIN s /\ i \in Nat \ {0} /\ Tail(s)[i] = s[i + 1]
           /\ \A i \in DOMAIN s :
                 i # 1 => i - 1 \in DOMAIN Tail(s) /\ Tail(s)[i - 1] = s[i] /\ i > 1 /\ i \in Nat
OBVIOUS

Request == [task : Task, method : Method, device : Path]
Reply == [task : Task, answer : Answer]

\* An empty queue.
LEMMA NoneWaits == /\ \A S : <<>> \in Seq(S)
                   /\ DOMAIN <<>> = {}
OBVIOUS

\* The method that an answer belongs to.
MethodOf(a) ==
    IF a \in {"0", "-1", "-2"} THEN "startRecording"
    ELSE IF a \in {"path", "null"} THEN "stopRecording" ELSE "isRecording"

\* Every request and every answer on its way is awaited by the call that made it, or by
\* nobody since the restart; no call has two under way.
Awaited ==
    /\ \A i \in DOMAIN requests : task[requests[i].task] \in {requests[i].method, "gone"}
    /\ \A i \in DOMAIN replies : task[replies[i].task] \in {MethodOf(replies[i].answer), "gone"}

Distinct ==
    /\ \A i, j \in DOMAIN requests : requests[i].task = requests[j].task => i = j
    /\ \A i, j \in DOMAIN replies : replies[i].task = replies[j].task => i = j
    /\ \A i \in DOMAIN requests, j \in DOMAIN replies : requests[i].task # replies[j].task

Channel == Awaited /\ Distinct

TypeInv == TypeOK /\ Channel

\* At the start nothing is asked.
LEMMA TypeInit == Init => TypeInv
<1>1. Init => TypeOK
  BY NoneWaits, ClientAssumption DEF Init, TypeOK, Path
<1>2. Init => Channel
  BY NoneWaits DEF Init, Channel, Awaited, Distinct
<1> QED
  BY <1>1, <1>2 DEF TypeInv

\* Who has a request or an answer on its way is not somewhere else.
LEMMA Waiting ==
    ASSUME TypeInv
    PROVE  /\ \A i \in DOMAIN requests :
                 /\ requests[i] \in Request
                 /\ task[requests[i].task] \in Method \cup {"gone"}
           /\ \A i \in DOMAIN replies :
                 /\ replies[i] \in Reply
                 /\ MethodOf(replies[i].answer) \in Method
                 /\ task[replies[i].task] \in Method \cup {"gone"}
<1>1. \A i \in DOMAIN requests : requests[i] \in Request
  <2>1. requests \in Seq(Request)
    BY DEF TypeInv, TypeOK, Request
  <2> QED
    BY <2>1
<1>2. \A i \in DOMAIN replies : replies[i] \in Reply
  <2>1. replies \in Seq(Reply)
    BY DEF TypeInv, TypeOK, Reply
  <2> QED
    BY <2>1
<1>3. \A a : MethodOf(a) \in Method
  BY DEF MethodOf, Method
<1>4. Awaited
  BY DEF TypeInv, Channel
<1> QED
  BY <1>1, <1>2, <1>3, <1>4 DEF Awaited, Request

\* A call asks: its request is the youngest.
LEMMA Asks ==
    ASSUME TypeInv, NEW t \in Task, NEW m \in Method, NEW d \in Path,
           task[t] \in {"new", "invoke"}, Invoke(t, m, d), TaskTo(t, m), UNCHANGED replies
    PROVE  requests' \in Seq(Request) /\ Channel'
<1> DEFINE r == [task |-> t, method |-> m, device |-> d]
<1>1. r \in Request /\ r.task = t /\ r.method = m
  BY DEF Request
<1>2. requests' = Append(requests, r) /\ requests \in Seq(Request)
  BY DEF Invoke, TypeInv, TypeOK, Request
<1> HIDE DEF r
<1>3. /\ \A i \in DOMAIN requests : requests[i].task \in Task \ {t}
      /\ \A i \in DOMAIN replies : replies[i].task \in Task \ {t}
  BY Waiting DEF Request, Reply, Method
<1>4. task' = [task EXCEPT ![t] = m] /\ t \in DOMAIN task
  BY DEF TaskTo, TypeInv, TypeOK
<1>5. Awaited'
  BY <1>1, <1>2, <1>3, <1>4, Appended DEF TypeInv, Channel, Awaited
<1>6. Distinct'
  BY <1>1, <1>2, <1>3, Appended DEF TypeInv, Channel, Distinct
<1> QED
  BY <1>1, <1>2, <1>5, <1>6, Appended DEF Channel

\* A call that has nothing on its way does something else.
LEMMA Elsewhere ==
    ASSUME TypeInv, NEW t \in Task, task[t] \notin Method \cup {"gone"}, NEW l, TaskTo(t, l),
           UNCHANGED channelVars
    PROVE  Channel'
<1>1. /\ \A i \in DOMAIN requests : requests[i].task \in Task \ {t}
      /\ \A i \in DOMAIN replies : replies[i].task \in Task \ {t}
  BY Waiting DEF Request, Reply
<1>2. Awaited'
  BY <1>1 DEF TaskTo, TypeInv, TypeOK, Channel, Awaited, channelVars
<1>3. Distinct'
  BY DEF TypeInv, Channel, Distinct, channelVars
<1> QED
  BY <1>2, <1>3 DEF Channel

\* The oldest request is answered.
LEMMA Answers ==
    ASSUME TypeInv, requests # <<>>, NEW a \in Answer, MethodOf(a) = Head(requests).method,
           requests' = Tail(requests), Answered(Head(requests).task, a), UNCHANGED task
    PROVE  replies' \in Seq(Reply) /\ requests' \in Seq(Request) /\ Channel'
<1> DEFINE r == [task |-> Head(requests).task, answer |-> a]
<1>1. requests \in Seq(Request) /\ replies \in Seq(Reply)
  BY DEF TypeInv, TypeOK, Request, Reply
<1>2. Head(requests) \in Request /\ Head(requests) = requests[1] /\ 1 \in DOMAIN requests
  BY <1>1, Taken
<1>3. r \in Reply /\ r.task = requests[1].task /\ r.answer = a
  BY <1>2 DEF Request, Reply
<1>4. replies' = Append(replies, r)
  BY DEF Answered
<1> HIDE DEF r
<1>5. /\ replies' \in Seq(Reply)
      /\ \A i \in DOMAIN replies' :
            \/ i \in DOMAIN replies /\ replies'[i] = replies[i]
            \/ i = Len(replies) + 1 /\ replies'[i] = r
  BY <1>1, <1>3, <1>4, Appended
<1>6. /\ requests' \in Seq(Request)
      /\ \A i \in DOMAIN requests' :
            i + 1 \in DOMAIN requests /\ i \in Nat \ {0} /\ requests'[i] = requests[i + 1]
  BY <1>1, Taken
<1>7. Awaited'
  BY <1>2, <1>3, <1>5, <1>6 DEF TypeInv, Channel, Awaited
<1>8. Distinct'
  <2>1. \A i, j \in DOMAIN requests' : requests'[i].task = requests'[j].task => i = j
    BY <1>6 DEF TypeInv, Channel, Distinct
  <2>2. \A i, j \in DOMAIN replies' : replies'[i].task = replies'[j].task => i = j
    BY <1>2, <1>3, <1>5 DEF TypeInv, Channel, Distinct
  <2>3. \A i \in DOMAIN requests', j \in DOMAIN replies' : requests'[i].task # replies'[j].task
    BY <1>2, <1>3, <1>5, <1>6 DEF TypeInv, Channel, Distinct
  <2> QED
    BY <2>1, <2>2, <2>3 DEF Distinct
<1> QED
  BY <1>5, <1>6, <1>7, <1>8 DEF Channel

\* The oldest answer arrives, and its call goes on.
LEMMA Arrives ==
    ASSUME TypeInv, replies # <<>>, replies' = Tail(replies), UNCHANGED requests,
           NEW l, TaskTo(Head(replies).task, l) \/ UNCHANGED task
    PROVE  replies' \in Seq(Reply) /\ Channel'
<1>1. replies \in Seq(Reply)
  BY DEF TypeInv, TypeOK, Reply
<1>2. Head(replies) = replies[1] /\ 1 \in DOMAIN replies
  BY <1>1, Taken
<1>3. /\ replies' \in Seq(Reply)
      /\ \A i \in DOMAIN replies' :
            i + 1 \in DOMAIN replies /\ i \in Nat \ {0} /\ replies'[i] = replies[i + 1]
  BY <1>1, Taken
<1>4. \A u \in Task : u # Head(replies).task => task'[u] = task[u]
  BY DEF TaskTo, TypeInv, TypeOK
<1>5. /\ \A i \in DOMAIN requests : requests[i].task \in Task /\ requests[i].task # Head(replies).task
      /\ \A i \in DOMAIN replies' : replies'[i].task \in Task /\ replies'[i].task # Head(replies).task
  <2>1. \A i \in DOMAIN requests : requests[i].task \in Task
    BY Waiting DEF Request
  <2>2. \A i \in DOMAIN replies : replies[i].task \in Task
    BY Waiting DEF Reply
  <2> QED
    BY <1>2, <1>3, <2>1, <2>2 DEF TypeInv, Channel, Distinct
<1>6. Awaited'
  BY <1>3, <1>4, <1>5 DEF TypeInv, Channel, Awaited
<1>7. Distinct'
  BY <1>3 DEF TypeInv, Channel, Distinct
<1> QED
  BY <1>3, <1>6, <1>7 DEF Channel

\* What the handler of request q does if it answers a, case by case.
RecordingStarts(q, a) ==
    /\ a = "0" /\ native = NoPath /\ native' = q.task
    /\ file' = [file EXCEPT ![q.task] = "growing"]
    /\ drawing' \in {drawing, drawing \cup {q.task}} /\ UNCHANGED <<missed, refused, ended>>

StartRefused(q, a) ==
    /\ a = IF native = NoPath THEN "-2" ELSE "-1"
    /\ refused' = refused \cup {q.task}
    /\ UNCHANGED <<native, file, drawing, missed, ended>>

RecordingEnds(q, a) ==
    /\ a = IF native = NoPath THEN "null" ELSE "path"
    /\ native' = NoPath
    /\ \/ file' = [file EXCEPT ![native] = IF @ = "growing" THEN "complete" ELSE @]
       \/ native = NoPath /\ UNCHANGED file
    /\ drawing' \subseteq drawing /\ missed' \subseteq missed \cup drawing
    /\ drawing' \ missed' = (drawing \ missed) \ {q.device}
    /\ ended' = [ended EXCEPT ![q.task] = native]
    /\ UNCHANGED refused

StateTold(q, a) ==
    /\ a = IF native = NoPath THEN "false" ELSE "true"
    /\ UNCHANGED <<nativeVars, refused>>

Handled(q, a) ==
    /\ requests # <<>> /\ q = requests[1] /\ q = Head(requests) /\ 1 \in DOMAIN requests
    /\ requests' = Tail(requests) /\ Answered(q.task, a) /\ MethodOf(a) = q.method
    /\ UNCHANGED <<clientVars, task, result, cancels, crossed, appVars>>
    /\ \/ q.method = "startRecording" /\ (RecordingStarts(q, a) \/ StartRefused(q, a))
       \/ q.method = "stopRecording" /\ RecordingEnds(q, a)
       \/ q.method = "isRecording" /\ StateTold(q, a)

\* Every call of the handler is one of these.
LEMMA Handles ==
    ASSUME TypeInv, OnMethodCall
    PROVE  \E q \in Request, a \in Answer : Handled(q, a)
<1>1. requests \in Seq(Request) /\ requests # <<>>
  BY DEF TypeInv, TypeOK, Request, OnMethodCall
<1> DEFINE q == Head(requests)
<1>2. q \in Request /\ q = requests[1] /\ 1 \in DOMAIN requests
  BY <1>1, Taken
<1>3. requests' = Tail(requests) /\ UNCHANGED <<clientVars, task, result, cancels, crossed, appVars>>
  BY DEF OnMethodCall
<1>4. CASE q.method = "startRecording" /\ HandleStart(q.task)
  <2>1. PICK a \in {"0", "-1", "-2"} :
           /\ Service!StartRecording(q.task, a)
           /\ Answered(q.task, a)
           /\ drawing' \in IF a = "0" THEN {drawing, drawing \cup {q.task}} ELSE {drawing}
           /\ refused' = IF a = "0" THEN refused ELSE refused \cup {q.task}
           /\ UNCHANGED <<missed, ended>>
    BY <1>4 DEF HandleStart
  <2>2. a \in Answer /\ MethodOf(a) = q.method
    BY <1>4 DEF Answer, MethodOf
  <2> QED
    <3>1. RecordingStarts(q, a) \/ StartRefused(q, a)
      BY <2>1 DEF Service!StartRecording, Service!serviceVars, RecordingStarts, StartRefused
    <3> QED
      BY <1>1, <1>2, <1>3, <1>4, <2>1, <2>2, <3>1 DEF Handled
<1>5. CASE q.method = "stopRecording" /\ HandleStop(q.task, q.device)
  <2>1. PICK a \in {"path", "null"} :
           /\ Service!StopRecording(a)
           /\ Answered(q.task, a)
           /\ ended' = [ended EXCEPT ![q.task] = native]
           /\ UNCHANGED refused
    BY <1>5 DEF HandleStop
  <2>2. a \in Answer /\ MethodOf(a) = q.method
    BY <1>5 DEF Answer, MethodOf
  <2>3. /\ drawing' \subseteq drawing /\ missed' \subseteq missed \cup drawing
        /\ drawing' \ missed' = (drawing \ missed) \ {q.device}
    BY <1>5 DEF HandleStop
  <2>4. /\ a = IF native = NoPath THEN "null" ELSE "path"
        /\ native' = NoPath
        /\ \/ file' = [file EXCEPT ![native] = IF @ = "growing" THEN "complete" ELSE @]
           \/ native = NoPath /\ UNCHANGED file
    BY <2>1 DEF Service!StopRecording, Service!serviceVars
  <2> QED
    <3>1. RecordingEnds(q, a)
      BY <2>1, <2>3, <2>4 DEF RecordingEnds
    <3> QED
      BY <1>1, <1>2, <1>3, <1>5, <2>1, <2>2, <3>1 DEF Handled
<1>6. CASE q.method = "isRecording" /\ HandleIsRecording(q.task)
  <2>1. PICK a \in {"true", "false"} :
           /\ Service!IsRecording(a)
           /\ Answered(q.task, a)
           /\ UNCHANGED <<drawing, missed, refused, ended>>
    BY <1>6 DEF HandleIsRecording
  <2>2. a \in Answer /\ MethodOf(a) = q.method
    BY <1>6 DEF Answer, MethodOf
  <2> QED
    <3>1. StateTold(q, a)
      BY <2>1 DEF Service!IsRecording, Service!serviceVars, nativeVars, StateTold
    <3> QED
      BY <1>1, <1>2, <1>3, <1>6, <2>1, <2>2, <3>1 DEF Handled
<1> QED
  BY <1>4, <1>5, <1>6 DEF OnMethodCall

\* What answer r does to the call that awaits it.
Received(r) ==
    /\ replies # <<>> /\ r = replies[1] /\ r = Head(replies) /\ 1 \in DOMAIN replies
    /\ replies' = Tail(replies)
    /\ UNCHANGED <<cancels, refused, crossed, requests, nativeVars, restarted>>
    /\ \/ r.answer \in {"0", "-1", "-2"} /\ StartReturns(r.task) /\ synced' = synced
       \/ r.answer \in {"path", "null"} /\ StopReturns(r.task, r.answer) /\ synced' = synced
       \/ r.answer \in {"true", "false"} /\ QueryReturns(r.task, r.answer) /\ synced' = TRUE
       \/ task[r.task] = "gone" /\ UNCHANGED <<clientVars, task, result>> /\ synced' = synced

\* And every answer that arrives is one to a call that awaits it, or to nobody.
LEMMA Receives ==
    ASSUME TypeInv, Receive
    PROVE  \E r \in Reply : Received(r)
<1>1. replies \in Seq(Reply) /\ replies # <<>>
  BY DEF TypeInv, TypeOK, Reply, Receive
<1> DEFINE r == Head(replies)
<1>2. r \in Reply /\ r = replies[1] /\ 1 \in DOMAIN replies
  BY <1>1, Taken
<1>3. replies' = Tail(replies) /\ UNCHANGED <<cancels, refused, crossed, requests, nativeVars, restarted>>
  BY DEF Receive
<1>4. /\ Return(r.task, r.answer) \/ (task[r.task] = "gone" /\ UNCHANGED <<clientVars, task, result>>)
      /\ synced' = (synced \/ task[r.task] = "isRecording")
  BY DEF Receive
<1>5. task[r.task] \in {MethodOf(r.answer), "gone"} /\ r.answer \in Answer /\ synced \in BOOLEAN
  BY <1>2 DEF TypeInv, TypeOK, Channel, Awaited, Reply
<1>6. CASE StartReturns(r.task)
  <2>1. r.answer \in {"0", "-1", "-2"} /\ synced' = synced
    BY <1>4, <1>5, <1>6 DEF StartReturns, MethodOf
  <2> QED
    BY <1>1, <1>2, <1>3, <1>6, <2>1 DEF Received
<1>7. CASE StopReturns(r.task, r.answer)
  <2>1. r.answer \in {"path", "null"} /\ synced' = synced
    BY <1>4, <1>5, <1>7 DEF StopReturns, MethodOf
  <2> QED
    BY <1>1, <1>2, <1>3, <1>7, <2>1 DEF Received
<1>8. CASE QueryReturns(r.task, r.answer)
  <2>1. r.answer \in {"true", "false"} /\ synced' = TRUE
    BY <1>4, <1>5, <1>8 DEF QueryReturns, MethodOf, Answer
  <2> QED
    BY <1>1, <1>2, <1>3, <1>8, <2>1 DEF Received
<1>9. CASE task[r.task] = "gone" /\ UNCHANGED <<clientVars, task, result>>
  BY <1>1, <1>2, <1>3, <1>4, <1>5, <1>9 DEF Received
<1> QED
  BY <1>4, <1>6, <1>7, <1>8, <1>9 DEF Return

\* stopRecording either asks or has nothing to stop.
LEMMA Stops ==
    ASSUME TypeInv, NEW t \in Task, StopRecording(t)
    PROVE  /\ task[t] = "new"
           /\ \E c \in {"no", _currentRecordingPath} : cancels' = [cancels EXCEPT ![t] = c]
           /\ crossed' = (crossed \/ Starting)
           /\ UNCHANGED <<clientVars, refused, replies, nativeVars, appVars>>
           /\ \/ /\ _isRecording /\ _currentDeviceId # NoPath /\ UNCHANGED result
                 /\ Invoke(t, "stopRecording", _currentDeviceId) /\ TaskTo(t, "stopRecording")
              \/ /\ ~_isRecording \/ _currentDeviceId = NoPath
                 /\ UNCHANGED requests /\ Complete(t, "null")
                 /\ TaskTo(t, IF cancels'[t] \in Task THEN "delete" ELSE "done")
BY DEF StopRecording

\* The actions one by one.
LEMMA TypeStep == TypeInv /\ [Next]_vars => TypeInv'
<1> SUFFICES ASSUME TypeInv, [Next]_vars PROVE TypeOK' /\ Channel'
  BY DEF TypeInv
<1> USE ClientAssumption DEF clientVars, taskVars, channelVars, nativeVars, appVars
<1>a. TypeOK /\ requests \in Seq(Request) /\ replies \in Seq(Reply)
  BY DEF TypeInv, TypeOK, Request, Reply
<1>b. \A t \in Task : t \in Path /\ t # NoPath
  BY DEF Path
<1>1. ASSUME NEW t \in Task, StartRecording(t) PROVE TypeOK' /\ Channel'
  <2>1. \E l \in {"invoke", "done"} : TaskTo(t, l)
    BY <1>1 DEF StartRecording
  <2>2. Channel'
    BY <1>1, <2>1, Elsewhere DEF StartRecording, Method
  <2>3. TypeOK'
    BY <1>a, <1>1 DEF TypeOK, StartRecording, TaskTo, Complete, Starting, Stopping
  <2> QED
    BY <2>2, <2>3
<1>2. ASSUME NEW t \in Task, StartInvokes(t) PROVE TypeOK' /\ Channel'
  <2>1. requests' \in Seq(Request) /\ Channel'
    <3>1. CASE Invoke(t, "startRecording", t) /\ TaskTo(t, "startRecording")
      BY <1>2, <1>b, <3>1, Asks DEF StartInvokes, Method
    <3>2. CASE UNCHANGED requests /\ TaskTo(t, "done")
      BY <1>a, <1>2, <3>2, Elsewhere DEF StartInvokes, Method
    <3> QED
      BY <1>2, <3>1, <3>2 DEF StartInvokes
  <2>2. TypeOK'
    BY <1>a, <1>2, <2>1 DEF TypeOK, StartInvokes, TaskTo, Complete, Request
  <2> QED
    BY <2>1, <2>2
<1>3. ASSUME NEW t \in Task, StopRecording(t) PROVE TypeOK' /\ Channel'
  <2>1. requests' \in Seq(Request) /\ Channel'
    <3>1. CASE Invoke(t, "stopRecording", _currentDeviceId) /\ TaskTo(t, "stopRecording")
      BY <1>a, <1>3, <3>1, Stops, Asks DEF TypeOK, Method
    <3>2. CASE UNCHANGED requests /\ TaskTo(t, IF cancels'[t] \in Task THEN "delete" ELSE "done")
      BY <1>a, <1>3, <3>2, Stops, Elsewhere DEF Method
    <3> QED
      BY <1>3, <3>1, <3>2, Stops
  <2>2. cancels' \in [Task -> Path \cup {"no"}]
    BY <1>a, <1>3, Stops DEF TypeOK
  <2>3. task' \in [Task -> {"new", "invoke", "startRecording", "stopRecording",
                            "isRecording", "delete", "done", "gone"}]
    BY <1>a, <1>3, Stops DEF TypeOK, TaskTo
  <2>5. result' \in [Task -> {"none", "started", "path", "null", "true", "false",
                            "StateError", "IOError"}]
    BY <1>a, <1>3, Stops DEF TypeOK, Complete
  <2>4. crossed' \in BOOLEAN
    BY <1>a, <1>3, Stops DEF TypeOK, Starting
  <2> QED
    BY <1>a, <1>3, <2>1, <2>2, <2>3, <2>4, <2>5, Stops DEF TypeOK, Request
<1>4. ASSUME NEW t \in Task, QueryIsRecording(t) PROVE TypeOK' /\ Channel'
  <2>1. requests' \in Seq(Request) /\ Channel'
    BY <1>4, <1>b, Asks DEF QueryIsRecording, Method
  <2>2. TypeOK'
    BY <1>a, <1>4, <2>1 DEF TypeOK, QueryIsRecording, TaskTo, Request
  <2> QED
    BY <2>1, <2>2
<1>5. ASSUME NEW t \in Task, Delete(t) PROVE TypeOK' /\ Channel'
  <2>1. Channel'
    BY <1>5, Elsewhere DEF Delete, Method
  <2>2. TypeOK'
    BY <1>a, <1>5 DEF TypeOK, Delete, TaskTo
  <2> QED
    BY <2>1, <2>2
<1>6. CASE Receive
  <2>1. PICK r \in Reply : Received(r)
    BY <1>6, Receives
  <2>2. r.task \in Task /\ r.answer \in Answer
    BY DEF Reply
  <2>3. \/ \E l \in {"done", "delete"} : TaskTo(r.task, l)
        \/ UNCHANGED task
    BY <2>1 DEF Received, StartReturns, StopReturns, QueryReturns
  <2>4. replies' \in Seq(Reply) /\ Channel'
    BY <2>1, <2>3, Arrives DEF Received
  <2>5. task' \in [Task -> {"new", "invoke", "startRecording", "stopRecording",
                            "isRecording", "delete", "done", "gone"}]
    BY <1>a, <2>3 DEF TypeOK, TaskTo
  <2>6. result' \in [Task -> {"none", "started", "path", "null", "true", "false",
                            "StateError", "IOError"}]
    BY <1>a, <2>1 DEF TypeOK, Received, StartReturns, StopReturns, QueryReturns, Complete
  <2>7. _isRecording' \in BOOLEAN /\ _currentRecordingPath' \in Path /\ _currentDeviceId' \in Path
        /\ synced' \in BOOLEAN
    BY <1>a, <1>b, <2>1, <2>2 DEF TypeOK, Received, StartReturns, StopReturns,
       QueryReturns, Path
  <2>8. TypeOK'
    BY <1>a, <2>1, <2>4, <2>5, <2>6, <2>7 DEF TypeOK, Received, Reply
  <2> QED
    BY <2>4, <2>8
<1>7. CASE OnMethodCall
  <2>1. PICK q \in Request, a \in Answer : Handled(q, a)
    BY <1>7, Handles
  <2>2. q.task \in Task
    BY DEF Request
  <2>3. replies' \in Seq(Reply) /\ requests' \in Seq(Request) /\ Channel'
    BY <2>1, Answers DEF Handled
  <2>4. /\ native' \in Path /\ drawing' \subseteq Task /\ missed' \subseteq Task
        /\ refused' \subseteq Task /\ ended' \in [Task -> Path]
    <3>1. CASE RecordingStarts(q, a)
      BY <1>a, <1>b, <2>1, <2>2, <3>1 DEF TypeOK, Handled, RecordingStarts
    <3>2. CASE StartRefused(q, a)
      BY <1>a, <2>1, <2>2, <3>2 DEF TypeOK, Handled, StartRefused
    <3>3. CASE RecordingEnds(q, a)
      BY <1>a, <2>1, <2>2, <3>3 DEF TypeOK, Handled, RecordingEnds, Path
    <3>4. CASE StateTold(q, a)
      BY <1>a, <2>1, <3>4 DEF TypeOK, Handled, StateTold
    <3> QED
      BY <2>1, <3>1, <3>2, <3>3, <3>4 DEF Handled
  <2>5. file' \in [Task -> {"none", "growing", "complete", "deleted"}]
    <3>1. CASE RecordingStarts(q, a)
      BY <1>a, <2>2, <3>1 DEF TypeOK, RecordingStarts
    <3>2. CASE UNCHANGED file
      BY <1>a, <3>2 DEF TypeOK
    <3>3. CASE RecordingEnds(q, a)
      BY <1>a, <3>2, <3>3 DEF TypeOK, RecordingEnds
    <3> QED
      BY <2>1, <3>1, <3>2, <3>3 DEF Handled, StartRefused, StateTold
  <2>6. TypeOK'
    BY <1>a, <2>1, <2>3, <2>4, <2>5 DEF TypeOK, Handled, Request, Reply
  <2> QED
    BY <2>3, <2>6
<1>8. CASE Restart
  <2>1. /\ replies' = <<>> /\ requests' \in {requests, <<>>}
        /\ task' = [t \in Task |-> IF task[t] \in {"new", "done"} THEN task[t] ELSE "gone"]
    BY <1>8 DEF Restart
  <2>2. TypeOK'
    <3>1. task' \in [Task -> {"new", "invoke", "startRecording", "stopRecording",
                              "isRecording", "delete", "done", "gone"}]
      BY <1>a, <2>1 DEF TypeOK
    <3>2. /\ replies' \in Seq([task : Task, answer : Answer])
          /\ requests' \in Seq([task : Task, method : Method, device : Path])
      BY <1>a, <2>1, NoneWaits DEF Request
    <3>3. native' \in Path /\ drawing' \subseteq Task /\ missed' \subseteq Task
      BY <1>a, <1>8 DEF TypeOK, Restart, Path
    <3>4. /\ _isRecording' \in BOOLEAN /\ synced' \in BOOLEAN
          /\ _currentRecordingPath' \in Path /\ _currentDeviceId' \in Path
          /\ restarted' \in {"no", "isolate", "engine"}
      BY <1>8 DEF Restart, Path
    <3> QED
      BY <1>a, <1>8, <3>1, <3>2, <3>3, <3>4 DEF TypeOK, Restart
  <2>3. \A i \in DOMAIN requests : requests[i].task \in Task /\ task'[requests[i].task] = "gone"
    BY <2>1, Waiting DEF Request, Method
  <2>4. Channel'
    BY <2>1, <2>3, NoneWaits DEF TypeInv, Channel, Awaited, Distinct
  <2> QED
    BY <2>2, <2>4
<1>9. CASE UNCHANGED vars
  BY <1>9 DEF vars, TypeInv, TypeOK, Channel, Awaited, Distinct
<1> QED
  BY <1>1, <1>2, <1>3, <1>4, <1>5, <1>6, <1>7, <1>8, <1>9 DEF Next

\* The fields, the calls, the channel and the native side stay in type.
THEOREM ClientTypeCorrect == Spec => []TypeOK
<1>1. TypeInv => TypeOK
  BY DEF TypeInv
<1> QED
  BY <1>1, TypeInit, TypeStep, PTL DEF Spec

-----------------------------------------------------------------------------
(* The steps, by what they do to the channel.                              *)

\* Call t asks; only a stop tells two recordings apart by what it carries.
Asking(t, m, d) ==
    /\ Invoke(t, m, d) /\ TaskTo(t, m)
    /\ UNCHANGED <<clientVars, refused, replies, nativeVars, appVars>>
    /\ \/ m = "startRecording" /\ task[t] = "invoke" /\ d = t /\ UNCHANGED <<cancels, crossed>>
       \/ m = "isRecording" /\ task[t] = "new" /\ d = t /\ UNCHANGED <<cancels, crossed>>
       \/ /\ m = "stopRecording" /\ task[t] = "new" /\ d = _currentDeviceId
          /\ \E c \in {"no", _currentRecordingPath} : cancels' = [cancels EXCEPT ![t] = c]
          /\ crossed' = (crossed \/ Starting)

\* Call t goes on without the channel.
Moving(t, l) ==
    /\ TaskTo(t, l)
    /\ UNCHANGED <<clientVars, refused, channelVars, native, drawing, missed, ended, appVars>>
    /\ \/ /\ task[t] = "new" /\ l = "invoke" /\ ~_isRecording /\ UNCHANGED <<cancels, file>>
          /\ crossed' = (crossed \/ Starting \/ Stopping)
       \/ task[t] \in {"new", "invoke"} /\ l = "done" /\ UNCHANGED <<cancels, crossed, file>>
       \/ /\ task[t] = "new" /\ l \in {"done", "delete"} /\ UNCHANGED file
          /\ ~_isRecording \/ _currentDeviceId = NoPath
          /\ \E c \in {"no", _currentRecordingPath} : cancels' = [cancels EXCEPT ![t] = c]
          /\ crossed' = (crossed \/ Starting)
       \/ /\ task[t] = "delete" /\ l = "done" /\ UNCHANGED <<cancels, crossed>>
          /\ file' = [file EXCEPT ![cancels[t]] = IF @ = "none" THEN @ ELSE "deleted"]

\* Every step is one of those, or serves the channel, or is the restart.
LEMMA StepKinds ==
    ASSUME TypeInv, [Next]_vars
    PROVE  \/ \E t \in Task, m \in Method, d \in Path : Asking(t, m, d)
           \/ \E t \in Task, l \in {"invoke", "done", "delete"} : Moving(t, l)
           \/ \E q \in Request, a \in Answer : Handled(q, a)
           \/ \E r \in Reply : Received(r)
           \/ Restart
           \/ UNCHANGED vars
<1>a. /\ _currentDeviceId \in Path /\ _isRecording \in BOOLEAN /\ crossed \in BOOLEAN
      /\ \A t \in Task : t \in Path
  BY DEF TypeInv, TypeOK, Path
<1>b. {"startRecording", "stopRecording", "isRecording"} \subseteq Method
  BY DEF Method
<1>1. ASSUME NEW t \in Task, StartRecording(t)
      PROVE  \E l \in {"invoke", "done", "delete"} : Moving(t, l)
  <2>1. \/ _isRecording /\ TaskTo(t, "done") /\ crossed' = crossed
        \/ ~_isRecording /\ TaskTo(t, "invoke") /\ crossed' = (crossed \/ Starting \/ Stopping)
    BY <1>a, <1>1 DEF StartRecording
  <2> QED
    BY <1>1, <2>1 DEF StartRecording, Moving, nativeVars
<1>2. ASSUME NEW t \in Task, StartInvokes(t)
      PROVE  Asking(t, "startRecording", t) \/ Moving(t, "done")
  BY <1>2 DEF StartInvokes, Asking, Moving, channelVars, nativeVars
<1>3. ASSUME NEW t \in Task, StopRecording(t)
      PROVE  \/ Asking(t, "stopRecording", _currentDeviceId)
             \/ \E l \in {"invoke", "done", "delete"} : Moving(t, l)
  BY <1>3, Stops DEF Asking, Moving, channelVars, nativeVars
<1>4. ASSUME NEW t \in Task, QueryIsRecording(t) PROVE Asking(t, "isRecording", t)
  BY <1>4 DEF QueryIsRecording, Asking
<1>5. ASSUME NEW t \in Task, Delete(t) PROVE Moving(t, "done")
  BY <1>5 DEF Delete, Moving
<1>6. CASE Receive
  BY <1>6, Receives
<1>7. CASE OnMethodCall
  BY <1>7, Handles
<1> QED
  BY <1>a, <1>b, <1>1, <1>2, <1>3, <1>4, <1>5, <1>6, <1>7 DEF Next

\* What a request or an answer is, and that nobody is gone who was not, but for a restart.
LEMMA GoneStays ==
    ASSUME TypeInv,
           \/ \E t \in Task, m \in Method, d \in Path : Asking(t, m, d)
           \/ \E t \in Task, l \in {"invoke", "done", "delete"} : Moving(t, l)
           \/ \E q \in Request, a \in Answer : Handled(q, a)
           \/ \E r \in Reply : Received(r)
    PROVE  \A u \in Task : task'[u] = "gone" <=> task[u] = "gone"
<1>a. task \in [Task -> {"new", "invoke", "startRecording", "stopRecording",
                         "isRecording", "delete", "done", "gone"}]
  BY DEF TypeInv, TypeOK
<1>1. ASSUME NEW t \in Task, NEW l \in {"invoke", "done", "delete"} \cup Method, TaskTo(t, l),
             task[t] # "gone"
      PROVE  \A u \in Task : task'[u] = "gone" <=> task[u] = "gone"
  BY <1>a, <1>1 DEF TaskTo, Method
<1>2. ASSUME NEW t \in Task, NEW m \in Method, NEW d \in Path, Asking(t, m, d)
      PROVE  \A u \in Task : task'[u] = "gone" <=> task[u] = "gone"
  BY <1>1, <1>2 DEF Asking
<1>3. ASSUME NEW t \in Task, NEW l \in {"invoke", "done", "delete"}, Moving(t, l)
      PROVE  \A u \in Task : task'[u] = "gone" <=> task[u] = "gone"
  BY <1>1, <1>3 DEF Moving
<1>4. ASSUME NEW q \in Request, NEW a \in Answer, Handled(q, a)
      PROVE  \A u \in Task : task'[u] = "gone" <=> task[u] = "gone"
  BY <1>4 DEF Handled
<1>5. ASSUME NEW r \in Reply, Received(r)
      PROVE  \A u \in Task : task'[u] = "gone" <=> task[u] = "gone"
  <2>1. CASE task[r.task] = "gone" /\ UNCHANGED task
    BY <2>1
  <2>2. CASE \E l \in {"done", "delete"} : TaskTo(r.task, l) /\ task[r.task] # "gone"
    <3>1. r.task \in Task
      BY DEF Reply
    <3> QED
      BY <1>1, <2>2, <3>1
  <2> QED
    BY <1>5, <2>1, <2>2 DEF Received, StartReturns, StopReturns, QueryReturns
<1> QED
  BY <1>2, <1>3, <1>4, <1>5

\* The queues after each kind of step, one element at a time.
LEMMA AskingQueues ==
    ASSUME TypeInv, NEW t \in Task, NEW m \in Method, NEW d \in Path, Asking(t, m, d)
    PROVE  /\ UNCHANGED replies
           /\ \A i \in DOMAIN requests : requests[i].task \in Task \ {t}
           /\ \A i \in DOMAIN replies : replies[i].task \in Task \ {t}
           /\ \E n \in DOMAIN requests' :
                 /\ requests'[n] = [task |-> t, method |-> m, device |-> d]
                 /\ \A i \in DOMAIN requests' :
                       i # n => i \in DOMAIN requests /\ requests'[i] = requests[i] /\ i < n
                                /\ i \in Nat /\ n \in Nat
<1> DEFINE e == [task |-> t, method |-> m, device |-> d]
<1>1. requests \in Seq(Request) /\ e \in Request
  BY DEF TypeInv, TypeOK, Request
<1>2. requests' = Append(requests, e)
  BY DEF Asking, Invoke
<1> HIDE DEF e
<1>3. /\ Len(requests) + 1 \in DOMAIN requests' /\ requests'[Len(requests) + 1] = e
      /\ \A i \in DOMAIN requests' : i # Len(requests) + 1 =>
            i \in DOMAIN requests /\ requests'[i] = requests[i] /\ i < Len(requests) + 1
            /\ i \in Nat /\ Len(requests) + 1 \in Nat
  BY <1>1, <1>2, Appended
<1>4. /\ \A i \in DOMAIN requests : requests[i].task \in Task \ {t}
      /\ \A i \in DOMAIN replies : replies[i].task \in Task \ {t}
  BY Waiting DEF Asking, Request, Reply, Method
<1> QED
  BY <1>3, <1>4 DEF Asking, e

\* The oldest request goes and its answer is the youngest.
LEMMA HandledQueues ==
    ASSUME TypeInv, NEW q \in Request, NEW a \in Answer, Handled(q, a)
    PROVE  /\ \A i \in DOMAIN requests' :
                 /\ i + 1 \in DOMAIN requests /\ i \in Nat \ {0}
                 /\ requests'[i] = requests[i + 1] /\ requests'[i].task # q.task
           /\ \A i \in DOMAIN replies : replies[i].task # q.task
           /\ \E n \in DOMAIN replies' :
                 /\ n \notin DOMAIN replies
                 /\ replies'[n] = [task |-> q.task, answer |-> a]
                 /\ DOMAIN replies' = DOMAIN replies \cup {n}
                 /\ \A i \in DOMAIN replies : replies'[i] = replies[i] /\ i < n /\ i \in Nat
                 /\ n \in Nat
<1> DEFINE e == [task |-> q.task, answer |-> a]
<1>1. requests \in Seq(Request) /\ replies \in Seq(Reply) /\ e \in Reply /\ requests # <<>>
  BY DEF TypeInv, TypeOK, Request, Reply, Handled
<1>2. replies' = Append(replies, e) /\ requests' = Tail(requests) /\ q = requests[1]
      /\ 1 \in DOMAIN requests
  BY DEF Handled, Answered
<1> HIDE DEF e
<1>3. \A i \in DOMAIN requests' :
         i + 1 \in DOMAIN requests /\ i \in Nat \ {0} /\ requests'[i] = requests[i + 1]
  BY <1>1, <1>2, Taken
<1>4. ASSUME NEW i \in DOMAIN requests' PROVE requests'[i].task # q.task
  <2>1. i + 1 \in DOMAIN requests /\ requests'[i] = requests[i + 1] /\ i + 1 # 1
    BY <1>3
  <2>2. requests[i + 1].task = requests[1].task => i + 1 = 1
    BY <1>2, <2>1 DEF TypeInv, Channel, Distinct
  <2> QED
    BY <1>2, <2>1, <2>2
<1>5. \A i \in DOMAIN replies : replies[i].task # q.task
  BY <1>2 DEF TypeInv, Channel, Distinct
<1>6. /\ Len(replies) + 1 \in DOMAIN replies' /\ Len(replies) + 1 \notin DOMAIN replies
      /\ replies'[Len(replies) + 1] = e
      /\ DOMAIN replies' = DOMAIN replies \cup {Len(replies) + 1}
      /\ \A i \in DOMAIN replies : replies'[i] = replies[i] /\ i < Len(replies) + 1 /\ i \in Nat
      /\ Len(replies) + 1 \in Nat
  BY <1>1, <1>2, Appended
<1> QED
  BY <1>3, <1>4, <1>5, <1>6 DEF e

\* The oldest answer goes.
LEMMA ReceivedQueues ==
    ASSUME TypeInv, NEW r \in Reply, Received(r)
    PROVE  /\ UNCHANGED requests
           /\ \A i \in DOMAIN requests : requests[i].task # r.task
           /\ \A i \in DOMAIN replies' :
                 /\ i + 1 \in DOMAIN replies /\ i \in Nat \ {0}
                 /\ replies'[i] = replies[i + 1] /\ replies'[i].task # r.task
           /\ \A i \in DOMAIN replies : i # 1 =>
                 i - 1 \in DOMAIN replies' /\ replies'[i - 1] = replies[i] /\ i > 1 /\ i \in Nat
<1>1. replies \in Seq(Reply) /\ replies # <<>> /\ replies' = Tail(replies)
      /\ r = replies[1] /\ 1 \in DOMAIN replies
  BY DEF TypeInv, TypeOK, Reply, Received
<1>2. /\ \A i \in DOMAIN replies' :
            i + 1 \in DOMAIN replies /\ i \in Nat \ {0} /\ replies'[i] = replies[i + 1]
      /\ \A i \in DOMAIN replies : i # 1 =>
            i - 1 \in DOMAIN replies' /\ replies'[i - 1] = replies[i] /\ i > 1 /\ i \in Nat
  BY <1>1, Taken
<1>3. /\ \A i \in DOMAIN requests : requests[i].task # r.task
      /\ \A i \in DOMAIN replies' : replies'[i].task # r.task
  <2>1. \A i \in DOMAIN requests : requests[i].task # r.task
    BY <1>1 DEF TypeInv, Channel, Distinct
  <2>2. \A i \in DOMAIN replies' : replies'[i].task # r.task
    BY <1>1, <1>2 DEF TypeInv, Channel, Distinct
  <2> QED
    BY <2>1, <2>2
<1> QED
  BY <1>2, <1>3 DEF Received

-----------------------------------------------------------------------------
(* What is answered is what is: FieldsAgree and CanBeStopped.              *)

Live(r) == task[r.task] # "gone"

\* Requests of the isolate before the restart are handled first.
GoneFirst ==
    /\ restarted = "no" => \A t \in Task : task[t] # "gone"
    /\ \A i, j \in DOMAIN requests : i < j /\ ~Live(requests[j]) => ~Live(requests[i])
    /\ \A i \in DOMAIN replies, j \in DOMAIN requests : Live(replies[i]) => Live(requests[j])
    /\ synced => \A j \in DOMAIN requests : Live(requests[j])

\* New requests join behind those of the isolate before, which the handler takes first.
LEMMA GoneFirstStep ==
    ASSUME TypeInv, GoneFirst, [Next]_vars
    PROVE  GoneFirst'
<1>a. TypeInv'
  BY TypeStep
<1>b. /\ \A i \in DOMAIN requests : requests[i].task \in Task
      /\ \A i \in DOMAIN replies : replies[i].task \in Task
  BY Waiting DEF Request, Reply
<1> USE DEF appVars
<1>1. ASSUME NEW t \in Task, NEW m \in Method, NEW d \in Path, Asking(t, m, d)
      PROVE  GoneFirst'
  <2>1. \A u \in Task : task'[u] = "gone" <=> task[u] = "gone"
    BY <1>1, GoneStays
  <2>2. task[t] # "gone"
    BY <1>1 DEF Asking
  <2>3. PICK n \in DOMAIN requests' :
           /\ requests'[n] = [task |-> t, method |-> m, device |-> d]
           /\ \A i \in DOMAIN requests' :
                 i # n => i \in DOMAIN requests /\ requests'[i] = requests[i] /\ i < n
                          /\ i \in Nat /\ n \in Nat
    BY <1>1, AskingQueues
  <2>4. UNCHANGED <<replies, appVars>>
    BY <1>1 DEF Asking
  <2>5. Live(requests[n])'
    BY <2>1, <2>2, <2>3 DEF Live
  <2>6. /\ \A i \in DOMAIN requests' : i # n => (Live(requests[i])' <=> Live(requests[i]))
        /\ \A i \in DOMAIN replies : Live(replies[i])' <=> Live(replies[i])
    BY <1>b, <2>1, <2>3, <2>4 DEF Live
  <2>7. \A i, j \in DOMAIN requests' :
           i < j /\ ~Live(requests[j])' => ~Live(requests[i])'
    <3> SUFFICES ASSUME NEW i \in DOMAIN requests', NEW j \in DOMAIN requests',
                        i < j, ~Live(requests[j])'
                 PROVE  ~Live(requests[i])'
      OBVIOUS
    <3>1. j # n /\ i # n
      BY <2>3, <2>5
    <3> QED
      BY <2>3, <2>6, <3>1 DEF GoneFirst
  <2>8. \A i \in DOMAIN replies', j \in DOMAIN requests' :
           Live(replies[i])' => Live(requests[j])'
    BY <2>3, <2>4, <2>5, <2>6 DEF GoneFirst
  <2>9. synced' => \A j \in DOMAIN requests' : Live(requests[j])'
    BY <2>3, <2>4, <2>5, <2>6 DEF GoneFirst
  <2> QED
    BY <2>1, <2>4, <2>7, <2>8, <2>9 DEF GoneFirst
<1>2. ASSUME NEW t \in Task, NEW l \in {"invoke", "done", "delete"}, Moving(t, l)
      PROVE  GoneFirst'
  <2>1. \A u \in Task : task'[u] = "gone" <=> task[u] = "gone"
    BY <1>2, GoneStays
  <2>2. UNCHANGED <<requests, replies, appVars>>
    BY <1>2 DEF Moving, channelVars
  <2>3. /\ \A i \in DOMAIN requests : Live(requests[i])' <=> Live(requests[i])
        /\ \A i \in DOMAIN replies : Live(replies[i])' <=> Live(replies[i])
    BY <1>b, <2>1, <2>2 DEF Live
  <2> QED
    BY <2>1, <2>2, <2>3 DEF GoneFirst
<1>3. ASSUME NEW q \in Request, NEW a \in Answer, Handled(q, a)
      PROVE  GoneFirst'
  <2>1. UNCHANGED task
    BY <1>3 DEF Handled
  <2>2. /\ UNCHANGED appVars /\ 1 \in DOMAIN requests /\ q = requests[1]
    BY <1>3 DEF Handled
  <2>3. \A i \in DOMAIN requests' :
           i + 1 \in DOMAIN requests /\ i \in Nat \ {0} /\ requests'[i] = requests[i + 1]
    BY <1>3, HandledQueues
  <2>4. PICK n \in DOMAIN replies' :
           /\ n \notin DOMAIN replies
           /\ replies'[n] = [task |-> q.task, answer |-> a]
           /\ DOMAIN replies' = DOMAIN replies \cup {n}
           /\ \A i \in DOMAIN replies : replies'[i] = replies[i] /\ i < n /\ i \in Nat
           /\ n \in Nat
    BY <1>3, HandledQueues, Zenon
  <2>5. Live(replies[n])' <=> Live(requests[1])
    BY <2>1, <2>2, <2>4 DEF Live
  <2>6. /\ \A i \in DOMAIN requests' : Live(requests[i])' <=> Live(requests[i + 1])
        /\ \A i \in DOMAIN replies : Live(replies[i])' <=> Live(replies[i])
    BY <2>1, <2>3, <2>4 DEF Live
  <2>7. \A i, j \in DOMAIN requests' :
           i < j /\ ~Live(requests[j])' => ~Live(requests[i])'
    BY <2>3, <2>6 DEF GoneFirst
  <2>8. Live(requests[1]) => \A j \in DOMAIN requests' : Live(requests[j])'
    <3> SUFFICES ASSUME NEW j \in DOMAIN requests', ~Live(requests[j])'
                 PROVE  ~Live(requests[1])
      OBVIOUS
    <3>1. j + 1 \in DOMAIN requests /\ ~Live(requests[j + 1]) /\ 1 < j + 1
      BY <2>3, <2>6
    <3> QED
      BY <2>2, <3>1 DEF GoneFirst
  <2>9. \A i \in DOMAIN replies', j \in DOMAIN requests' :
           Live(replies[i])' => Live(requests[j])'
    BY <2>3, <2>4, <2>5, <2>6, <2>8 DEF GoneFirst
  <2>10. synced' => \A j \in DOMAIN requests' : Live(requests[j])'
    BY <2>2, <2>3, <2>6 DEF GoneFirst
  <2> QED
    BY <2>1, <2>2, <2>7, <2>9, <2>10 DEF GoneFirst
<1>4. ASSUME NEW r \in Reply, Received(r)
      PROVE  GoneFirst'
  <2>1. \A u \in Task : task'[u] = "gone" <=> task[u] = "gone"
    BY <1>4, GoneStays
  <2>2. /\ UNCHANGED <<requests, restarted>>
        /\ 1 \in DOMAIN replies /\ r = replies[1]
        /\ synced' => synced \/ Live(r)
    <3>1. synced' => synced \/ task[r.task] = "isRecording"
      BY <1>4 DEF Received, QueryReturns
    <3> QED
      BY <1>4, <3>1 DEF Received, Live
  <2>3. \A i \in DOMAIN replies' : i + 1 \in DOMAIN replies /\ replies'[i] = replies[i + 1]
    BY <1>4, ReceivedQueues
  <2>4. /\ \A i \in DOMAIN requests : Live(requests[i])' <=> Live(requests[i])
        /\ \A i \in DOMAIN replies' : Live(replies[i])' <=> Live(replies[i + 1])
    BY <1>b, <2>1, <2>2, <2>3 DEF Live
  <2> QED
    BY <2>1, <2>2, <2>3, <2>4 DEF GoneFirst
<1>5. CASE Restart
  <2>1. /\ restarted' # "no" /\ synced' = FALSE /\ replies' = <<>>
        /\ requests' \in {requests, <<>>}
        /\ task' = [t \in Task |-> IF task[t] \in {"new", "done"} THEN task[t] ELSE "gone"]
    BY <1>5 DEF Restart
  <2>2. \A i \in DOMAIN requests : task'[requests[i].task] = "gone"
    BY <2>1, Waiting DEF Request, Method
  <2>3. \A i \in DOMAIN requests' : ~Live(requests[i])'
    BY <2>1, <2>2, NoneWaits DEF Live
  <2> QED
    BY <2>1, <2>3, NoneWaits DEF GoneFirst
<1>6. CASE UNCHANGED vars
  BY <1>6 DEF vars, channelVars, taskVars, GoneFirst, Live
<1> QED
  BY <1>1, <1>2, <1>3, <1>4, <1>5, <1>6, StepKinds

\* What _isRecording becomes with an answer.
Says(a) == a \in {"0", "-1", "-2", "true"}

\* i is the youngest answer on its way that a call awaits.
LastLive(i) ==
    /\ i \in DOMAIN replies /\ Live(replies[i])
    /\ \A j \in DOMAIN replies : j > i => ~Live(replies[j])

\* The youngest answer tells what the native side does, and without one _isRecording does.
FlagFollows ==
    refused = {} =>
        /\ \A i \in DOMAIN replies : LastLive(i) => (Says(replies[i].answer) <=> native # NoPath)
        /\ synced /\ (\A i \in DOMAIN replies : ~Live(replies[i]))
              => (_isRecording <=> native # NoPath)

\* An answer that is given tells the new state; one that is taken passes it on to the field.
LEMMA FlagFollowsStep ==
    ASSUME TypeInv, GoneFirst, FlagFollows, [Next]_vars
    PROVE  FlagFollows'
<1>b. \A i \in DOMAIN replies : replies[i].task \in Task
  BY Waiting DEF Reply
<1> USE DEF clientVars, nativeVars, appVars
<1>1. ASSUME UNCHANGED <<clientVars, refused, replies, native, appVars>>,
             \A u \in Task : task'[u] = "gone" <=> task[u] = "gone"
      PROVE  FlagFollows'
  <2>1. \A i \in DOMAIN replies : Live(replies[i])' <=> Live(replies[i])
    BY <1>b, <1>1 DEF Live
  <2>2. \A i : LastLive(i)' <=> LastLive(i)
    BY <1>1, <2>1 DEF LastLive
  <2> QED
    BY <1>1, <2>1, <2>2 DEF FlagFollows
<1>2. ASSUME NEW q \in Request, NEW a \in Answer, Handled(q, a)
      PROVE  FlagFollows'
  <2> SUFFICES ASSUME refused' = {}
               PROVE  /\ \A i \in DOMAIN replies' :
                            LastLive(i)' => (Says(replies'[i].answer) <=> native' # NoPath)
                      /\ synced' /\ (\A i \in DOMAIN replies' : ~Live(replies[i])')
                            => (_isRecording' <=> native' # NoPath)
    BY DEF FlagFollows
  <2>1. /\ UNCHANGED <<task, clientVars, appVars>> /\ 1 \in DOMAIN requests /\ q = requests[1]
    BY <1>2 DEF Handled
  <2>2. refused = {} /\ (Says(a) <=> native' # NoPath)
    <3>1. q.task \in Task
      BY DEF Request
    <3> QED
      BY <1>2, <3>1, ClientAssumption DEF Handled, RecordingStarts, StartRefused,
         RecordingEnds,
         StateTold, Says
  <2>3. PICK n \in DOMAIN replies' :
           /\ replies'[n] = [task |-> q.task, answer |-> a]
           /\ DOMAIN replies' = DOMAIN replies \cup {n}
           /\ \A i \in DOMAIN replies : replies'[i] = replies[i] /\ i < n /\ i \in Nat
           /\ n \in Nat
    BY <1>2, HandledQueues
  <2>4. Live(replies[n])' <=> Live(q)
    BY <2>1, <2>3 DEF Live
  <2>5. CASE Live(q)
    <3>1. \A i : LastLive(i)' => i = n
      BY <2>3, <2>4, <2>5 DEF LastLive
    <3> QED
      BY <2>2, <2>3, <2>4, <2>5, <3>1
  <2>6. CASE ~Live(q)
    <3>1. ~synced /\ \A i \in DOMAIN replies : ~Live(replies[i])
      BY <2>1, <2>6 DEF GoneFirst
    <3>2. \A i \in DOMAIN replies' : ~Live(replies[i])'
      BY <2>1, <2>3, <2>4, <2>6, <3>1 DEF Live
    <3> QED
      BY <2>1, <3>1, <3>2 DEF LastLive
  <2> QED
    BY <2>5, <2>6
<1>3. ASSUME NEW r \in Reply, Received(r)
      PROVE  FlagFollows'
  <2> SUFFICES ASSUME refused' = {}
               PROVE  /\ \A i \in DOMAIN replies' :
                            LastLive(i)' => (Says(replies'[i].answer) <=> native' # NoPath)
                      /\ synced' /\ (\A i \in DOMAIN replies' : ~Live(replies[i])')
                            => (_isRecording' <=> native' # NoPath)
    BY DEF FlagFollows
  <2>1. \A u \in Task : task'[u] = "gone" <=> task[u] = "gone"
    BY <1>3, GoneStays
  <2>2. /\ refused = {} /\ native' = native
        /\ 1 \in DOMAIN replies /\ r = replies[1]
    BY <1>3 DEF Received
  <2>3. /\ \A i \in DOMAIN replies' :
              i + 1 \in DOMAIN replies /\ i \in Nat \ {0} /\ replies'[i] = replies[i + 1]
        /\ \A i \in DOMAIN replies : i # 1 =>
              i - 1 \in DOMAIN replies' /\ replies'[i - 1] = replies[i] /\ i > 1 /\ i \in Nat
    BY <1>3, ReceivedQueues
  <2>4. \A i \in DOMAIN replies' : Live(replies[i])' <=> Live(replies[i + 1])
    BY <1>b, <2>1, <2>3 DEF Live
  <2>5. \A i \in DOMAIN replies : i # 1 => (Live(replies[i - 1])' <=> Live(replies[i]))
    BY <1>b, <2>1, <2>3 DEF Live
  <2>6. ASSUME NEW i \in DOMAIN replies', LastLive(i)'
        PROVE  Says(replies'[i].answer) <=> native' # NoPath
    <3>1. i + 1 \in DOMAIN replies /\ Live(replies[i + 1]) /\ i \in Nat \ {0}
      BY <2>3, <2>4, <2>6 DEF LastLive
    <3>2. ASSUME NEW j \in DOMAIN replies, j > i + 1 PROVE ~Live(replies[j])
      <4>1. j # 1 /\ j - 1 \in DOMAIN replies' /\ j - 1 > i
        BY <2>3, <3>1, <3>2
      <4> QED
        BY <2>5, <2>6, <4>1 DEF LastLive
    <3>3. LastLive(i + 1)
      BY <3>1, <3>2 DEF LastLive
    <3> QED
      BY <2>2, <2>3, <3>1, <3>3 DEF FlagFollows
  <2>7. ASSUME synced', \A i \in DOMAIN replies' : ~Live(replies[i])'
        PROVE  _isRecording' <=> native' # NoPath
    <3>1. \A i \in DOMAIN replies : i # 1 => ~Live(replies[i])
      BY <2>3, <2>5, <2>7
    <3>2. CASE Live(r)
      <4>1. \A j \in DOMAIN replies : j > 1 => ~Live(replies[j])
        BY <3>1
      <4>2. LastLive(1)
        BY <2>2, <3>2, <4>1 DEF LastLive
      <4>3. _isRecording' <=> Says(r.answer)
        <5>1. CASE r.answer \in {"0", "-1", "-2"} /\ StartReturns(r.task)
          BY <5>1 DEF Says, StartReturns
        <5>2. CASE r.answer \in {"path", "null"} /\ StopReturns(r.task, r.answer)
          BY <5>2 DEF Says, StopReturns
        <5>3. CASE r.answer \in {"true", "false"} /\ QueryReturns(r.task, r.answer)
          BY <5>3 DEF Says, QueryReturns
        <5> QED
          BY <1>3, <3>2, <5>1, <5>2, <5>3 DEF Received, Live
      <4> QED
        BY <2>2, <4>2, <4>3 DEF FlagFollows
    <3>3. CASE ~Live(r)
      <4>1. UNCHANGED <<_isRecording, synced>>
        BY <1>3, <3>3 DEF Received, Live, StartReturns, StopReturns, QueryReturns
      <4>2. \A i \in DOMAIN replies : ~Live(replies[i])
        BY <2>2, <3>1, <3>3
      <4> QED
        BY <2>2, <2>7, <4>1, <4>2 DEF FlagFollows
    <3> QED
      BY <3>2, <3>3
  <2> QED
    BY <2>6, <2>7
<1>4. CASE Restart
  <2>1. replies' = <<>> /\ synced' = FALSE
    BY <1>4 DEF Restart
  <2> QED
    BY <2>1, NoneWaits DEF FlagFollows
<1>5. ASSUME NEW t \in Task, NEW m \in Method, NEW d \in Path, Asking(t, m, d)
      PROVE  FlagFollows'
  BY <1>1, <1>5, GoneStays DEF Asking
<1>6. ASSUME NEW t \in Task, NEW l \in {"invoke", "done", "delete"}, Moving(t, l)
      PROVE  FlagFollows'
  BY <1>1, <1>6, GoneStays DEF Moving, channelVars
<1>7. CASE UNCHANGED vars
  BY <1>1, <1>7 DEF vars, taskVars, channelVars
<1> QED
  BY <1>2, <1>3, <1>4, <1>5, <1>6, <1>7, StepKinds

\* i is the youngest answer that changes the path and the device.
Moves(r) == MethodOf(r.answer) # "isRecording"

LastMove(i) ==
    /\ i \in DOMAIN replies /\ Moves(replies[i])
    /\ \A j \in DOMAIN replies : j > i => ~Moves(replies[j])

\* An answer joins the queue: what is the last one of it to move the path, and to be awaited.
LEMMA LastWhenHandled ==
    ASSUME TypeInv, NEW q \in Request, NEW a \in Answer, Handled(q, a)
    PROVE  \E n \in DOMAIN replies' :
              /\ replies'[n] = [task |-> q.task, answer |-> a] /\ replies' # <<>>
              /\ task[q.task] # "gone" => \A i : LastLive(i)' => i = n
              /\ q.method # "isRecording" =>
                    /\ \A i : LastMove(i)' => i = n
                    /\ \E i \in DOMAIN replies' : Moves(replies'[i])
              /\ q.method = "isRecording" =>
                    /\ \A i : LastMove(i)' => LastMove(i) /\ replies'[i] = replies[i]
                    /\ (\A i \in DOMAIN replies' : ~Moves(replies'[i]))
                          => \A i \in DOMAIN replies : ~Moves(replies[i])
<1>1. PICK n \in DOMAIN replies' :
         /\ n \notin DOMAIN replies
         /\ replies'[n] = [task |-> q.task, answer |-> a]
         /\ DOMAIN replies' = DOMAIN replies \cup {n}
         /\ \A i \in DOMAIN replies : replies'[i] = replies[i] /\ i < n /\ i \in Nat
         /\ n \in Nat
  BY HandledQueues
<1>2. (q.method # "isRecording") <=> Moves(replies'[n])
  BY <1>1 DEF Handled, Moves
<1>3. task'[q.task] = task[q.task]
  BY DEF Handled
<1>4. ASSUME task[q.task] # "gone" PROVE \A i : LastLive(i)' => i = n
  BY <1>1, <1>3, <1>4 DEF LastLive, Live
<1>5. ASSUME Moves(replies'[n]) PROVE \A i : LastMove(i)' => i = n
  BY <1>1, <1>5 DEF LastMove, Moves
<1>6. ASSUME ~Moves(replies'[n]), NEW i, LastMove(i)'
      PROVE  LastMove(i) /\ replies'[i] = replies[i]
  <2>1. i \in DOMAIN replies /\ replies'[i] = replies[i]
    BY <1>1, <1>6 DEF LastMove, Moves
  <2> QED
    BY <1>1, <1>6, <2>1 DEF LastMove, Moves
<1>7. replies' # <<>>
  BY <1>1, NoneWaits
<1> QED
  BY <1>1, <1>2, <1>4, <1>5, <1>6, <1>7

\* An answer leaves it.
LEMMA LastWhenReceived ==
    ASSUME TypeInv, NEW r \in Reply, Received(r)
    PROVE  /\ \A i : LastMove(i)' => LastMove(i + 1) /\ replies'[i] = replies[i + 1]
           /\ (\A i \in DOMAIN replies' : ~Moves(replies'[i])) =>
                 /\ Moves(r) => LastMove(1)
                 /\ ~Moves(r) => \A i \in DOMAIN replies : ~Moves(replies[i])
           /\ \A i : LastLive(i)' => LastLive(i + 1) /\ replies'[i] = replies[i + 1]
           /\ replies' = <<>> /\ Live(r) => LastLive(1)
<1>1. /\ \A i \in DOMAIN replies' :
            i + 1 \in DOMAIN replies /\ i \in Nat \ {0} /\ replies'[i] = replies[i + 1]
      /\ \A i \in DOMAIN replies : i # 1 =>
            i - 1 \in DOMAIN replies' /\ replies'[i - 1] = replies[i] /\ i > 1 /\ i \in Nat
  BY ReceivedQueues
<1>2. 1 \in DOMAIN replies /\ r = replies[1]
  BY DEF Received
<1>3. \A i \in DOMAIN replies : task'[replies[i].task] = "gone" <=> task[replies[i].task] = "gone"
  BY GoneStays, Waiting DEF Reply
<1>4. ASSUME NEW i, LastMove(i)' PROVE LastMove(i + 1) /\ replies'[i] = replies[i + 1]
  <2>1. i + 1 \in DOMAIN replies /\ Moves(replies[i + 1]) /\ i \in Nat \ {0}
        /\ replies'[i] = replies[i + 1]
    BY <1>1, <1>4 DEF LastMove, Moves
  <2>2. ASSUME NEW j \in DOMAIN replies, j > i + 1 PROVE ~Moves(replies[j])
    <3>1. j # 1 /\ j - 1 \in DOMAIN replies' /\ j - 1 > i /\ replies'[j - 1] = replies[j]
      BY <1>1, <2>1, <2>2
    <3> QED
      BY <1>4, <3>1 DEF LastMove, Moves
  <2> QED
    BY <2>1, <2>2 DEF LastMove
<1>5. ASSUME NEW i, LastLive(i)' PROVE LastLive(i + 1) /\ replies'[i] = replies[i + 1]
  <2>1. i + 1 \in DOMAIN replies /\ Live(replies[i + 1]) /\ i \in Nat \ {0}
        /\ replies'[i] = replies[i + 1]
    BY <1>1, <1>3, <1>5 DEF LastLive, Live
  <2>2. ASSUME NEW j \in DOMAIN replies, j > i + 1 PROVE ~Live(replies[j])
    <3>1. j # 1 /\ j - 1 \in DOMAIN replies' /\ j - 1 > i /\ replies'[j - 1] = replies[j]
      BY <1>1, <2>1, <2>2
    <3> QED
      BY <1>3, <1>5, <3>1 DEF LastLive, Live
  <2> QED
    BY <2>1, <2>2 DEF LastLive
<1>6. ASSUME \A i \in DOMAIN replies' : ~Moves(replies'[i])
      PROVE  \A i \in DOMAIN replies : i # 1 => ~Moves(replies[i])
  BY <1>1, <1>6
<1>7. ASSUME replies' = <<>>, Live(r) PROVE LastLive(1)
  <2>1. \A i \in DOMAIN replies : ~(i > 1)
    BY <1>1, <1>7, NoneWaits
  <2> QED
    BY <1>2, <1>7, <2>1 DEF LastLive
<1>8. ASSUME \A i \in DOMAIN replies' : ~Moves(replies'[i]), Moves(r)
      PROVE  LastMove(1)
  BY <1>2, <1>6, <1>8 DEF LastMove
<1> QED
  BY <1>2, <1>4, <1>5, <1>6, <1>7, <1>8

Told(r) == IF MethodOf(r.answer) = "startRecording" THEN r.task ELSE NoPath

PathFollows ==
    (refused = {} /\ restarted = "no") =>
        /\ \A i \in DOMAIN replies : LastMove(i) => Told(replies[i]) = native
        /\ (\A i \in DOMAIN replies : ~Moves(replies[i]))
              => _currentRecordingPath = native /\ _currentDeviceId = native

\* The same for the path and the device, which only starts and stops move.
LEMMA PathFollowsStep ==
    ASSUME TypeInv, GoneFirst, PathFollows, [Next]_vars
    PROVE  PathFollows'
<1> SUFFICES ASSUME refused' = {}, restarted' = "no"
             PROVE  /\ \A i \in DOMAIN replies' : LastMove(i)' => Told(replies'[i]) = native'
                    /\ (\A i \in DOMAIN replies' : ~Moves(replies'[i])) =>
                          _currentRecordingPath' = native' /\ _currentDeviceId' = native'
  BY DEF PathFollows, Told, Moves
<1> USE DEF clientVars, appVars
<1>1. ASSUME UNCHANGED <<clientVars, refused, replies, native, appVars>>
      PROVE  PathFollows'
  BY <1>1 DEF PathFollows, LastMove, Moves, Told
<1>2. ASSUME NEW q \in Request, NEW a \in Answer, Handled(q, a)
      PROVE  PathFollows'
  <2>1. UNCHANGED <<clientVars, appVars>>
    BY <1>2 DEF Handled
  <2>2. PICK n \in DOMAIN replies' :
           /\ replies'[n] = [task |-> q.task, answer |-> a] /\ replies' # <<>>
           /\ task[q.task] # "gone" => \A i : LastLive(i)' => i = n
           /\ q.method # "isRecording" =>
                 /\ \A i : LastMove(i)' => i = n
                 /\ \E i \in DOMAIN replies' : Moves(replies'[i])
           /\ q.method = "isRecording" =>
                 /\ \A i : LastMove(i)' => LastMove(i) /\ replies'[i] = replies[i]
                 /\ (\A i \in DOMAIN replies' : ~Moves(replies'[i]))
                       => \A i \in DOMAIN replies : ~Moves(replies[i])
    BY <1>2, LastWhenHandled
  <2>3. CASE q.method = "isRecording"
    <3>1. UNCHANGED <<native, refused>>
      BY <1>2, <2>3 DEF Handled, StateTold, nativeVars
    <3> QED
      BY <2>1, <2>2, <2>3, <3>1 DEF PathFollows, LastMove, Moves, Told
  <2>4. CASE q.method # "isRecording"
    <3>1. Told(replies'[n]) = native'
      BY <1>2, <2>2, <2>4 DEF Handled, RecordingStarts, StartRefused, RecordingEnds, Told
    <3> QED
      BY <2>2, <2>4, <3>1 DEF PathFollows, Moves, Told
  <2> QED
    BY <2>3, <2>4
<1>3. ASSUME NEW r \in Reply, Received(r)
      PROVE  PathFollows'
  <2>1. refused = {} /\ restarted = "no" /\ native' = native /\ r = replies[1]
        /\ 1 \in DOMAIN replies
    BY <1>3 DEF Received, nativeVars
  <2>2. task[r.task] # "gone"
    BY <2>1 DEF GoneFirst, Reply
  <2>3. /\ Moves(r) => _currentRecordingPath' = Told(r) /\ _currentDeviceId' = Told(r)
        /\ ~Moves(r) => UNCHANGED <<_currentRecordingPath, _currentDeviceId>>
    <3>1. CASE r.answer \in {"0", "-1", "-2"} /\ StartReturns(r.task)
      BY <3>1 DEF Moves, Told, MethodOf, StartReturns
    <3>2. CASE r.answer \in {"path", "null"} /\ StopReturns(r.task, r.answer)
      BY <3>2 DEF Moves, Told, MethodOf, StopReturns
    <3>3. CASE r.answer \in {"true", "false"} /\ QueryReturns(r.task, r.answer)
      BY <3>3 DEF Moves, Told, MethodOf, QueryReturns
    <3> QED
      BY <1>3, <2>2, <3>1, <3>2, <3>3 DEF Received
  <2>4. /\ \A i : LastMove(i)' => LastMove(i + 1) /\ replies'[i] = replies[i + 1]
        /\ (\A i \in DOMAIN replies' : ~Moves(replies'[i])) =>
              /\ Moves(r) => LastMove(1)
              /\ ~Moves(r) => \A i \in DOMAIN replies : ~Moves(replies[i])
    BY <1>3, LastWhenReceived
  <2>5. \A i : LastMove(i) => i \in DOMAIN replies
    BY DEF LastMove
  <2> QED
    BY <2>1, <2>3, <2>4, <2>5 DEF PathFollows, Moves, Told
<1>4. CASE Restart
  BY <1>4 DEF Restart
<1>5. ASSUME NEW t \in Task, NEW m \in Method, NEW d \in Path, Asking(t, m, d)
      PROVE  PathFollows'
  BY <1>1, <1>5 DEF Asking, nativeVars
<1>6. ASSUME NEW t \in Task, NEW l \in {"invoke", "done", "delete"}, Moving(t, l)
      PROVE  PathFollows'
  BY <1>1, <1>6 DEF Moving, channelVars
<1>7. ASSUME UNCHANGED vars PROVE PathFollows'
  BY <1>1, <1>7 DEF vars, taskVars, channelVars, nativeVars
<1> QED
  BY <1>2, <1>3, <1>4, <1>5, <1>6, <1>7, StepKinds DEF PathFollows, Moves, Told

\* With starts refused, half of it: what is recorded is known to be, and some device.
Stoppable ==
    (restarted = "no" /\ native # NoPath) =>
        /\ \A i \in DOMAIN replies : LastLive(i) => Says(replies[i].answer)
        /\ replies = <<>> => _isRecording
        /\ \A i \in DOMAIN replies : LastMove(i) => Told(replies[i]) # NoPath
        /\ (\A i \in DOMAIN replies : ~Moves(replies[i])) => _currentDeviceId # NoPath

\* A refused start overwrites the device with another, never with none.
LEMMA StoppableStep ==
    ASSUME TypeInv, GoneFirst, Stoppable, [Next]_vars
    PROVE  Stoppable'
<1> USE DEF clientVars, appVars
<1>a. ASSUME restarted' = "no" PROVE restarted = "no"
  <2>1. CASE Restart
    BY <1>a, <2>1 DEF Restart
  <2> QED
    BY <1>a, <2>1, StepKinds DEF Asking, Moving, Handled, Received, vars
<1>1. ASSUME UNCHANGED <<clientVars, replies, native, appVars>>,
             \A u \in Task : task'[u] = "gone" <=> task[u] = "gone"
      PROVE  Stoppable'
  <2>1. \A i \in DOMAIN replies : Live(replies[i])' <=> Live(replies[i])
    BY <1>1, Waiting DEF Live, Reply
  <2>2. \A i : LastLive(i)' <=> LastLive(i)
    BY <1>1, <2>1 DEF LastLive
  <2> QED
    BY <1>1, <2>2 DEF Stoppable, LastMove
<1>2. ASSUME NEW q \in Request, NEW a \in Answer, Handled(q, a)
      PROVE  Stoppable'
  <2> SUFFICES ASSUME restarted' = "no", native' # NoPath
               PROVE  /\ \A i \in DOMAIN replies' : LastLive(i)' => Says(replies'[i].answer)
                      /\ replies' = <<>> => _isRecording'
                      /\ \A i \in DOMAIN replies' : LastMove(i)' => Told(replies'[i]) # NoPath
                      /\ (\A i \in DOMAIN replies' : ~Moves(replies'[i]))
                            => _currentDeviceId' # NoPath
    BY DEF Stoppable, Says, Told, Moves
  <2>1. UNCHANGED <<clientVars, appVars>> /\ restarted = "no" /\ q.task \in Task
    BY <1>2 DEF Handled, Request
  <2>2. task[q.task] # "gone"
    BY <2>1 DEF GoneFirst
  <2>3. PICK n \in DOMAIN replies' :
           /\ replies'[n] = [task |-> q.task, answer |-> a] /\ replies' # <<>>
           /\ task[q.task] # "gone" => \A i : LastLive(i)' => i = n
           /\ q.method # "isRecording" =>
                 /\ \A i : LastMove(i)' => i = n
                 /\ \E i \in DOMAIN replies' : Moves(replies'[i])
           /\ q.method = "isRecording" =>
                 /\ \A i : LastMove(i)' => LastMove(i) /\ replies'[i] = replies[i]
                 /\ (\A i \in DOMAIN replies' : ~Moves(replies'[i]))
                       => \A i \in DOMAIN replies : ~Moves(replies[i])
    BY <1>2, LastWhenHandled
  <2>4. Says(a)
    BY <1>2 DEF Handled, RecordingStarts, StartRefused, RecordingEnds, StateTold,
       nativeVars, Says
  <2>5. CASE q.method = "isRecording"
    <3>1. native # NoPath
      BY <1>2, <2>5 DEF Handled, StateTold, nativeVars
    <3>2. \A i : LastMove(i) => i \in DOMAIN replies
      BY DEF LastMove
    <3> QED
      BY <2>1, <2>2, <2>3, <2>4, <2>5, <3>1, <3>2 DEF Stoppable
  <2>6. CASE q.method # "isRecording"
    <3>1. q.method = "startRecording" /\ MethodOf(a) = "startRecording"
      BY <1>2, <2>6 DEF Handled, RecordingEnds
    <3>2. Told(replies'[n]) # NoPath
      BY <2>1, <2>3, <3>1, ClientAssumption DEF Told
    <3> QED
      BY <2>2, <2>3, <2>4, <2>6, <3>2
  <2> QED
    BY <2>5, <2>6
<1>3. ASSUME NEW r \in Reply, Received(r)
      PROVE  Stoppable'
  <2> SUFFICES ASSUME restarted' = "no", native' # NoPath
               PROVE  /\ \A i \in DOMAIN replies' : LastLive(i)' => Says(replies'[i].answer)
                      /\ replies' = <<>> => _isRecording'
                      /\ \A i \in DOMAIN replies' : LastMove(i)' => Told(replies'[i]) # NoPath
                      /\ (\A i \in DOMAIN replies' : ~Moves(replies'[i]))
                            => _currentDeviceId' # NoPath
    BY DEF Stoppable, Says, Told, Moves
  <2>1. restarted = "no" /\ native # NoPath /\ r = replies[1] /\ 1 \in DOMAIN replies
    BY <1>3 DEF Received, nativeVars
  <2>2. task[r.task] # "gone" /\ Live(r)
    BY <2>1 DEF GoneFirst, Reply, Live
  <2>3. /\ Moves(r) => _currentDeviceId' = Told(r)
        /\ ~Moves(r) => UNCHANGED _currentDeviceId
        /\ _isRecording' <=> Says(r.answer)
    <3>1. CASE r.answer \in {"0", "-1", "-2"} /\ StartReturns(r.task)
      BY <3>1 DEF Moves, Told, MethodOf, StartReturns, Says
    <3>2. CASE r.answer \in {"path", "null"} /\ StopReturns(r.task, r.answer)
      BY <3>2 DEF Moves, Told, MethodOf, StopReturns, Says
    <3>3. CASE r.answer \in {"true", "false"} /\ QueryReturns(r.task, r.answer)
      BY <3>3 DEF Moves, Told, MethodOf, QueryReturns, Says
    <3> QED
      BY <1>3, <2>2, <3>1, <3>2, <3>3 DEF Received
  <2>4. /\ \A i : LastMove(i)' => LastMove(i + 1) /\ replies'[i] = replies[i + 1]
        /\ (\A i \in DOMAIN replies' : ~Moves(replies'[i])) =>
              /\ Moves(r) => LastMove(1)
              /\ ~Moves(r) => \A i \in DOMAIN replies : ~Moves(replies[i])
        /\ \A i : LastLive(i)' => LastLive(i + 1) /\ replies'[i] = replies[i + 1]
        /\ replies' = <<>> /\ Live(r) => LastLive(1)
    BY <1>3, LastWhenReceived
  <2>5. \A i : (LastMove(i) => i \in DOMAIN replies) /\ (LastLive(i) => i \in DOMAIN replies)
    BY DEF LastMove, LastLive
  <2>6. /\ \A i \in DOMAIN replies : LastLive(i) => Says(replies[i].answer)
        /\ \A i \in DOMAIN replies : LastMove(i) => Told(replies[i]) # NoPath
        /\ (\A i \in DOMAIN replies : ~Moves(replies[i])) => _currentDeviceId # NoPath
    BY <2>1 DEF Stoppable
  <2> QED
    BY <2>1, <2>2, <2>3, <2>4, <2>5, <2>6
<1>4. CASE Restart
  BY <1>4 DEF Restart, Stoppable
<1>5. ASSUME NEW t \in Task, NEW m \in Method, NEW d \in Path, Asking(t, m, d)
      PROVE  Stoppable'
  BY <1>1, <1>5, GoneStays DEF Asking, nativeVars
<1>6. ASSUME NEW t \in Task, NEW l \in {"invoke", "done", "delete"}, Moving(t, l)
      PROVE  Stoppable'
  BY <1>1, <1>6, GoneStays DEF Moving, channelVars
<1>7. CASE UNCHANGED vars
  BY <1>1, <1>7 DEF vars, taskVars, channelVars, nativeVars
<1> QED
  BY <1>2, <1>3, <1>4, <1>5, <1>6, <1>7, StepKinds

ChannelInv == TypeInv /\ GoneFirst /\ FlagFollows /\ PathFollows /\ Stoppable

\* Nothing is recorded and no field says so.
LEMMA ChannelInit == Init => ChannelInv
<1>1. Init => DOMAIN replies = {} /\ DOMAIN requests = {}
  BY NoneWaits DEF Init
<1> QED
  BY <1>1, TypeInit DEF ChannelInv, Init, GoneFirst, FlagFollows, PathFollows, Stoppable

\* The lemmas together.
LEMMA ChannelInductive == Spec => []ChannelInv
<1>1. Init => ChannelInv
  BY ChannelInit
<1>2. ChannelInv /\ [Next]_vars => ChannelInv'
  BY TypeStep, GoneFirstStep, FlagFollowsStep, PathFollowsStep, StoppableStep DEF ChannelInv
<1> QED
  BY <1>1, <1>2, PTL DEF Spec

\* At rest nobody awaits an answer.
LEMMA RestsAnswered ==
    ASSUME TypeInv, GoneFirst, AtRest
    PROVE  /\ \A i \in DOMAIN replies : ~Live(replies[i])
           /\ restarted = "no" => replies = <<>>
<1>1. \A i \in DOMAIN replies : task[replies[i].task] = "gone" /\ replies[i].task \in Task
  BY Waiting DEF AtRest, Underway, Reply, Method
<1>2. replies = <<>> \/ 1 \in DOMAIN replies
  BY DEF TypeInv, TypeOK
<1> QED
  BY <1>1, <1>2 DEF Live, GoneFirst

\* The fields say at rest what the native side does, if no start was refused: the youngest
\* answer on its way tells it, so the fields do when there is none.
THEOREM FieldsTellTheTruth == Spec => []FieldsAgree
<1>1. ChannelInv => FieldsAgree
  <2> SUFFICES ASSUME ChannelInv, AtRest, refused = {}, synced
               PROVE  /\ _isRecording = (native # NoPath)
                      /\ restarted = "no" =>
                            _currentRecordingPath = native /\ _currentDeviceId = native
    BY DEF FieldsAgree
  <2>1. /\ \A i \in DOMAIN replies : ~Live(replies[i])
        /\ restarted = "no" => replies = <<>>
    BY RestsAnswered DEF ChannelInv
  <2>2. _isRecording <=> native # NoPath
    BY <2>1 DEF ChannelInv, FlagFollows
  <2>3. _isRecording \in BOOLEAN
    BY DEF ChannelInv, TypeInv, TypeOK
  <2>4. restarted = "no" => _currentRecordingPath = native /\ _currentDeviceId = native
    BY <2>1, NoneWaits DEF ChannelInv, PathFollows
  <2> QED
    BY <2>2, <2>3, <2>4
<1> QED
  BY <1>1, ChannelInductive, PTL

\* A recording in progress can be stopped, whatever calls have overlapped before.
THEOREM RecordingsCanBeStopped == Spec => []CanBeStopped
<1>1. ChannelInv => CanBeStopped
  BY RestsAnswered, NoneWaits DEF ChannelInv, Stoppable, CanBeStopped
<1> QED
  BY <1>1, ChannelInductive, PTL

-----------------------------------------------------------------------------
(* Starts that overlap with nothing: CancelRemoves and OnlyRecordedDraws.  *)

\* A path is recorded to once.
Paths ==
    /\ \A t \in Task : task[t] \in {"new", "invoke"} => file[t] = "none"
    /\ \A i \in DOMAIN requests :
          requests[i].method = "startRecording" => file[requests[i].task] = "none"
    /\ native # NoPath => file[native] # "none"
    /\ \A t \in Task : ended[t] # NoPath => file[ended[t]] # "none"

\* Only the start of a recording makes a file, and its path was not used before.
LEMMA PathsStep ==
    ASSUME TypeInv, Paths, [Next]_vars
    PROVE  Paths'
<1>a. /\ task \in [Task -> {"new", "invoke", "startRecording", "stopRecording",
                            "isRecording", "delete", "done", "gone"}]
      /\ file \in [Task -> {"none", "growing", "complete", "deleted"}]
      /\ ended \in [Task -> Path] /\ native \in Path
  BY DEF TypeInv, TypeOK
<1>b. \A p \in Path : p # NoPath => p \in Task
  BY DEF Path
<1>c. \A i \in DOMAIN requests : requests[i].task \in Task
  BY Waiting DEF Request
<1> USE DEF clientVars, channelVars, nativeVars, appVars
<1>1. ASSUME NEW t \in Task, NEW m \in Method, NEW d \in Path, Asking(t, m, d)
      PROVE  Paths'
  <2>1. UNCHANGED <<native, file, ended>> /\ TaskTo(t, m)
    BY <1>1 DEF Asking
  <2>2. \A u \in Task : task'[u] \in {"new", "invoke"} => file'[u] = "none"
    BY <1>a, <2>1 DEF TaskTo, Method, Paths
  <2>3. m = "startRecording" => file[t] = "none"
    BY <1>1 DEF Asking, Paths
  <2>4. \A i \in DOMAIN requests' :
           requests'[i].method = "startRecording" => file[requests'[i].task] = "none"
    BY <1>1, <2>3, AskingQueues DEF Paths
  <2> QED
    BY <2>1, <2>2, <2>4 DEF Paths
<1>2. ASSUME NEW t \in Task, NEW l \in {"invoke", "done", "delete"}, Moving(t, l)
      PROVE  Paths'
  <2>1. UNCHANGED <<native, requests, ended>> /\ TaskTo(t, l) /\ (l = "invoke" => task[t] = "new")
    BY <1>2 DEF Moving
  <2>2. \A p \in Task : file'[p] = "none" <=> file[p] = "none"
    BY <1>a, <1>2 DEF Moving
  <2>3. \A u \in Task : task'[u] \in {"new", "invoke"} => task[u] \in {"new", "invoke"}
    BY <1>a, <2>1 DEF TaskTo
  <2> QED
    BY <1>a, <1>b, <1>c, <2>1, <2>2, <2>3 DEF Paths
<1>3. ASSUME NEW q \in Request, NEW a \in Answer, Handled(q, a)
      PROVE  Paths'
  <2>1. /\ UNCHANGED task /\ q.task \in Task /\ task[q.task] \notin {"new", "invoke"}
        /\ q = requests[1] /\ 1 \in DOMAIN requests
    BY <1>3, Waiting DEF Handled, Request, Method
  <2>2. \A i \in DOMAIN requests' :
           /\ i + 1 \in DOMAIN requests /\ requests'[i] = requests[i + 1]
           /\ requests'[i].task # q.task /\ requests'[i].task \in Task
    BY <1>3, <1>c, HandledQueues
  <2>3. \A p \in Task : p # q.task => (file'[p] = "none" <=> file[p] = "none")
    BY <1>a, <1>3 DEF Handled, RecordingStarts, StartRefused, RecordingEnds, StateTold
  <2>4. \A p \in Task : file[p] # "none" => file'[p] # "none"
    BY <1>a, <1>3 DEF Handled, RecordingStarts, StartRefused, RecordingEnds, StateTold
  <2>5. native' # NoPath => file'[native'] # "none"
    <3>1. CASE native' = native
      BY <1>a, <1>b, <2>4, <3>1 DEF Paths
    <3>2. CASE RecordingStarts(q, a)
      BY <1>a, <2>1, <3>2 DEF RecordingStarts
    <3>3. CASE native' = NoPath
      BY <3>3
    <3> QED
      BY <1>3, <3>1, <3>2, <3>3 DEF Handled, StartRefused, RecordingEnds, StateTold
  <2>6. \A u \in Task : ended'[u] # NoPath => ended'[u] \in Task /\ file'[ended'[u]] # "none"
    <3>1. \A u \in Task : ended'[u] \in {ended[u], native}
      BY <1>a, <1>3 DEF Handled, RecordingStarts, StartRefused, RecordingEnds, StateTold
    <3> QED
      BY <1>a, <1>b, <2>4, <3>1 DEF Paths
  <2> QED
    BY <2>1, <2>2, <2>3, <2>5, <2>6 DEF Paths
<1>4. ASSUME NEW r \in Reply, Received(r)
      PROVE  Paths'
  <2>1. UNCHANGED <<native, file, ended, requests>>
    BY <1>4 DEF Received
  <2>2. \A u \in Task : task'[u] \in {"new", "invoke"} => task[u] \in {"new", "invoke"}
    BY <1>a, <1>4 DEF Received, StartReturns, StopReturns, QueryReturns, TaskTo
  <2> QED
    BY <2>1, <2>2 DEF Paths
<1>5. CASE Restart
  <2>1. /\ requests' \in {requests, <<>>} /\ native' \in {native, NoPath} /\ UNCHANGED <<file, ended>>
        /\ \A u \in Task : task'[u] \in {"new", "invoke"} => task[u] \in {"new", "invoke"}
    BY <1>a, <1>5 DEF Restart
  <2> QED
    BY <2>1, NoneWaits DEF Paths
<1>6. CASE UNCHANGED vars
  BY <1>6 DEF vars, taskVars, Paths
<1> QED
  BY <1>1, <1>2, <1>3, <1>4, <1>5, <1>6, StepKinds

\* A "false" on its way is still true, or a start was answered after it.
FalseIsOld ==
    \A i \in DOMAIN replies : replies[i].answer = "false" /\ native # NoPath =>
        \E j \in DOMAIN replies : j > i /\ replies[j].answer = "0" /\ replies[j].task = native

\* Only a start makes a "false" untrue, and its answer is behind it.
LEMMA FalseIsOldStep ==
    ASSUME TypeInv, FalseIsOld, [Next]_vars
    PROVE  FalseIsOld'
<1> USE DEF channelVars, nativeVars
<1>1. ASSUME UNCHANGED <<replies, native>> PROVE FalseIsOld'
  BY <1>1 DEF FalseIsOld
<1>2. ASSUME NEW q \in Request, NEW a \in Answer, Handled(q, a)
      PROVE  FalseIsOld'
  <2>1. PICK n \in DOMAIN replies' :
           /\ n \notin DOMAIN replies
           /\ replies'[n] = [task |-> q.task, answer |-> a]
           /\ DOMAIN replies' = DOMAIN replies \cup {n}
           /\ \A i \in DOMAIN replies : replies'[i] = replies[i] /\ i < n /\ i \in Nat
           /\ n \in Nat
    BY <1>2, HandledQueues
  <2>2. \/ a = "0" /\ native' = q.task
        \/ native' = NoPath
        \/ native' = native /\ a # "false"
    BY <1>2 DEF Handled, RecordingStarts, StartRefused, RecordingEnds, StateTold
  <2>3. CASE a = "0" /\ native' = q.task
    BY <2>1, <2>3 DEF FalseIsOld
  <2>4. CASE native' = NoPath
    BY <2>4 DEF FalseIsOld
  <2>5. CASE native' = native /\ a # "false"
    BY <2>1, <2>5 DEF FalseIsOld
  <2> QED
    BY <2>2, <2>3, <2>4, <2>5
<1>3. ASSUME NEW r \in Reply, Received(r)
      PROVE  FalseIsOld'
  <2>1. native' = native
    BY <1>3 DEF Received
  <2>2. /\ \A i \in DOMAIN replies' :
              i + 1 \in DOMAIN replies /\ i \in Nat \ {0} /\ replies'[i] = replies[i + 1]
        /\ \A i \in DOMAIN replies : i # 1 =>
              i - 1 \in DOMAIN replies' /\ replies'[i - 1] = replies[i] /\ i > 1 /\ i \in Nat
    BY <1>3, ReceivedQueues
  <2> SUFFICES ASSUME NEW i \in DOMAIN replies', replies'[i].answer = "false", native # NoPath
               PROVE  \E j \in DOMAIN replies' :
                         j > i /\ replies'[j].answer = "0" /\ replies'[j].task = native
    BY <2>1 DEF FalseIsOld
  <2>3. PICK j \in DOMAIN replies : j > i + 1 /\ replies[j].answer = "0" /\ replies[j].task = native
    BY <2>2 DEF FalseIsOld
  <2> QED
    BY <2>2, <2>3
<1>4. CASE Restart
  BY <1>4, NoneWaits DEF Restart, FalseIsOld
<1> QED
  BY <1>1, <1>2, <1>3, <1>4, StepKinds DEF Asking, Moving, vars

Alone == ~crossed /\ restarted = "no"

StartsAlone ==
    Alone => \A t \in Task : task[t] \in {"invoke", "startRecording"} =>
        \A u \in Task \ {t} : task[u] \notin {"invoke", "startRecording", "stopRecording"}

\* What would overlap makes crossed TRUE.
LEMMA StartsAloneStep ==
    ASSUME TypeInv, StartsAlone, [Next]_vars
    PROVE  StartsAlone' /\ (Alone' => Alone)
<1>a. task \in [Task -> {"new", "invoke", "startRecording", "stopRecording",
                         "isRecording", "delete", "done", "gone"}]
  BY DEF TypeInv, TypeOK
<1>b. /\ crossed \in BOOLEAN /\ crossed' \in BOOLEAN
      /\ Starting \in BOOLEAN /\ Stopping \in BOOLEAN
  BY TypeStep DEF TypeInv, TypeOK, Starting, Stopping
<1> DEFINE S == {"invoke", "startRecording"}
<1> DEFINE B == {"invoke", "startRecording", "stopRecording"}
<1> USE DEF clientVars, appVars
<1>1. ASSUME NEW t \in Task, NEW m \in Method, NEW d \in Path, Asking(t, m, d)
      PROVE  StartsAlone' /\ (Alone' => Alone)
  <2>1. TaskTo(t, m) /\ (Alone' => Alone)
    <3>1. restarted' = restarted /\ (~crossed' => ~crossed)
      BY <1>1, <1>b DEF Asking
    <3> QED
      BY <1>1, <3>1 DEF Asking, Alone
  <2>2. m = "startRecording" => task[t] = "invoke"
    BY <1>1 DEF Asking
  <2>3. Alone' /\ m = "stopRecording" => ~Starting
    BY <1>1 DEF Asking, Alone
  <2>4. ASSUME Alone', NEW u \in Task, NEW v \in Task, u # v, task'[u] \in S
        PROVE  task'[v] \notin B
    <3>1. CASE m = "isRecording"
      BY <1>a, <2>1, <2>4, <3>1 DEF TaskTo, StartsAlone
    <3>2. CASE m = "startRecording"
      BY <1>a, <2>1, <2>2, <2>4, <3>2 DEF TaskTo, StartsAlone
    <3>3. CASE m = "stopRecording"
      BY <1>a, <2>1, <2>3, <2>4, <3>3 DEF TaskTo, Starting
    <3> QED
      BY <3>1, <3>2, <3>3 DEF Method
  <2> QED
    BY <2>1, <2>4 DEF StartsAlone
<1>2. ASSUME NEW t \in Task, NEW l \in {"invoke", "done", "delete"}, Moving(t, l)
      PROVE  StartsAlone' /\ (Alone' => Alone)
  <2>1. TaskTo(t, l) /\ (Alone' => Alone)
    <3>1. restarted' = restarted /\ (~crossed' => ~crossed)
      BY <1>2, <1>b DEF Moving
    <3> QED
      BY <1>2, <3>1 DEF Moving, Alone
  <2>2. Alone' /\ l = "invoke" => ~Starting /\ ~Stopping
    BY <1>2 DEF Moving, Alone
  <2>3. ASSUME Alone', NEW u \in Task, NEW v \in Task, u # v, task'[u] \in S
        PROVE  task'[v] \notin B
    <3>1. CASE l = "invoke"
      BY <1>a, <2>1, <2>2, <2>3, <3>1 DEF TaskTo, Starting, Stopping
    <3>2. CASE l # "invoke"
      BY <1>a, <2>1, <2>3, <3>2 DEF TaskTo, StartsAlone
    <3> QED
      BY <3>1, <3>2
  <2> QED
    BY <2>1, <2>3 DEF StartsAlone
<1>3. ASSUME Alone' => Alone, \A u \in Task : task'[u] \in B => task'[u] = task[u]
      PROVE  StartsAlone'
  BY <1>3 DEF StartsAlone
<1>4. ASSUME NEW q \in Request, NEW a \in Answer, Handled(q, a)
      PROVE  StartsAlone' /\ (Alone' => Alone)
  <2>1. UNCHANGED task /\ (Alone' => Alone)
    BY <1>4 DEF Handled, Alone
  <2> QED
    BY <1>3, <2>1
<1>5. ASSUME NEW r \in Reply, Received(r)
      PROVE  StartsAlone' /\ (Alone' => Alone)
  <2>1. Alone' => Alone
    BY <1>5 DEF Received, Alone
  <2>2. \A u \in Task : task'[u] \in B => task'[u] = task[u]
    BY <1>a, <1>5 DEF Received, StartReturns, StopReturns, QueryReturns, TaskTo
  <2> QED
    BY <1>3, <2>1, <2>2
<1>6. CASE Restart
  BY <1>6 DEF Restart, Alone, StartsAlone
<1>7. CASE UNCHANGED vars
  BY <1>7 DEF vars, taskVars, Alone, StartsAlone
<1> QED
  BY <1>1, <1>2, <1>4, <1>5, <1>6, <1>7, StepKinds

\* A start finds nothing recorded; a stop that is to be handled carries the camera that is
\* recorded, and one that has been handled has ended the recording.
InvokesFit == \A t \in Task : task[t] = "invoke" => native = NoPath

RequestsFit ==
    \A i \in DOMAIN requests :
        /\ requests[i].method = "startRecording" => native = NoPath
        /\ requests[i].method = "stopRecording" /\ native # NoPath =>
              requests[i].device = native /\ cancels[requests[i].task] \in {"no", native}

AnswersFit ==
    \A i \in DOMAIN replies :
        /\ replies[i].answer = "0" => native = replies[i].task
        /\ replies[i].answer \in {"-2", "path", "null"} => native = NoPath
        /\ replies[i].answer # "-1"

FieldsFit ==
    native # NoPath /\ ~Starting =>
        /\ _currentRecordingPath = native /\ _currentDeviceId = native
        /\ _isRecording \/ Stopping

OneAtATime == Alone => InvokesFit /\ RequestsFit /\ AnswersFit /\ FieldsFit

\* A start alone finds the native side idle, so the fields, the requests and the answers fit.
LEMMA OneAtATimeStep ==
    ASSUME TypeInv, GoneFirst, FalseIsOld, StartsAlone, OneAtATime, [Next]_vars
    PROVE  OneAtATime'
<1> SUFFICES ASSUME Alone' PROVE InvokesFit' /\ RequestsFit' /\ AnswersFit' /\ FieldsFit'
  BY DEF OneAtATime
<1> USE DEF clientVars, channelVars, nativeVars, appVars
<1>a. Alone /\ InvokesFit /\ RequestsFit /\ AnswersFit /\ FieldsFit
  BY StartsAloneStep DEF OneAtATime
<1>b. /\ task \in [Task -> {"new", "invoke", "startRecording", "stopRecording",
                            "isRecording", "delete", "done", "gone"}]
      /\ cancels \in [Task -> Path \cup {"no"}]
  BY DEF TypeInv, TypeOK
<1>c. /\ \A i \in DOMAIN requests :
            requests[i].task \in Task /\ task[requests[i].task] = requests[i].method
      /\ \A i \in DOMAIN replies :
            replies[i].task \in Task /\ task[replies[i].task] = MethodOf(replies[i].answer)
  <2>1. \A u \in Task : task[u] # "gone"
    BY <1>a DEF Alone, GoneFirst
  <2> QED
    BY <2>1, Waiting DEF TypeInv, Channel, Awaited, Request, Reply
<1>d. \A t \in Task : task[t] \in {"invoke", "startRecording"} =>
         \A u \in Task \ {t} : task[u] \notin {"invoke", "startRecording", "stopRecording"}
  BY <1>a DEF StartsAlone
<1>1. ASSUME NEW t \in Task, NEW m \in Method, NEW d \in Path, Asking(t, m, d)
      PROVE  InvokesFit' /\ RequestsFit' /\ AnswersFit' /\ FieldsFit'
  <2>1. UNCHANGED <<clientVars, replies, native>> /\ TaskTo(t, m)
    BY <1>1 DEF Asking
  <2>2. InvokesFit'
    BY <1>a, <1>b, <2>1 DEF InvokesFit, TaskTo, Method
  <2>3. AnswersFit'
    BY <1>a, <2>1 DEF AnswersFit
  <2>4. FieldsFit'
    <3>1. CASE m = "startRecording"
      <4>1. Starting'
        BY <1>b, <2>1, <3>1 DEF TaskTo, Starting
      <4> QED
        BY <4>1 DEF FieldsFit
    <3>2. CASE m = "stopRecording"
      <4>1. ~Starting /\ Stopping'
        BY <1>b, <1>1, <2>1, <3>2 DEF Asking, TaskTo, Stopping, Alone
      <4> QED
        BY <1>a, <2>1, <4>1 DEF FieldsFit
    <3>3. CASE m = "isRecording"
      <4>1. task[t] = "new"
        BY <1>1, <3>3 DEF Asking
      <4>2. (Starting' <=> Starting) /\ (Stopping' <=> Stopping)
        BY <1>b, <2>1, <3>3, <4>1 DEF TaskTo, Starting, Stopping
      <4> QED
        BY <1>a, <2>1, <4>2 DEF FieldsFit
    <3> QED
      BY <3>1, <3>2, <3>3 DEF Method
  <2>5. RequestsFit'
    <3>1. PICK n \in DOMAIN requests' :
             /\ requests'[n] = [task |-> t, method |-> m, device |-> d]
             /\ \A i \in DOMAIN requests' :
                   i # n => i \in DOMAIN requests /\ requests'[i] = requests[i] /\ i < n
                            /\ i \in Nat /\ n \in Nat
      BY <1>1, AskingQueues
    <3>2. \A i \in DOMAIN requests : cancels'[requests[i].task] = cancels[requests[i].task]
      BY <1>b, <1>1, AskingQueues DEF Asking
    <3>3. m = "startRecording" => native = NoPath
      BY <1>a, <1>1 DEF Asking, InvokesFit
    <3>4. m = "stopRecording" /\ native # NoPath => d = native /\ cancels'[t] \in {"no", native}
      <4> SUFFICES ASSUME m = "stopRecording", native # NoPath
                   PROVE  d = native /\ cancels'[t] \in {"no", native}
        OBVIOUS
      <4>1. ~Starting
        BY <1>1 DEF Asking, Alone
      <4>2. _currentRecordingPath = native /\ _currentDeviceId = native
        BY <1>a, <4>1 DEF FieldsFit
      <4> QED
        BY <1>b, <1>1, <4>2 DEF Asking
    <3> QED
      BY <1>a, <2>1, <3>1, <3>2, <3>3, <3>4 DEF RequestsFit
  <2> QED
    BY <2>2, <2>3, <2>4, <2>5
<1>2. ASSUME NEW t \in Task, NEW l \in {"invoke", "done", "delete"}, Moving(t, l)
      PROVE  InvokesFit' /\ RequestsFit' /\ AnswersFit' /\ FieldsFit'
  <2>1. /\ UNCHANGED <<clientVars, channelVars, native>> /\ TaskTo(t, l)
        /\ task[t] \in {"new", "invoke", "delete"}
    BY <1>2 DEF Moving
  <2>2. AnswersFit'
    BY <1>a, <2>1 DEF AnswersFit
  <2>3. RequestsFit'
    <3>1. \A i \in DOMAIN requests : cancels'[requests[i].task] = cancels[requests[i].task]
      BY <1>b, <1>c, <1>2, Waiting DEF Moving, Method
    <3> QED
      BY <1>a, <2>1, <3>1 DEF RequestsFit
  <2>4. CASE l = "invoke"
    <3>1. ~Starting /\ ~Stopping /\ ~_isRecording
      BY <1>2, <2>4 DEF Moving, Alone
    <3>2. native = NoPath
      BY <1>a, <3>1 DEF FieldsFit
    <3> QED
      BY <2>1, <2>2, <2>3, <3>2 DEF InvokesFit, FieldsFit
  <2>5. CASE l # "invoke"
    <3>1. InvokesFit'
      BY <1>a, <1>b, <2>1, <2>5 DEF InvokesFit, TaskTo
    <3>2. CASE task[t] = "invoke"
      BY <1>a, <2>1, <2>2, <2>3, <3>1, <3>2 DEF InvokesFit, FieldsFit
    <3>3. CASE task[t] # "invoke"
      <4>1. (Starting' <=> Starting) /\ (Stopping' <=> Stopping)
        BY <1>b, <2>1, <2>5, <3>3 DEF TaskTo, Starting, Stopping
      <4> QED
        BY <1>a, <2>1, <2>2, <2>3, <3>1, <4>1 DEF FieldsFit
    <3> QED
      BY <3>2, <3>3
  <2> QED
    BY <2>4, <2>5
<1>3. ASSUME NEW q \in Request, NEW a \in Answer, Handled(q, a)
      PROVE  InvokesFit' /\ RequestsFit' /\ AnswersFit' /\ FieldsFit'
  <2>1. /\ UNCHANGED <<clientVars, task, cancels>> /\ q = requests[1] /\ 1 \in DOMAIN requests
        /\ q.task \in Task /\ task[q.task] = q.method
    BY <1>c, <1>3 DEF Handled
  <2>2. \A i \in DOMAIN requests' :
           /\ i + 1 \in DOMAIN requests /\ requests'[i] = requests[i + 1]
           /\ requests'[i].task \in Task \ {q.task}
    BY <1>3, <1>c, HandledQueues
  <2>3. PICK n \in DOMAIN replies' :
           /\ n \notin DOMAIN replies
           /\ replies'[n] = [task |-> q.task, answer |-> a]
           /\ DOMAIN replies' = DOMAIN replies \cup {n}
           /\ \A i \in DOMAIN replies : replies'[i] = replies[i] /\ i < n /\ i \in Nat
           /\ n \in Nat
    BY <1>3, HandledQueues
  <2>4. \A i \in DOMAIN replies : replies[i].task # q.task
    BY <1>3, HandledQueues
  <2>5. CASE q.method = "startRecording"
    <3>1. native = NoPath
      BY <1>a, <2>1, <2>5 DEF RequestsFit
    <3>2. Starting'
      BY <2>1, <2>5 DEF Starting
    <3>3. \A u \in Task \ {q.task} : task[u] \notin {"invoke", "startRecording", "stopRecording"}
      BY <1>d, <2>1, <2>5
    <3>4. InvokesFit'
      BY <2>1, <2>5, <3>3 DEF InvokesFit
    <3>5. RequestsFit'
      BY <1>c, <2>2, <3>3 DEF RequestsFit
    <3>6. \A i \in DOMAIN replies : MethodOf(replies[i].answer) \notin {"startRecording", "stopRecording"}
      BY <1>c, <2>4, <3>3
    <3>7. \A i \in DOMAIN replies : replies[i].answer \notin {"0", "-1", "-2", "path", "null"}
      BY <3>6 DEF MethodOf
    <3>8. \/ a = "0" /\ native' = q.task
          \/ a = "-2" /\ native' = NoPath
      BY <1>3, <2>5, <3>1 DEF Handled, RecordingStarts, StartRefused
    <3>9. AnswersFit'
      BY <2>3, <3>7, <3>8 DEF AnswersFit
    <3> QED
      BY <3>2, <3>4, <3>5, <3>9 DEF FieldsFit
  <2>6. CASE q.method = "stopRecording"
    <3>1. native' = NoPath /\ a \in {"path", "null"}
      BY <1>3, <2>6 DEF Handled, RecordingEnds
    <3>2. \A u \in Task : task[u] # "startRecording"
      BY <1>d, <2>1, <2>6
    <3>3. \A i \in DOMAIN replies : MethodOf(replies[i].answer) # "startRecording"
      BY <1>c, <3>2
    <3>4. AnswersFit'
      BY <2>3, <3>1, <3>3 DEF AnswersFit, MethodOf
    <3> QED
      BY <3>1, <3>4 DEF InvokesFit, RequestsFit, FieldsFit
  <2>7. CASE q.method = "isRecording"
    <3>1. native' = native /\ a \in {"true", "false"}
      BY <1>3, <2>7 DEF Handled, StateTold
    <3>2. InvokesFit' /\ FieldsFit'
      BY <1>a, <2>1, <3>1 DEF InvokesFit, FieldsFit, Starting, Stopping
    <3>3. RequestsFit'
      BY <1>a, <2>1, <2>2, <3>1 DEF RequestsFit
    <3>4. AnswersFit'
      BY <1>a, <2>3, <3>1 DEF AnswersFit
    <3> QED
      BY <3>2, <3>3, <3>4
  <2> QED
    BY <2>5, <2>6, <2>7 DEF Request, Method
<1>4. ASSUME NEW r \in Reply, Received(r)
      PROVE  InvokesFit' /\ RequestsFit' /\ AnswersFit' /\ FieldsFit'
  <2>1. /\ UNCHANGED <<requests, native, cancels>> /\ r = replies[1] /\ 1 \in DOMAIN replies
        /\ r.task \in Task /\ task[r.task] = MethodOf(r.answer)
    BY <1>c, <1>4 DEF Received
  <2>2. \A i \in DOMAIN replies' : i + 1 \in DOMAIN replies /\ replies'[i] = replies[i + 1]
    BY <1>4, ReceivedQueues
  <2>3. AnswersFit' /\ RequestsFit'
    BY <1>a, <2>1, <2>2 DEF AnswersFit, RequestsFit
  <2>4. InvokesFit'
    BY <1>a, <1>b, <1>4, <2>1 DEF InvokesFit, Received, StartReturns, StopReturns,
       QueryReturns, TaskTo
  <2>5. CASE r.answer \in {"0", "-1", "-2"} /\ StartReturns(r.task)
    <3>1. native # NoPath => native = r.task /\ _isRecording' = TRUE
             /\ _currentRecordingPath' = r.task /\ _currentDeviceId' = r.task
      BY <1>a, <2>1, <2>5 DEF AnswersFit, StartReturns
    <3> QED
      BY <2>1, <2>3, <2>4, <3>1 DEF FieldsFit
  <2>6. CASE r.answer \in {"path", "null"} /\ StopReturns(r.task, r.answer)
    BY <1>a, <2>1, <2>3, <2>4, <2>6 DEF AnswersFit, FieldsFit
  <2>7. CASE r.answer \in {"true", "false"} /\ QueryReturns(r.task, r.answer)
    <3>1. (Starting' <=> Starting) /\ (Stopping' <=> Stopping)
      BY <1>b, <2>1, <2>7 DEF QueryReturns, TaskTo, Starting, Stopping
    <3>2. native # NoPath /\ ~Starting => r.answer = "true"
      <4> SUFFICES ASSUME native # NoPath, r.answer = "false" PROVE Starting
        BY <2>7
      <4>1. PICK j \in DOMAIN replies : replies[j].answer = "0"
        BY <2>1 DEF FalseIsOld
      <4> QED
        BY <1>c, <4>1 DEF MethodOf, Starting
    <3>3. UNCHANGED <<_currentRecordingPath, _currentDeviceId>> /\ _isRecording' = (r.answer = "true")
      BY <2>7 DEF QueryReturns
    <3>4. FieldsFit'
      BY <1>a, <2>1, <3>1, <3>2, <3>3 DEF FieldsFit
    <3> QED
      BY <2>3, <2>4, <3>4
  <2>8. task[r.task] # "gone"
    BY <1>a, <2>1 DEF Alone, GoneFirst
  <2> QED
    BY <1>4, <2>5, <2>6, <2>7, <2>8 DEF Received
<1>5. ~Restart
  BY DEF Restart, Alone
<1>6. CASE UNCHANGED vars
  BY <1>a, <1>6 DEF vars, taskVars, InvokesFit, RequestsFit, AnswersFit, FieldsFit,
     Starting, Stopping
<1> QED
  BY <1>1, <1>2, <1>3, <1>4, <1>5, <1>6, StepKinds

Cancelled ==
    /\ \A t \in Task : ended[t] # NoPath => task[t] \in {"stopRecording", "delete", "done", "gone"}
    /\ \A i \in DOMAIN requests : ended[requests[i].task] = NoPath
    /\ \A t \in Task : Alone /\ ended[t] # NoPath => cancels[t] \in {"no", ended[t]}

\* The path remembered is that of the recording the stop will find.
LEMMA CancelledStep ==
    ASSUME TypeInv, StartsAlone, OneAtATime, Cancelled, [Next]_vars
    PROVE  Cancelled'
<1> USE DEF clientVars, channelVars, nativeVars, appVars
<1>a. /\ task \in [Task -> {"new", "invoke", "startRecording", "stopRecording",
                            "isRecording", "delete", "done", "gone"}]
      /\ cancels \in [Task -> Path \cup {"no"}] /\ ended \in [Task -> Path]
  BY DEF TypeInv, TypeOK
<1>b. Alone' => Alone
  BY StartsAloneStep
<1>c. \A i \in DOMAIN requests : requests[i].task \in Task
  BY Waiting DEF Request
<1>1. ASSUME NEW t \in Task, task[t] \in {"new", "invoke"}, NEW l, TaskTo(t, l), UNCHANGED ended,
             \A u \in Task \ {t} : cancels'[u] = cancels[u],
             \A i \in DOMAIN requests' : ended[requests'[i].task] = NoPath
      PROVE  Cancelled'
  <2>1. ended[t] = NoPath
    BY <1>1 DEF Cancelled
  <2> QED
    BY <1>a, <1>b, <1>1, <2>1 DEF Cancelled, TaskTo
<1>2. ASSUME NEW t \in Task, NEW m \in Method, NEW d \in Path, Asking(t, m, d)
      PROVE  Cancelled'
  <2>1. task[t] \in {"new", "invoke"} /\ TaskTo(t, m) /\ UNCHANGED ended
        /\ \A u \in Task \ {t} : cancels'[u] = cancels[u]
    BY <1>a, <1>2 DEF Asking
  <2>2. ended[t] = NoPath
    BY <2>1 DEF Cancelled
  <2>3. \A i \in DOMAIN requests' : ended[requests'[i].task] = NoPath
    BY <1>2, <2>2, AskingQueues DEF Cancelled
  <2> QED
    BY <1>1, <2>1, <2>3
<1>3. ASSUME NEW t \in Task, NEW l \in {"invoke", "done", "delete"}, Moving(t, l)
      PROVE  Cancelled'
  <2>1. TaskTo(t, l) /\ UNCHANGED <<ended, requests>>
    BY <1>3 DEF Moving
  <2>2. CASE task[t] \in {"new", "invoke"}
    <3>1. \A u \in Task \ {t} : cancels'[u] = cancels[u]
      BY <1>a, <1>3, <2>2 DEF Moving
    <3> QED
      BY <1>1, <2>1, <2>2, <3>1 DEF Cancelled
  <2>3. CASE task[t] = "delete" /\ l = "done" /\ UNCHANGED cancels
    BY <1>a, <1>b, <2>1, <2>3 DEF Cancelled, TaskTo
  <2> QED
    BY <1>3, <2>2, <2>3 DEF Moving
<1>4. ASSUME NEW q \in Request, NEW a \in Answer, Handled(q, a)
      PROVE  Cancelled'
  <2>1. /\ UNCHANGED <<task, cancels>> /\ q = requests[1] /\ 1 \in DOMAIN requests
        /\ q.task \in Task /\ task[q.task] \in {q.method, "gone"}
    BY <1>c, <1>4 DEF Handled, TypeInv, Channel, Awaited
  <2>2. \A i \in DOMAIN requests' :
           /\ i + 1 \in DOMAIN requests /\ requests'[i] = requests[i + 1]
           /\ requests'[i].task \in Task \ {q.task}
    BY <1>4, <1>c, HandledQueues
  <2>3. \A u \in Task \ {q.task} : ended'[u] = ended[u]
    BY <1>a, <1>4 DEF Handled, RecordingStarts, StartRefused, RecordingEnds, StateTold
  <2>4. \/ UNCHANGED ended
        \/ q.method = "stopRecording" /\ ended'[q.task] = native
    BY <1>a, <1>4, <2>1 DEF Handled, RecordingStarts, StartRefused, RecordingEnds, StateTold
  <2>5. \A i \in DOMAIN requests' : ended'[requests'[i].task] = NoPath
    BY <2>2, <2>3 DEF Cancelled
  <2>6. CASE UNCHANGED ended
    BY <1>b, <2>1, <2>5, <2>6 DEF Cancelled
  <2>7. CASE q.method = "stopRecording" /\ ended'[q.task] = native
    <3>1. Alone /\ native # NoPath => cancels[q.task] \in {"no", native}
      BY <2>1, <2>7 DEF OneAtATime, RequestsFit
    <3>2. \A u \in Task : ended'[u] # NoPath => task[u] \in {"stopRecording", "delete", "done", "gone"}
      BY <2>1, <2>3, <2>7 DEF Cancelled
    <3>3. \A u \in Task : Alone' /\ ended'[u] # NoPath => cancels[u] \in {"no", ended'[u]}
      BY <1>b, <2>3, <2>7, <3>1 DEF Cancelled
    <3> QED
      BY <2>1, <2>5, <3>2, <3>3 DEF Cancelled
  <2> QED
    BY <2>4, <2>6, <2>7
<1>5. ASSUME NEW r \in Reply, Received(r)
      PROVE  Cancelled'
  <2>1. /\ UNCHANGED <<cancels, ended, requests>>
        /\ \A u \in Task : task'[u] \in {task[u], "delete", "done"}
    BY <1>a, <1>5 DEF Received, StartReturns, StopReturns, QueryReturns, TaskTo
  <2> QED
    BY <1>b, <2>1 DEF Cancelled
<1>6. CASE Restart
  <2>1. /\ requests' \in {requests, <<>>} /\ UNCHANGED <<cancels, ended>>
        /\ \A u \in Task : task'[u] \in {task[u], "gone"}
    BY <1>6 DEF Restart
  <2> QED
    BY <1>b, <2>1, NoneWaits DEF Cancelled
<1>7. CASE UNCHANGED vars
  BY <1>b, <1>7 DEF vars, taskVars, Cancelled
<1> QED
  BY <1>2, <1>3, <1>4, <1>5, <1>6, <1>7, StepKinds

\* The path in the fields is that of a start that has returned; while its recording goes
\* on a stop reaches it.  So does, before it deletes anything, that of a cancelRecording.
Spared ==
    /\ native # NoPath => file[native] = "growing"
    /\ _currentRecordingPath # NoPath => task[_currentRecordingPath] = "done"
    /\ native # NoPath /\ _currentRecordingPath = native =>
          _isRecording /\ _currentDeviceId # NoPath
    /\ \A u \in Task : cancels[u] \in Task =>
          /\ task[cancels[u]] = "done"
          /\ native = cancels[u] =>
                \/ task[u] \in {"done", "gone"}
                \/ \E i \in DOMAIN requests :
                      requests[i].task = u /\ requests[i].method = "stopRecording"

\* Only a stop ends a recording, and a cancelRecording deletes after its stop was answered.
LEMMA SparedStep ==
    ASSUME TypeInv, FalseIsOld, Spared, [Next]_vars
    PROVE  Spared'
<1> USE DEF clientVars, channelVars, nativeVars, appVars
<1>a. /\ task \in [Task -> {"new", "invoke", "startRecording", "stopRecording",
                            "isRecording", "delete", "done", "gone"}]
      /\ cancels \in [Task -> Path \cup {"no"}] /\ native \in Path
      /\ _currentRecordingPath \in Path
      /\ file \in [Task -> {"none", "growing", "complete", "deleted"}]
  BY DEF TypeInv, TypeOK
<1>b. /\ \A p \in Path : p # NoPath => p \in Task
      /\ NoPath \notin Task /\ "no" \notin Task
  BY ClientAssumption DEF Path
<1>c. \A i \in DOMAIN requests : requests[i].task \in Task /\ task[requests[i].task] \in Method \cup {"gone"}
  BY Waiting DEF Request
<1>1. ASSUME NEW t \in Task, NEW m \in Method, NEW d \in Path, Asking(t, m, d)
      PROVE  Spared'
  <2>1. /\ UNCHANGED <<clientVars, native, file>> /\ TaskTo(t, m)
        /\ task[t] \in {"new", "invoke"}
    BY <1>1 DEF Asking
  <2>2. \A u \in Task : task[u] = "done" => task'[u] = "done"
    BY <1>a, <2>1 DEF TaskTo
  <2>3. \A i \in DOMAIN requests : \E j \in DOMAIN requests' :
           requests'[j].task = requests[i].task /\ requests'[j].method = requests[i].method
    <3>1. requests' = Append(requests, [task |-> t, method |-> m, device |-> d])
          /\ requests \in Seq(Request)
      BY <1>1 DEF Asking, Invoke, TypeInv, TypeOK, Request
    <3> QED
      BY <3>1
  <2>4. \E j \in DOMAIN requests' : requests'[j].task = t /\ requests'[j].method = m
    BY <1>1, AskingQueues
  <2>5. \A u \in Task \ {t} : cancels'[u] = cancels[u] /\ task'[u] = task[u]
    BY <1>a, <1>1, <2>1 DEF Asking, TaskTo
  <2>6. ASSUME NEW u \in Task, cancels'[u] \in Task
        PROVE  /\ task'[cancels'[u]] = "done"
               /\ native' = cancels'[u] =>
                     \/ task'[u] \in {"done", "gone"}
                     \/ \E i \in DOMAIN requests' :
                           requests'[i].task = u /\ requests'[i].method = "stopRecording"
    <3>1. CASE cancels'[u] = cancels[u] /\ u # t
      BY <2>1, <2>2, <2>3, <2>5, <2>6, <3>1 DEF Spared
    <3>2. CASE u = t /\ m = "stopRecording"
      <4>1. cancels'[t] = _currentRecordingPath
        BY <1>a, <1>b, <1>1, <2>6, <3>2 DEF Asking
      <4> QED
        BY <1>b, <2>2, <2>4, <2>6, <3>2, <4>1 DEF Spared
    <3>3. CASE u = t /\ m # "stopRecording"
      <4>1. cancels'[t] = cancels[t]
        BY <1>1, <3>3 DEF Asking
      <4>2. ~(native = cancels[t] /\ task[t] \notin {"done", "gone"})
        BY <1>1, <1>c, <2>1, <2>6, <3>3, <4>1 DEF Spared, Method
      <4> QED
        BY <2>1, <2>2, <2>6, <3>3, <4>1, <4>2 DEF Spared
    <3> QED
      BY <2>5, <3>1, <3>2, <3>3
  <2> QED
    BY <1>a, <1>b, <2>1, <2>2, <2>6 DEF Spared
<1>2. ASSUME NEW t \in Task, NEW l \in {"invoke", "done", "delete"}, Moving(t, l)
      PROVE  Spared'
  <2>1. /\ UNCHANGED <<clientVars, requests, native>> /\ TaskTo(t, l)
        /\ task[t] \in {"new", "invoke", "delete"}
    BY <1>2 DEF Moving
  <2>2. \A u \in Task : task[u] = "done" => task'[u] = "done"
    BY <1>a, <2>1 DEF TaskTo
  <2>3. \A u \in Task \ {t} : cancels'[u] = cancels[u] /\ task'[u] = task[u]
    BY <1>a, <1>2, <2>1 DEF Moving, TaskTo
  <2>4. \A i \in DOMAIN requests : requests[i].task # t
    BY <1>c, <2>1 DEF Method
  <2>5. cancels[t] \in Task => native # cancels[t] /\ task[cancels[t]] = "done"
    BY <2>1, <2>4 DEF Spared
  <2>6. cancels'[t] \in Task => native # cancels'[t] /\ task[cancels'[t]] = "done"
    <3>1. CASE UNCHANGED cancels
      BY <2>5, <3>1
    <3>2. ASSUME cancels'[t] \in Task, cancels'[t] = _currentRecordingPath,
                 ~_isRecording \/ _currentDeviceId = NoPath
          PROVE  native # cancels'[t] /\ task[cancels'[t]] = "done"
      BY <1>b, <3>2 DEF Spared
    <3> QED
      BY <1>a, <1>b, <1>2, <3>1, <3>2 DEF Moving
  <2>7. native # NoPath => file'[native] = "growing"
    <3>1. CASE UNCHANGED file
      BY <3>1 DEF Spared
    <3>2. CASE file' = [file EXCEPT ![cancels[t]] = IF @ = "none" THEN @ ELSE "deleted"]
      BY <1>a, <1>b, <2>5, <3>2 DEF Spared
    <3> QED
      BY <1>2, <3>1, <3>2 DEF Moving
  <2> QED
    BY <1>a, <1>b, <2>1, <2>2, <2>3, <2>6, <2>7 DEF Spared
<1>3. ASSUME NEW q \in Request, NEW a \in Answer, Handled(q, a)
      PROVE  Spared'
  <2>1. /\ UNCHANGED <<clientVars, task, cancels>> /\ q.task \in Task
        /\ task[q.task] \in Method \cup {"gone"} /\ q = requests[1]
    BY <1>3, <1>c DEF Handled
  <2>2. \A u \in Task \ {q.task} :
           (\E i \in DOMAIN requests :
               requests[i].task = u /\ requests[i].method = "stopRecording") =>
           (\E i \in DOMAIN requests' :
               requests'[i].task = u /\ requests'[i].method = "stopRecording")
    <3>1. requests' = Tail(requests) /\ requests \in Seq(Request) /\ requests # <<>>
      BY <1>3 DEF Handled, TypeInv, TypeOK, Request
    <3>2. \A i \in DOMAIN requests : i # 1 =>
             i - 1 \in DOMAIN requests' /\ requests'[i - 1] = requests[i]
      BY <3>1, Taken
    <3> QED
      BY <2>1, <3>2
  <2>3. CASE RecordingStarts(q, a)
    <3>1. native' = q.task /\ file'[q.task] = "growing"
      BY <1>a, <2>1, <2>3 DEF RecordingStarts
    <3>2. \A u \in Task : cancels[u] \in Task => cancels[u] # q.task
      BY <2>1 DEF Spared, Method
    <3>3. _currentRecordingPath # NoPath => _currentRecordingPath # q.task
      BY <2>1 DEF Spared, Method
    <3> QED
      BY <1>b, <2>1, <3>1, <3>2, <3>3 DEF Spared
  <2>4. CASE q.method = "stopRecording" /\ RecordingEnds(q, a)
    BY <1>b, <2>1, <2>4 DEF RecordingEnds, Spared
  <2>5. CASE UNCHANGED <<native, file>> /\ q.method # "stopRecording"
    <3>1. \A i \in DOMAIN requests : requests[i].task = q.task => requests[i].method # "stopRecording"
      BY <1>3, <2>1, <2>5 DEF Handled, TypeInv, Channel, Distinct
    <3> QED
      BY <2>1, <2>2, <2>5, <3>1 DEF Spared
  <2> QED
    BY <1>3, <2>3, <2>4, <2>5 DEF Handled, StartRefused, StateTold
<1>4. ASSUME NEW r \in Reply, Received(r)
      PROVE  Spared'
  <2>1. /\ UNCHANGED <<cancels, requests, native, file>> /\ r.task \in Task
        /\ r = replies[1] /\ 1 \in DOMAIN replies
    BY <1>4 DEF Received, Reply
  <2>2. /\ \A i \in DOMAIN requests : requests[i].task # r.task
        /\ \A i \in DOMAIN replies : replies[i].task \in Task /\ task[replies[i].task] # "done"
    BY <1>4, ReceivedQueues, Waiting DEF Reply, Method
  <2>3. /\ \A u \in Task : task[u] = "done" => task'[u] = "done"
        /\ \A u \in Task \ {r.task} : task'[u] = task[u]
    BY <1>a, <1>4, <2>1, <2>2 DEF Received, StartReturns, StopReturns, QueryReturns, TaskTo
  <2>4. cancels[r.task] \in Task => native # cancels[r.task] \/ task'[r.task] \in {"done", "gone"}
    <3>1. task[r.task] \in {"done", "gone"} => task'[r.task] \in {"done", "gone"}
      BY <1>4, <2>1, <2>2 DEF Received, StartReturns, StopReturns, QueryReturns
    <3> QED
      BY <2>1, <2>2, <3>1 DEF Spared
  <2>5. /\ _currentRecordingPath' # NoPath => task'[_currentRecordingPath'] = "done"
        /\ native # NoPath /\ _currentRecordingPath' = native =>
              _isRecording' /\ _currentDeviceId' # NoPath
    <3>1. CASE StartReturns(r.task)
      BY <1>a, <1>b, <2>1, <3>1 DEF StartReturns, TaskTo
    <3>2. CASE StopReturns(r.task, r.answer)
      BY <1>b, <3>2 DEF StopReturns
    <3>3. CASE r.answer \in {"true", "false"} /\ QueryReturns(r.task, r.answer)
      <4>1. UNCHANGED <<_currentRecordingPath, _currentDeviceId>>
            /\ (r.answer = "true" => _isRecording')
        BY <3>3 DEF QueryReturns
      <4>2. r.answer = "false" /\ native # NoPath => _currentRecordingPath # native
        <5> SUFFICES ASSUME r.answer = "false", native # NoPath, _currentRecordingPath = native
                     PROVE  FALSE
          OBVIOUS
        <5>1. PICK j \in DOMAIN replies : replies[j].task = native
          BY <2>1 DEF FalseIsOld
        <5> QED
          BY <2>2, <5>1 DEF Spared
      <4> QED
        BY <1>a, <1>b, <2>3, <3>3, <4>1, <4>2 DEF Spared
    <3>4. CASE UNCHANGED <<clientVars, task>>
      BY <3>4 DEF Spared
    <3> QED
      BY <1>4, <3>1, <3>2, <3>3, <3>4 DEF Received
  <2> QED
    BY <2>1, <2>3, <2>4, <2>5 DEF Spared
<1>5. CASE Restart
  <2>1. /\ _currentRecordingPath' = NoPath /\ UNCHANGED <<cancels, file>>
        /\ \A u \in Task : task[u] \in {"done", "gone"} => task'[u] \in {task[u], "gone"}
        /\ \A u \in Task : task[u] = "done" => task'[u] = "done"
        /\ \/ UNCHANGED <<requests, native>>
           \/ native' = NoPath
    BY <1>5 DEF Restart
  <2> QED
    BY <1>b, <2>1 DEF Spared
<1>6. CASE UNCHANGED vars
  BY <1>6 DEF vars, taskVars, Spared
<1> QED
  BY <1>1, <1>2, <1>3, <1>4, <1>5, <1>6, StepKinds

\* A cancelled recording's file goes in the call's last step, and nothing brings it back.
LEMMA CancelRemovesStep ==
    ASSUME TypeInv, FalseIsOld, Paths, StartsAlone, Cancelled, Spared, CancelRemoves,
           [Next]_vars
    PROVE  CancelRemoves'
<1> USE DEF clientVars, channelVars, nativeVars, appVars
<1>a. /\ task \in [Task -> {"new", "invoke", "startRecording", "stopRecording",
                            "isRecording", "delete", "done", "gone"}]
      /\ cancels \in [Task -> Path \cup {"no"}] /\ ended \in [Task -> Path]
      /\ file \in [Task -> {"none", "growing", "complete", "deleted"}]
  BY DEF TypeInv, TypeOK
<1>b. \A p \in Path : p # NoPath => p \in Task
  BY DEF Path
<1> SUFFICES ASSUME Alone', NEW u \in Task,
                    task'[u] = "done", cancels'[u] # "no", ended'[u] # NoPath
             PROVE  file'[ended'[u]] = "deleted"
  BY SparedStep DEF Alone, CancelRemoves, Spared
<1>c. Alone
  BY StartsAloneStep
<1>d. task[u] = "done" /\ cancels[u] # "no" /\ ended[u] # NoPath
         => ended[u] \in Task /\ file[ended[u]] = "deleted"
  BY <1>a, <1>b, <1>c DEF Alone, CancelRemoves
<1>e. ended[u] # NoPath =>
         /\ ended[u] \in Task /\ file[ended[u]] # "none"
         /\ task[u] \in {"stopRecording", "delete", "done", "gone"}
         /\ cancels[u] \in {"no", ended[u]}
  BY <1>a, <1>b, <1>c DEF Cancelled, Paths
<1>1. ASSUME NEW t \in Task, NEW m \in Method, NEW d \in Path, Asking(t, m, d)
      PROVE  file'[ended'[u]] = "deleted"
  <2>1. UNCHANGED <<ended, file>> /\ task' = [task EXCEPT ![t] = m]
    BY <1>1 DEF Asking, TaskTo
  <2>2. u # t
    BY <1>a, <2>1 DEF Method
  <2>3. task[u] = "done" /\ cancels'[u] = cancels[u]
    BY <1>a, <1>1, <2>1, <2>2 DEF Asking
  <2> QED
    BY <1>d, <2>1, <2>3
<1>2. ASSUME NEW t \in Task, NEW l \in {"invoke", "done", "delete"}, Moving(t, l)
      PROVE  file'[ended'[u]] = "deleted"
  <2>1. UNCHANGED ended /\ task' = [task EXCEPT ![t] = l]
    BY <1>2 DEF Moving, TaskTo
  <2>2. CASE u = t
    <3>1. task[t] = "delete" /\ UNCHANGED cancels
          /\ file' = [file EXCEPT ![cancels[t]] = IF @ = "none" THEN @ ELSE "deleted"]
      BY <1>e, <1>2, <2>1, <2>2 DEF Moving
    <3>2. cancels[t] = ended[t]
      BY <1>e, <2>1, <2>2, <3>1
    <3> QED
      BY <1>a, <1>e, <2>1, <2>2, <3>1, <3>2
  <2>3. CASE u # t
    <3>1. task[u] = "done" /\ cancels'[u] = cancels[u]
      BY <1>a, <1>2, <2>1, <2>3 DEF Moving
    <3>2. \A p \in Task : file[p] = "deleted" => file'[p] = "deleted"
      BY <1>a, <1>2 DEF Moving
    <3> QED
      BY <1>d, <2>1, <3>1, <3>2
  <2> QED
    BY <2>2, <2>3
<1>3. ASSUME NEW q \in Request, NEW a \in Answer, Handled(q, a)
      PROVE  file'[ended'[u]] = "deleted"
  <2>1. /\ UNCHANGED <<task, cancels>> /\ q.task \in Task /\ task[q.task] # "done"
        /\ q = requests[1] /\ 1 \in DOMAIN requests
    BY <1>3, Waiting DEF Handled, Request, Method
  <2>2. ended'[u] = ended[u]
    BY <1>a, <1>3, <2>1 DEF Handled, RecordingStarts, StartRefused, RecordingEnds, StateTold
  <2>3. q.method = "startRecording" => file[q.task] = "none"
    BY <2>1 DEF Paths
  <2>4. \A p \in Task : file[p] = "deleted" => file'[p] = "deleted"
    BY <1>a, <1>3, <2>3 DEF Handled, RecordingStarts, StartRefused, RecordingEnds, StateTold
  <2> QED
    BY <1>d, <2>1, <2>2, <2>4
<1>4. ASSUME NEW r \in Reply, Received(r)
      PROVE  file'[ended'[u]] = "deleted"
  <2>1. UNCHANGED <<cancels, ended, file>> /\ r.task \in Task
    BY <1>4 DEF Received, Reply
  <2>2. task[u] = "done"
    <3> SUFFICES ASSUME task[u] # "done" PROVE FALSE
      OBVIOUS
    <3>1. u = r.task
      BY <1>a, <1>4 DEF Received, StartReturns, StopReturns, QueryReturns, TaskTo
    <3>2. task[u] # "startRecording" /\ task[u] # "isRecording"
      BY <1>e, <2>1
    <3>3. StopReturns(u, r.answer)
      BY <1>4, <3>1, <3>2 DEF Received, StartReturns, QueryReturns
    <3>4. cancels[u] \notin Task
      BY <1>a, <3>3 DEF StopReturns, TaskTo
    <3> QED
      BY <1>e, <2>1, <3>4
  <2> QED
    BY <1>d, <2>1, <2>2
<1>5. ~Restart
  BY DEF Restart, Alone
<1>6. CASE UNCHANGED vars
  BY <1>d, <1>6 DEF vars, taskVars
<1> QED
  BY <1>1, <1>2, <1>3, <1>4, <1>5, <1>6, StepKinds

\* A stop takes the surface from the camera that has it.
LEMMA OnlyRecordedDrawsStep ==
    ASSUME TypeInv, StartsAlone, OneAtATime, OnlyRecordedDraws, [Next]_vars
    PROVE  OnlyRecordedDraws'
<1> USE DEF nativeVars, appVars
<1> SUFFICES ASSUME Alone' PROVE drawing' \ missed' \subseteq {native'}
  BY DEF Alone, OnlyRecordedDraws
<1>a. /\ Alone /\ RequestsFit
      /\ drawing \ missed \subseteq {native} /\ drawing \subseteq Task
  <2>1. Alone /\ RequestsFit
    BY StartsAloneStep DEF OneAtATime
  <2> QED
    BY <2>1 DEF Alone, OnlyRecordedDraws, TypeInv, TypeOK
<1>1. CASE UNCHANGED <<native, drawing, missed>>
  BY <1>a, <1>1
<1>2. ASSUME NEW q \in Request, NEW a \in Answer, Handled(q, a)
      PROVE  drawing' \ missed' \subseteq {native'}
  <2>1. q = requests[1] /\ 1 \in DOMAIN requests
    BY <1>2 DEF Handled
  <2>2. CASE RecordingStarts(q, a)
    BY <1>a, <2>2, ClientAssumption DEF RecordingStarts
  <2>3. CASE q.method = "stopRecording" /\ RecordingEnds(q, a)
    <3>1. native # NoPath => q.device = native
      BY <1>a, <2>1, <2>3 DEF RequestsFit
    <3>2. drawing' \ missed' = (drawing \ missed) \ {q.device}
      BY <2>3 DEF RecordingEnds
    <3>3. native = NoPath => drawing \ missed = {}
      BY <1>a, ClientAssumption
    <3> QED
      BY <1>a, <3>1, <3>2, <3>3
  <2>4. CASE UNCHANGED <<native, drawing, missed>>
    BY <1>1, <2>4
  <2> QED
    BY <1>2, <2>2, <2>3, <2>4 DEF Handled, StartRefused, StateTold
<1>3. ~Restart
  BY DEF Restart, Alone
<1> QED
  BY <1>1, <1>2, <1>3, StepKinds DEF Asking, Moving, Received, vars

AloneInv ==
    /\ ChannelInv
    /\ Paths /\ FalseIsOld /\ StartsAlone /\ OneAtATime
    /\ Cancelled /\ Spared /\ CancelRemoves /\ OnlyRecordedDraws

\* The lemmas together.
LEMMA AloneInductive == Spec => []AloneInv
<1>1. Init => AloneInv
  <2> SUFFICES ASSUME Init PROVE AloneInv
    OBVIOUS
  <2>1. DOMAIN replies = {} /\ DOMAIN requests = {} /\ ChannelInv
    BY ChannelInit, NoneWaits DEF Init
  <2>2. Paths /\ FalseIsOld /\ StartsAlone
    BY <2>1 DEF Init, Paths, FalseIsOld, StartsAlone
  <2>3. OneAtATime
    BY <2>1 DEF Init, OneAtATime, InvokesFit, RequestsFit, AnswersFit, FieldsFit
  <2>4. \A t \in Task : cancels[t] \notin Task
    BY ClientAssumption DEF Init, Path
  <2>5. Spared
    BY <2>4 DEF Init, Spared
  <2>6. Cancelled /\ CancelRemoves /\ OnlyRecordedDraws
    BY <2>1 DEF Init, Cancelled, CancelRemoves, OnlyRecordedDraws
  <2> QED
    BY <2>1, <2>2, <2>3, <2>5, <2>6 DEF AloneInv
<1>2. AloneInv /\ [Next]_vars => AloneInv'
  BY TypeStep, GoneFirstStep, FlagFollowsStep, PathFollowsStep, StoppableStep, PathsStep,
     FalseIsOldStep, StartsAloneStep, OneAtATimeStep, CancelledStep, SparedStep, CancelRemovesStep,
     OnlyRecordedDrawsStep DEF AloneInv, ChannelInv
<1> QED
  BY <1>1, <1>2, PTL DEF Spec

\* cancelRecording never deletes the file of a recording in progress, whatever overlaps, and
\* leaves no file of the one it has stopped if no start overlapped with a start or a stop.
THEOREM CancellingRemoves == Spec => []CancelRemoves
<1>1. AloneInv => CancelRemoves
  BY DEF AloneInv
<1> QED
  BY <1>1, AloneInductive, PTL

\* No camera draws on the surface of a recording that is not its own, nor after it, but
\* for those that a stop has asked for and could not reach.
THEOREM OnlyTheRecordedDraws == Spec => []OnlyRecordedDraws
<1>1. AloneInv => OnlyRecordedDraws
  BY DEF AloneInv
<1> QED
  BY <1>1, AloneInductive, PTL
=============================================================================
