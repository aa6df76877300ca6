----------------------- MODULE DeviceDirectory_proofs -----------------------
(***************************************************************************)
(* The promise of DeviceDirectory keeps Dart and the native side agreed,   *)
(* for any number of devices and any backlog of events.                    *)
(***************************************************************************)
EXTENDS DeviceDirectory, TLAPS

\* The position of an event in the log after one has been appended.
LEMMA Appended ==
    ASSUME NEW s \in Seq(Event), NEW e \in Event
    PROVE  /\ Append(s, e) \in Seq(Event)
           /\ DOMAIN Append(s, e) = DOMAIN s \cup {Len(s) + 1}
           /\ Len(s) + 1 \notin DOMAIN s
           /\ \A i \in DOMAIN s : Append(s, e)[i] = s[i] /\ i < Len(s) + 1
           /\ Append(s, e)[Len(s) + 1] = e
OBVIOUS

\* The positions of events after the head of the log has been taken.
LEMMA Taken ==
    ASSUME NEW s \in Seq(Event), s # <<>>
    PROVE  /\ Tail(s) \in Seq(Event)
           /\ Head(s) = s[1] /\ Head(s) \in Event /\ 1 \in DOMAIN s
           /\ \A i \in DOMAIN Tail(s) :
                 i + 1 \in DOMAIN s /\ i \in Nat \ {0} /\ Tail(s)[i] = s[i + 1]
           /\ \A i \in DOMAIN s : i # 1 => i - 1 \in DOMAIN Tail(s) /\ i > 1
OBVIOUS

\* A log without events.
LEMMA NoEvents == <<>> \in Seq(Event) /\ DOMAIN <<>> = {}
OBVIOUS

\* The log holds events, and the sets hold devices.
THEOREM DirectoryTypeCorrect == Spec => []TypeOK
<1>1. Init => TypeOK
  BY NoEvents DEF Init, TypeOK
<1>2. TypeOK /\ [Next]_vars => TypeOK'
  <2> SUFFICES ASSUME TypeOK, [Next]_vars PROVE TypeOK'
    OBVIOUS
  <2> USE DEF TypeOK
  <2>1. CASE Open \/ Close
    BY <2>1, NoEvents DEF Open, Close, Reset
  <2>2. ASSUME NEW d \in Device, Appear(d) \/ Disappear(d) PROVE TypeOK'
    <3>1. \A b \in BOOLEAN : [id |-> d, attached |-> b] \in Event
      BY Zenon DEF Event
    <3>2. PICK e \in Event : pending' = Append(pending, e)
      BY <2>2, <3>1, Zenon DEF Appear, Disappear
    <3>3. pending' \in Seq(Event)
      BY <3>2, Appended
    <3> QED
      BY <2>2, <3>3 DEF Appear, Disappear
  <2>3. CASE Deliver
    <3>1. Head(pending).id \in Device
      BY <2>3, Taken DEF Deliver, Event
    <3> QED
      BY <2>3, <3>1, Taken DEF Deliver
  <2>4. CASE UNCHANGED vars
    BY <2>4 DEF vars
  <2> QED
    BY <2>1, <2>2, <2>3, <2>4 DEF Next
<1> QED
  BY <1>1, <1>2, PTL DEF Spec

\* An event about d joins the log and tells what has just become true.
LEMMA AppendAgrees ==
    ASSUME TypeOK, Agreement, NEW d \in Device, NEW b \in BOOLEAN,
           pending' = Append(pending, [id |-> d, attached |-> b]),
           b = (d \in present'),
           \A x \in Device \ {d} : x \in present' <=> x \in present,
           UNCHANGED known
    PROVE  Agreement'
<1> DEFINE e == [id |-> d, attached |-> b]
           n == Len(pending) + 1
<1>1. e \in Event /\ e.id = d /\ e.attached = b
  BY DEF Event
<1>2. /\ DOMAIN pending' = DOMAIN pending \cup {n}
      /\ n \notin DOMAIN pending
      /\ \A i \in DOMAIN pending : pending'[i] = pending[i] /\ i < n
      /\ pending'[n] = e
  BY <1>1, Appended DEF TypeOK
<1> SUFFICES ASSUME NEW x \in Device
             PROVE  /\ \A i \in DOMAIN pending' :
                          Last(x, i)' => pending'[i].attached = (x \in present')
                    /\ (\A i \in DOMAIN pending' : pending'[i].id # x)
                          => (x \in known' <=> x \in present')
  BY DEF Agreement
<1> HIDE DEF e, n
<1>3. CASE x = d
  <2>1. \A i \in DOMAIN pending' : Last(d, i)' => i = n
    BY <1>1, <1>2 DEF Last
  <2> QED
    BY <1>1, <1>2, <1>3, <2>1
<1>4. CASE x # d
  <2>1. \A i \in DOMAIN pending' : Last(x, i)' => i \in DOMAIN pending /\ Last(x, i)
    BY <1>1, <1>2, <1>4 DEF Last
  <2>2. (\A i \in DOMAIN pending' : pending'[i].id # x)
           => \A i \in DOMAIN pending : pending[i].id # x
    BY <1>2
  <2> QED
    BY <1>2, <1>4, <2>1, <2>2 DEF Agreement
<1> QED
  BY <1>3, <1>4

\* Dart takes the oldest event: what the younger ones say stays true, and the
\* last one about a device leaves Dart with the truth.
LEMMA DeliverAgrees ==
    ASSUME TypeOK, Agreement, Deliver
    PROVE  Agreement'
<1> DEFINE e == Head(pending)
<1>1. /\ pending' = Tail(pending) /\ e = pending[1] /\ 1 \in DOMAIN pending
      /\ e.id \in Device /\ e.attached \in BOOLEAN
      /\ \A i \in DOMAIN pending' :
            i + 1 \in DOMAIN pending /\ i \in Nat \ {0} /\ pending'[i] = pending[i + 1]
      /\ \A i \in DOMAIN pending : i # 1 => i - 1 \in DOMAIN pending' /\ i > 1
  BY Taken DEF Deliver, TypeOK, Event
<1>2. DOMAIN pending \subseteq Nat
  BY DEF TypeOK
<1> SUFFICES ASSUME NEW x \in Device
             PROVE  /\ \A i \in DOMAIN pending' :
                          Last(x, i)' => pending'[i].attached = (x \in present')
                    /\ (\A i \in DOMAIN pending' : pending'[i].id # x)
                          => (x \in known' <=> x \in present')
  BY DEF Agreement
<1>3. \A i \in DOMAIN pending' : Last(x, i)' => Last(x, i + 1)
  <2> SUFFICES ASSUME NEW i \in DOMAIN pending', Last(x, i)' PROVE Last(x, i + 1)
    OBVIOUS
  <2>1. ASSUME NEW j \in DOMAIN pending, j > i + 1 PROVE pending[j].id # x
    <3>1. j - 1 \in DOMAIN pending' /\ j - 1 > i /\ pending'[j - 1] = pending[(j - 1) + 1]
      BY <1>1, <1>2, <2>1
    <3>2. (j - 1) + 1 = j
      BY <1>2
    <3> QED
      BY <3>1, <3>2 DEF Last
  <2> QED
    BY <1>1, <2>1 DEF Last
<1>4. \A i \in DOMAIN pending' : Last(x, i)' => pending'[i].attached = (x \in present')
  BY <1>1, <1>3 DEF Agreement, Deliver
<1>5. ASSUME \A i \in DOMAIN pending' : pending'[i].id # x
      PROVE  x \in known' <=> x \in present'
  <2>1. \A i \in DOMAIN pending : i # 1 => pending[i].id # x
    BY <1>1, <1>2, <1>5
  <2>2. CASE e.id = x
    <3>1. Last(x, 1)
      BY <1>1, <1>2, <2>1, <2>2 DEF Last
    <3>2. e.attached = (x \in present)
      BY <1>1, <3>1 DEF Agreement
    <3> QED
      BY <1>1, <2>2, <3>2 DEF Deliver
  <2>3. CASE e.id # x
    <3>1. \A i \in DOMAIN pending : pending[i].id # x
      BY <1>1, <2>1, <2>3
    <3> QED
      BY <1>1, <2>3, <3>1 DEF Agreement, Deliver
  <2> QED
    BY <2>2, <2>3
<1> QED
  BY <1>4, <1>5

\* Every step leaves the events under way true.
LEMMA AgreementStep == TypeOK /\ Agreement /\ [Next]_vars => Agreement'
<1> SUFFICES ASSUME TypeOK, Agreement, [Next]_vars PROVE Agreement'
  OBVIOUS
<1>1. CASE Open \/ Close
  <2>1. present' = {} /\ pending' = <<>> /\ known' = {}
    BY <1>1 DEF Open, Close, Reset
  <2>2. DOMAIN pending' = {}
    BY <2>1, NoEvents
  <2> QED
    BY <2>1, <2>2 DEF Agreement
<1>2. ASSUME NEW d \in Device, Appear(d) PROVE Agreement'
  BY <1>2, AppendAgrees DEF Appear, TypeOK
<1>3. ASSUME NEW d \in Device, Disappear(d) PROVE Agreement'
  <2>1. FALSE = (d \in present')
    BY <1>3 DEF Disappear
  <2>2. \A x \in Device \ {d} : x \in present' <=> x \in present
    BY <1>3 DEF Disappear
  <2>3. pending' = Append(pending, [id |-> d, attached |-> FALSE]) /\ UNCHANGED known
    BY <1>3 DEF Disappear
  <2> QED
    BY <2>1, <2>2, <2>3, AppendAgrees, Zenon
<1>4. CASE Deliver
  BY <1>4, DeliverAgrees
<1>5. CASE UNCHANGED vars
  BY <1>5 DEF vars, Agreement, Last
<1> QED
  BY <1>1, <1>2, <1>3, <1>4, <1>5 DEF Next

\* For every device: the youngest event under way tells the truth, and without
\* one Dart has a controller exactly if the device is registered.
THEOREM DirectoryAgrees == Spec => []Agreement
<1>1. Init => Agreement
  BY NoEvents DEF Init, Agreement
<1> QED
  BY <1>1, AgreementStep, DirectoryTypeCorrect, PTL DEF Spec
=============================================================================
