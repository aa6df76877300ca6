-------------------------- MODULE DeviceDirectory --------------------------
(***************************************************************************)
(* What the plugin promises an application about its devices, with the     *)
(* threads, locks and objects left out: the native side has a set of       *)
(* devices, Dart has a list of controllers, and events travel in order.    *)
(* UvcPlugin implements this.                                              *)
(***************************************************************************)
EXTENDS Naturals, Sequences

CONSTANT Device

VARIABLES open,      \* is a Dart isolate listening?
          present,   \* devices that are registered natively
          pending,   \* events on their way to Dart, oldest first
          known      \* devices for which Dart has a controller

vars == <<open, present, pending, known>>

Event == [id : Device, attached : BOOLEAN]

TypeOK ==
    /\ open \in BOOLEAN
    /\ present \subseteq Device
    /\ pending \in Seq(Event)
    /\ known \subseteq Device

Reset(o) == open' = o /\ present' = {} /\ pending' = <<>> /\ known' = {}

Init == open = FALSE /\ present = {} /\ pending = <<>> /\ known = {}

Open == ~open /\ Reset(TRUE)

Close == open /\ Reset(FALSE)

\* A device appears, or one that is present is announced once more.
Appear(d) ==
    /\ open
    /\ present' = present \cup {d}
    /\ pending' = Append(pending, [id |-> d, attached |-> TRUE])
    /\ UNCHANGED <<open, known>>

Disappear(d) ==
    /\ d \in present
    /\ present' = present \ {d}
    /\ pending' = Append(pending, [id |-> d, attached |-> FALSE])
    /\ UNCHANGED <<open, known>>

Deliver ==
    /\ pending # <<>>
    /\ known' = IF Head(pending).attached
                THEN known \cup {Head(pending).id}
                ELSE known \ {Head(pending).id}
    /\ pending' = Tail(pending)
    /\ UNCHANGED <<open, present>>

Next ==
    \/ Open \/ Close \/ Deliver
    \/ \E d \in Device : Appear(d) \/ Disappear(d)

Spec == Init /\ [][Next]_vars /\ WF_vars(Deliver)

-----------------------------------------------------------------------------
\* i is the youngest event about d that is still under way.
Last(d, i) ==
    /\ i \in DOMAIN pending
    /\ pending[i].id = d
    /\ \A j \in DOMAIN pending : j > i => pending[j].id # d

\* Dart is behind by exactly the events under way: for every device the
\* youngest event tells the truth, and without one Dart already knows it.
Agreement ==
    \A d \in Device :
        /\ \A i \in DOMAIN pending : Last(d, i) => pending[i].attached = (d \in present)
        /\ (\A i \in DOMAIN pending : pending[i].id # d)
              => (d \in known <=> d \in present)
=============================================================================
