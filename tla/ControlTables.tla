---------------------------- MODULE ControlTables ----------------------------
(***************************************************************************)
(* The controls and the video sizes of one attached device, as seen through *)
(* its UVCController (uvc_controller.dart).  A call of the application runs *)
(* on the main isolate, goes on in an isolate of its own (compute), and     *)
(* completes on the main isolate again.  The isolate works on a COPY of the *)
(* controller: what it reads from the device into its table is lost when it *)
(* ends, only its answer comes back.                                        *)
(*                                                                          *)
(* Every export holds plugin_lock from its look-up of the holder to its     *)
(* last use of it, so an export is one step.  The look-up is a try_lock: it *)
(* fails while a callback for any device is in progress, and it fails when  *)
(* the device has gone; the device may refuse a request.  All of these look *)
(* the same to Dart, and every export may fail at every call (HolderRegistry *)
(* has the locks and the holders).                                          *)
(***************************************************************************)
EXTENDS Naturals, FiniteSets

CONSTANTS Call,        \* calls of the application
          Control,     \* the controls the device supports
          Processing,  \* those of its processing unit; the others are the camera's
          Listed,      \* those in _supportedCtrls or _supportedProcs
          Value,
          Fit,         \* the value the device takes for one it is asked to take
          Absent,      \* no value: not in the table, or ControlInfo.INVALID
          NumSizes,    \* video sizes the device has
          MaxAdjust    \* bound: how often the device changes a control by itself

ASSUME ControlAssumption ==
    /\ Processing \subseteq Control /\ Listed \subseteq Control
    /\ Fit \in [Value -> Value]
    /\ Absent \notin Value \cup Control
    /\ NumSizes \in Nat /\ MaxAdjust \in Nat

VARIABLES
    device,     \* the value of each control
    sizes,      \* how many sizes the holder could read when it was created
    controls,   \* _supportedControls of the main isolate: their current values
    op, type, value,  \* what each call is, and its arguments
    pc,
    own,        \* the table of the call's isolate
    left,       \* controls the isolate's loop has yet to ask for
    index,      \* the size its loop asks for next
    found,      \* the sizes it has got
    answer,     \* what a set or a get completed with
    failed,     \* history: an export failed during the call
    seen,       \* history: values that the control of a call had during it, and
                \* once a set has been carried out, since then
    blurred,    \* history: controls whose cached value is not promised any more
    adjusts

deviceVars  == <<device, sizes, adjusts>>
argVars     == <<op, type, value>>
listVars    == <<left, index, found>>
callVars    == <<pc, own, listVars, answer, failed>>
historyVars == <<seen, blurred>>
vars == <<deviceVars, controls, argVars, callVars, historyVars>>

Entry == Value \cup {Absent}
Empty == [x \in Control |-> Absent]

Operation == {"none", "controls", "cached", "sizes", "set", "get"}
Label == {"new", "delay", "ctrl_supports", "ctrl_info", "proc_supports", "proc_info",
          "count", "size", "set", "read", "answer", "done"}

TypeOK ==
    /\ device \in [Control -> Value]
    /\ sizes \in 0..NumSizes
    /\ controls \in [Control -> Entry]
    /\ op \in [Call -> Operation]
    /\ type \in [Call -> Control \cup {Absent}]
    /\ value \in [Call -> Entry]
    /\ pc \in [Call -> Label]
    /\ own \in [Call -> [Control -> Entry]]
    /\ left \in [Call -> SUBSET Control]
    /\ index \in [Call -> 0..NumSizes]
    /\ found \in [Call -> SUBSET (0..(NumSizes - 1))]
    /\ answer \in [Call -> Entry]
    /\ failed \in [Call -> BOOLEAN]
    /\ seen \in [Call -> SUBSET Value]
    /\ blurred \subseteq Control
    /\ adjusts \in 0..MaxAdjust

\* The constructor of the holder reads the sizes until one cannot be read.
Init ==
    /\ device \in [Control -> {Fit[v] : v \in Value}]
    /\ sizes \in 0..NumSizes
    /\ adjusts = 0
    /\ controls = Empty
    /\ op = [c \in Call |-> "none"]
    /\ type = [c \in Call |-> Absent]
    /\ value = [c \in Call |-> Absent]
    /\ pc = [c \in Call |-> "new"]
    /\ own = [c \in Call |-> Empty]
    /\ left = [c \in Call |-> {}]
    /\ index = [c \in Call |-> 0]
    /\ found = [c \in Call |-> {}]
    /\ answer = [c \in Call |-> Absent]
    /\ failed = [c \in Call |-> FALSE]
    /\ seen = [c \in Call |-> {}]
    /\ blurred = {}

Underway(c) == pc[c] \notin {"new", "done"}
PcTo(c, l) == pc' = [pc EXCEPT ![c] = l]
Fails(c) == failed' = [failed EXCEPT ![c] = TRUE]
Keep(c, table) == own' = [own EXCEPT ![c] = table]
Answers(c, v) ==
    /\ PcTo(c, "done") /\ Keep(c, Empty)
    /\ answer' = [answer EXCEPT ![c] = v]

-----------------------------------------------------------------------------
(* The device.                                                             *)

\* Control x is now v: every call about it that is under way may come to see it.
\* What the calls that ask for it (one or none) have seen before is over.
Becomes(x, v, by) ==
    /\ device' = [device EXCEPT ![x] = v]
    /\ seen' = [c \in Call |->
                   IF type[c] = x /\ Underway(c)
                   THEN {v} \cup IF c \in by THEN {} ELSE seen[c]
                   ELSE seen[c]]

\* The device changes a control: exposure or focus in an automatic mode.
Adjust(x) ==
    /\ adjusts < MaxAdjust
    /\ adjusts' = adjusts + 1
    /\ \E v \in Value \ {device[x]} : Becomes(x, v, {})
    /\ blurred' = blurred \cup {x}
    /\ UNCHANGED <<sizes, controls, argVars, callVars>>

-----------------------------------------------------------------------------
(* getSupportedControls.                                                   *)

\* A table that is not empty is answered as it is.
GetSupportedControls(c) ==
    /\ pc[c] = "new"
    /\ IF controls = Empty
       THEN op' = [op EXCEPT ![c] = "controls"] /\ PcTo(c, "delay")
       ELSE op' = [op EXCEPT ![c] = "cached"] /\ PcTo(c, "done")
    /\ UNCHANGED <<deviceVars, controls, type, value, own, listVars, answer, failed, historyVars>>

\* The 300 ms pass and the isolate starts.
DelayEnds(c) ==
    /\ pc[c] = "delay"
    /\ PcTo(c, IF op[c] = "controls" THEN "ctrl_supports" ELSE "count")
    /\ UNCHANGED <<deviceVars, controls, argVars, own, listVars, answer, failed, historyVars>>

\* The loop over one unit's list comes to the next control, or to its end.
LoopTo(c, unit, rest) ==
    /\ left' = [left EXCEPT ![c] = rest]
    /\ PcTo(c, IF rest # {} THEN unit
               ELSE IF unit = "ctrl_info" THEN "proc_supports" ELSE "answer")

\* get_ctrl_supports, get_proc_supports: a failed look-up answers 0.  What the device
\* supports is asked for only if it is in the unit's list.
Supports(c) ==
    /\ \/ /\ pc[c] = "ctrl_supports"
          /\ \/ LoopTo(c, "ctrl_info", Listed \ Processing) /\ UNCHANGED failed
             \/ LoopTo(c, "ctrl_info", {}) /\ Fails(c)
       \/ /\ pc[c] = "proc_supports"
          /\ \/ LoopTo(c, "proc_info", Listed \cap Processing) /\ UNCHANGED failed
             \/ LoopTo(c, "proc_info", {}) /\ Fails(c)
    /\ UNCHANGED <<deviceVars, controls, argVars, own, index, found, answer, historyVars>>

\* get_ctrl_info: a control that cannot be asked is left out.
CtrlInfo(c) ==
    /\ pc[c] \in {"ctrl_info", "proc_info"}
    /\ \E x \in left[c] :
          /\ LoopTo(c, pc[c], left[c] \ {x})
          /\ \/ Keep(c, [own[c] EXCEPT ![x] = device[x]]) /\ UNCHANGED failed
             \/ UNCHANGED own /\ Fails(c)
    /\ UNCHANGED <<deviceVars, controls, argVars, index, found, answer, historyVars>>

\* Mutation of AddAll: the table is filled only if it is still empty.
AddAllOnce(c) ==
    /\ pc[c] = "answer"
    /\ controls' = IF controls = Empty THEN own[c] ELSE controls
    /\ Answers(c, Absent)
    /\ UNCHANGED <<deviceVars, argVars, listVars, failed, historyVars>>

\* The isolate's table is added to the main one, whatever that holds by now.
AddAll(c) ==
    /\ pc[c] = "answer"
    /\ controls' = [x \in Control |-> IF own[c][x] # Absent THEN own[c][x] ELSE controls[x]]
    /\ Answers(c, Absent)
    /\ UNCHANGED <<deviceVars, argVars, listVars, failed, historyVars>>

-----------------------------------------------------------------------------
(* getSupportedSize: its table is filled in the isolate only, so every call *)
(* asks again.                                                              *)

GetSupportedSize(c) ==
    /\ pc[c] = "new"
    /\ op' = [op EXCEPT ![c] = "sizes"]
    /\ PcTo(c, "delay")
    /\ UNCHANGED <<deviceVars, controls, type, value, own, listVars, answer, failed, historyVars>>

\* get_supported_size for the number alone; it stays 0 if the look-up fails.
CountSizes(c) ==
    /\ pc[c] = "count"
    /\ \/ PcTo(c, IF sizes = 0 THEN "done" ELSE "size") /\ UNCHANGED failed
       \/ PcTo(c, "done") /\ Fails(c)
    /\ UNCHANGED <<deviceVars, controls, argVars, own, listVars, answer, historyVars>>

\* Mutation of ReadSize: the loop asks for one index too many.
ReadSizeTooFar(c) ==
    /\ pc[c] = "size"
    /\ \/ index[c] < sizes /\ found' = [found EXCEPT ![c] = @ \cup {index[c]}] /\ UNCHANGED failed
       \/ UNCHANGED found /\ Fails(c)
    /\ index' = [index EXCEPT ![c] = @ + 1]
    /\ PcTo(c, IF index'[c] <= sizes THEN "size" ELSE "done")
    /\ UNCHANGED <<deviceVars, controls, argVars, own, left, answer, historyVars>>

\* get_supported_size for one index: a size that cannot be read is skipped.
ReadSize(c) ==
    /\ pc[c] = "size"
    /\ \/ found' = [found EXCEPT ![c] = @ \cup {index[c]}] /\ UNCHANGED failed
       \/ UNCHANGED found /\ Fails(c)
    /\ index' = [index EXCEPT ![c] = @ + 1]
    /\ PcTo(c, IF index'[c] < sizes THEN "size" ELSE "done")
    /\ UNCHANGED <<deviceVars, controls, argVars, own, left, answer, historyVars>>

-----------------------------------------------------------------------------
(* setCtrlValue and getCtrlValue.                                          *)

Begin(c, o, x, v) ==
    /\ pc[c] = "new"
    /\ op' = [op EXCEPT ![c] = o]
    /\ type' = [type EXCEPT ![c] = x]
    /\ value' = [value EXCEPT ![c] = v]
    /\ seen' = [seen EXCEPT ![c] = {device[x]}]
    /\ UNCHANGED <<deviceVars, listVars, failed>>

\* Something under way may write control x, in the device or in the table.
Disturbed(x) ==
    \E c \in Call : Underway(c) /\ (op[c] = "controls" \/ (op[c] = "set" /\ type[c] = x))

\* Mutation of SetCtrlValue: the isolate alone notes the value.
SetInIsolate(c, x, v) ==
    /\ Begin(c, "set", x, v)
    /\ IF controls[x] = Absent
       THEN Answers(c, Absent) /\ UNCHANGED blurred
       ELSE /\ Keep(c, [controls EXCEPT ![x] = v])
            /\ blurred' = IF Disturbed(x) THEN blurred \cup {x} ELSE blurred \ {x}
            /\ PcTo(c, "set")
            /\ UNCHANGED answer
    /\ UNCHANGED controls

\* setCtrlValue notes the value in the main table before it asks for it.
SetCtrlValue(c, x, v) ==
    /\ Begin(c, "set", x, v)
    /\ IF controls[x] = Absent
       THEN Answers(c, Absent) /\ UNCHANGED <<controls, blurred>>
       ELSE /\ controls' = [controls EXCEPT ![x] = v]
            /\ Keep(c, controls')
            /\ blurred' = IF Disturbed(x) THEN blurred \cup {x} ELSE blurred \ {x}
            /\ PcTo(c, "set")
            /\ UNCHANGED answer

GetCtrlValue(c, x) ==
    /\ Begin(c, "get", x, Absent)
    /\ IF controls[x] = Absent
       THEN Answers(c, Absent)
       ELSE Keep(c, controls) /\ PcTo(c, "read") /\ UNCHANGED answer
    /\ UNCHANGED <<controls, blurred>>

\* Mutation of SetNative: the result of set_ctrl_value is not looked at.
SetUnchecked(c) ==
    /\ pc[c] = "set"
    /\ \/ /\ Becomes(type[c], Fit[value[c]], {c})
          /\ blurred' = IF Fit[value[c]] = value[c] THEN blurred ELSE blurred \cup {type[c]}
          /\ UNCHANGED failed
       \/ /\ blurred' = blurred \cup {type[c]}
          /\ Fails(c)
          /\ UNCHANGED <<device, seen>>
    /\ PcTo(c, "read")
    /\ UNCHANGED <<sizes, adjusts, controls, argVars, own, listVars, answer>>

\* set_ctrl_value: the device takes the nearest value it can.
SetNative(c) ==
    /\ pc[c] = "set"
    /\ \/ /\ Becomes(type[c], Fit[value[c]], {c})
          /\ blurred' = IF Fit[value[c]] = value[c] THEN blurred ELSE blurred \cup {type[c]}
          /\ PcTo(c, "read")
          /\ UNCHANGED <<own, answer, failed>>
       \/ /\ Answers(c, Absent)
          /\ blurred' = blurred \cup {type[c]}
          /\ Fails(c)
          /\ UNCHANGED <<device, seen>>
    /\ UNCHANGED <<sizes, adjusts, controls, argVars, listVars>>

\* Mutation of ReadBack: the isolate's table is trusted.
ReadOwn(c) ==
    /\ pc[c] = "read"
    /\ Answers(c, own[c][type[c]])
    /\ UNCHANGED <<deviceVars, controls, argVars, listVars, failed, historyVars>>

\* _getCtrlValue, for itself and at the end of _setCtrlValue: when
\* get_ctrl_value fails, the answer is what the isolate's table says.
ReadBack(c) ==
    /\ pc[c] = "read"
    /\ \/ Answers(c, device[type[c]]) /\ UNCHANGED failed
       \/ Answers(c, own[c][type[c]]) /\ Fails(c)
    /\ UNCHANGED <<deviceVars, controls, argVars, listVars, historyVars>>

-----------------------------------------------------------------------------
Next ==
    \/ \E x \in Control : Adjust(x)
    \/ \E c \in Call :
          \/ GetSupportedControls(c) \/ DelayEnds(c) \/ Supports(c) \/ CtrlInfo(c) \/ AddAll(c)
          \/ GetSupportedSize(c) \/ CountSizes(c) \/ ReadSize(c)
          \/ \E x \in Control : GetCtrlValue(c, x) \/ \E v \in Value : SetCtrlValue(c, x, v)
          \/ SetNative(c) \/ ReadBack(c)

Spec == Init /\ [][Next]_vars

-----------------------------------------------------------------------------
(* Properties.                                                             *)

\* A listing during which no export failed leaves nothing out for good that it asks
\* for: from its end on the main table has every control that the device supports
\* and the fixed lists name, also when a listing that overlaps it was cut short,
\* before or after; and it has every size of the holder.
ListingsComplete ==
    \A c \in Call : (pc[c] = "done" /\ ~failed[c]) =>
        /\ op[c] = "sizes" => found[c] = 0..(sizes - 1)
        /\ op[c] = "controls" => \A x \in Listed : controls[x] # Absent

\* A valid answer is a value that the control had while the call was under way, not
\* one from a table; that of a set is what the device made of the value asked for, or
\* has had since, not what it had before.  Unless reading it back failed: then nothing
\* in the answer says so (see SetAnswersApplied).
AnswersCurrent ==
    \A c \in Call : (pc[c] = "done" /\ ~failed[c] /\ answer[c] # Absent) => answer[c] \in seen[c]

\* A set with a valid answer was carried out while it was under way, even if
\* reading back failed.
SetsApplied ==
    \A c \in Call : (pc[c] = "done" /\ op[c] = "set" /\ answer[c] # Absent) => Fit[value[c]] \in seen[c]

\* Between the calls the main table, which getSupportedControls answers without
\* asking the device again, has the value of every control that was last set
\* undisturbed: exactly, without refusal, and with no listing and no other set
\* of the same control under way.  One such set also mends what went before.
CacheIsTrue ==
    \A x \in Control : (controls[x] # Absent /\ x \notin blurred /\ ~Disturbed(x)) => controls[x] = device[x]

-----------------------------------------------------------------------------
(* What the documentation says and the code does not do.                   *)

\* README.md 353-354: getSupportedControls gets the control functions that the device
\* supports; the table below it names FLG_PU_DIGITAL_MULT and others that the fixed
\* lists lack.
EveryControlListed ==
    \A c \in Call : (pc[c] = "done" /\ ~failed[c] /\ op[c] = "controls") =>
        \A x \in Control : controls[x] # Absent

\* README.md 170: setCtrlValue returns the control value that was applied.  When
\* get_ctrl_value fails it returns the one that was asked for.
SetAnswersApplied ==
    \A c \in Call : (pc[c] = "done" /\ op[c] = "set" /\ answer[c] # Absent) => answer[c] \in seen[c]

\* README.md 259: a ControlInfo holds the settings obtained from the device.  Between
\* the calls the main table has the value that the last set asked for, although the
\* device took another or refused it.
TableObtained ==
    (adjusts = 0 /\ \A c \in Call : ~Underway(c)) =>
        \A x \in Control : controls[x] \in {Absent, device[x]}
=============================================================================
