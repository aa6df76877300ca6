------------------------ MODULE ControlTables_proofs ------------------------
(***************************************************************************)
(* Theorems about ControlTables, for any sets of calls, controls and       *)
(* values, any device that rounds in any way, and any number of sizes.     *)
(***************************************************************************)
EXTENDS ControlTables, TLAPS

\* The index of a size loop is that of a size while the loop runs.
IndexInRange == \A c \in Call : /\ pc[c] \in {"new", "delay", "count"} => index[c] = 0
                                /\ pc[c] = "size" => index[c] < sizes

\* What a call knows about itself is of the right kind.
CallOK ==
    \A c \in Call : /\ pc[c] = "new" => op[c] = "none"
                    /\ pc[c] = "delay" => op[c] \in {"controls", "sizes"}
                    /\ pc[c] \in {"ctrl_supports", "ctrl_info", "proc_supports", "proc_info", "answer"}
                          => op[c] = "controls"
                    /\ pc[c] \in {"count", "size"} => op[c] = "sizes"
                    /\ op[c] \in {"none", "controls", "cached", "sizes"} => type[c] = Absent
                    /\ pc[c] \in {"set", "read"} =>
                          op[c] \in {"set", "get"} /\ type[c] \in Control
                    /\ pc[c] = "set" => op[c] = "set"
                    /\ op[c] = "set" => value[c] \in Value /\ pc[c] \in {"set", "read", "done"}
                    /\ pc[c] # "done" => answer[c] = Absent
                    /\ pc[c] \in {"new", "delay", "ctrl_supports"} => own[c] = Empty

TypeInv == TypeOK /\ IndexInRange /\ CallOK

\* At the start nothing is asked.
LEMMA TypeInit == Init => TypeInv
<1> SUFFICES ASSUME Init PROVE TypeInv  OBVIOUS
<1> USE ControlAssumption DEF Init
<1>1. TypeOK  BY DEF TypeOK, Entry, Empty, Operation, Label
<1>2. IndexInRange  BY DEF IndexInRange
<1>3. CallOK  BY DEF CallOK
<1> QED  BY <1>1, <1>2, <1>3 DEF TypeInv

\* What each part of an action leaves is of its type: a control that changes, ...
LEMMA BecomesType ==
    ASSUME TypeOK, NEW x \in Control, NEW v \in Value, NEW by, Becomes(x, v, by)
    PROVE  /\ device' \in [Control -> Value]
           /\ seen' \in [Call -> SUBSET Value]
BY DEF TypeOK, Becomes

\* ... a table that an isolate keeps, ...
LEMMA KeepType ==
    ASSUME TypeOK, NEW c \in Call, NEW table \in [Control -> Entry], Keep(c, table)
    PROVE  own' \in [Call -> [Control -> Entry]]
BY DEF TypeOK, Keep

\* ... the end of a call, ...
LEMMA AnswersType ==
    ASSUME TypeOK, NEW c \in Call, NEW v \in Entry, Answers(c, v)
    PROVE  /\ pc' \in [Call -> Label]
           /\ own' \in [Call -> [Control -> Entry]]
           /\ answer' \in [Call -> Entry]
<1>1. Empty \in [Control -> Entry]  BY DEF Empty, Entry
<1>2. own' \in [Call -> [Control -> Entry]]  BY <1>1, KeepType DEF Answers
<1> QED  BY <1>2 DEF Answers, PcTo, TypeOK, Label

\* ... a step of a loop, ...
LEMMA LoopToType ==
    ASSUME TypeOK, NEW c \in Call, NEW rest \in SUBSET Control,
           NEW unit \in {"ctrl_info", "proc_info"}, LoopTo(c, unit, rest)
    PROVE  /\ left' \in [Call -> SUBSET Control]
           /\ pc' \in [Call -> Label]
<1>1. left' \in [Call -> SUBSET Control]  BY DEF TypeOK, LoopTo
<1>2. pc' \in [Call -> Label]  BY DEF LoopTo, PcTo, TypeOK, Label
<1> QED  BY <1>1, <1>2

\* ... an export that may have failed, ...
LEMMA FailsType ==
    ASSUME TypeOK, NEW c \in Call, Fails(c) \/ UNCHANGED failed
    PROVE  failed' \in [Call -> BOOLEAN]
BY DEF TypeOK, Fails

\* ... and the begin of a set or a get.
LEMMA BeginType ==
    ASSUME TypeOK, NEW c \in Call, NEW o \in {"set", "get"}, NEW x \in Control, NEW v \in Entry,
           Begin(c, o, x, v)
    PROVE  /\ op' \in [Call -> Operation]
           /\ type' \in [Call -> Control \cup {Absent}]
           /\ value' \in [Call -> Entry]
           /\ seen' \in [Call -> SUBSET Value]
<1>1. {device[x]} \in SUBSET Value  BY DEF TypeOK
<1>2. seen' \in [Call -> SUBSET Value]  BY <1>1 DEF TypeOK, Begin
<1> QED  BY <1>2 DEF TypeOK, Begin, Operation

\* Every action keeps the types and what a call knows about itself.
LEMMA TypeStep == TypeInv /\ [Next]_vars => TypeInv'
<1> SUFFICES ASSUME TypeInv, [Next]_vars PROVE TypeInv'  OBVIOUS
<1> USE ControlAssumption DEF TypeInv
<1>1. ASSUME NEW x \in Control, Adjust(x) PROVE TypeInv'
  <2>1. PICK v \in Value \ {device[x]} : Becomes(x, v, {})  BY <1>1 DEF Adjust
  <2>2. device' \in [Control -> Value] /\ seen' \in [Call -> SUBSET Value]
    BY <2>1, BecomesType
  <2>3. TypeOK'  BY <1>1, <2>2 DEF Adjust, TypeOK, argVars, callVars, listVars
  <2>4. IndexInRange' /\ CallOK'
    BY <1>1 DEF Adjust, IndexInRange, CallOK, argVars, callVars, listVars
  <2> QED  BY <2>3, <2>4
<1>2. ASSUME NEW c \in Call, GetSupportedControls(c) \/ GetSupportedSize(c) PROVE TypeInv'
  <2>1. TypeOK'
    BY <1>2 DEF GetSupportedControls, GetSupportedSize, PcTo, TypeOK, Operation, Label,
       deviceVars, argVars, listVars, historyVars
  <2>2. IndexInRange'
    BY <1>2 DEF GetSupportedControls, GetSupportedSize, PcTo, TypeOK, IndexInRange, CallOK,
       deviceVars, argVars, listVars, historyVars
  <2>3. CallOK'
    BY <1>2 DEF GetSupportedControls, GetSupportedSize, PcTo, TypeOK, CallOK, deviceVars,
       argVars, listVars, historyVars
  <2> QED  BY <2>1, <2>2, <2>3
<1>3. ASSUME NEW c \in Call, DelayEnds(c) PROVE TypeInv'
  <2>1. TypeOK'
    BY <1>3 DEF DelayEnds, PcTo, TypeOK, Operation, Label, deviceVars, argVars, listVars,
       historyVars
  <2>2. IndexInRange'
    BY <1>3 DEF DelayEnds, PcTo, TypeOK, IndexInRange, CallOK, deviceVars, argVars,
       listVars, historyVars
  <2>3. CallOK'
    BY <1>3 DEF DelayEnds, PcTo, TypeOK, CallOK, deviceVars, argVars, listVars, historyVars
  <2> QED  BY <2>1, <2>2, <2>3
<1>4. ASSUME NEW c \in Call, Supports(c) PROVE TypeInv'
  <2>1. TypeOK'
    <3>1. failed' \in [Call -> BOOLEAN]  BY <1>4, FailsType DEF Supports
    <3>2. PICK rest \in SUBSET Control, unit \in {"ctrl_info", "proc_info"} : LoopTo(c, unit, rest)
      BY <1>4 DEF Supports
    <3>3. left' \in [Call -> SUBSET Control] /\ pc' \in [Call -> Label]  BY <3>2, LoopToType
    <3> QED  BY <1>4, <3>1, <3>3 DEF Supports, TypeOK, deviceVars, argVars, historyVars
  <2>2. IndexInRange'
    BY <1>4 DEF Supports, LoopTo, PcTo, Fails, TypeOK, IndexInRange, CallOK, deviceVars,
       argVars, listVars, historyVars
  <2>3. CallOK'
    BY <1>4 DEF Supports, LoopTo, PcTo, Fails, TypeOK, CallOK, deviceVars, argVars,
       listVars, historyVars
  <2> QED  BY <2>1, <2>2, <2>3
<1>5. ASSUME NEW c \in Call, CtrlInfo(c) PROVE TypeInv'
  <2>1. TypeOK'
    <3>1. PICK x \in left[c] : /\ LoopTo(c, pc[c], left[c] \ {x})
                               /\ \/ Keep(c, [own[c] EXCEPT ![x] = device[x]]) /\ UNCHANGED failed
                                  \/ UNCHANGED own /\ Fails(c)
      BY <1>5 DEF CtrlInfo
    <3>2. left' \in [Call -> SUBSET Control] /\ pc' \in [Call -> Label]
      <4>1. left[c] \ {x} \in SUBSET Control  BY DEF TypeOK
      <4>2. pc[c] \in {"ctrl_info", "proc_info"}  BY <1>5 DEF CtrlInfo
      <4> QED  BY <3>1, <4>1, <4>2, LoopToType
    <3>3. [own[c] EXCEPT ![x] = device[x]] \in [Control -> Entry]  BY DEF TypeOK, Entry
    <3>4. own' \in [Call -> [Control -> Entry]]  BY <3>1, <3>3, KeepType DEF TypeOK
    <3>5. failed' \in [Call -> BOOLEAN]  BY <3>1, FailsType
    <3> QED  BY <1>5, <3>2, <3>4, <3>5 DEF CtrlInfo, TypeOK, deviceVars, argVars, historyVars
  <2>2. IndexInRange'
    BY <1>5 DEF CtrlInfo, LoopTo, PcTo, Fails, Keep, TypeOK, IndexInRange, CallOK,
       deviceVars, argVars, listVars, historyVars
  <2>3. CallOK'
    BY <1>5 DEF CtrlInfo, LoopTo, PcTo, Fails, Keep, TypeOK, CallOK, deviceVars, argVars,
       listVars, historyVars
  <2> QED  BY <2>1, <2>2, <2>3
<1>6. ASSUME NEW c \in Call, AddAll(c) PROVE TypeInv'
  <2>1. TypeOK'
    <3>1. controls' \in [Control -> Entry]  BY <1>6 DEF AddAll, TypeOK
    <3>2. Absent \in Entry  BY DEF Entry
    <3>3. /\ pc' \in [Call -> Label] /\ own' \in [Call -> [Control -> Entry]]
          /\ answer' \in [Call -> Entry]
      BY <1>6, <3>2, AnswersType DEF AddAll
    <3> QED  BY <1>6, <3>1, <3>3 DEF AddAll, TypeOK, deviceVars, argVars, listVars,
       historyVars
  <2>2. IndexInRange'
    BY <1>6 DEF AddAll, Answers, PcTo, Keep, TypeOK, IndexInRange, CallOK, deviceVars,
       argVars, listVars, historyVars
  <2>3. CallOK'
    BY <1>6 DEF AddAll, Answers, PcTo, Keep, TypeOK, CallOK, deviceVars, argVars, listVars,
       historyVars
  <2> QED  BY <2>1, <2>2, <2>3
<1>7. ASSUME NEW c \in Call, CountSizes(c) PROVE TypeInv'
  <2>1. TypeOK'
    BY <1>7 DEF CountSizes, PcTo, Fails, TypeOK, Operation, Label, deviceVars, argVars,
       listVars, historyVars
  <2>2. IndexInRange'
    BY <1>7 DEF CountSizes, PcTo, Fails, TypeOK, IndexInRange, CallOK, deviceVars, argVars,
       listVars, historyVars
  <2>3. CallOK'
    BY <1>7 DEF CountSizes, PcTo, Fails, TypeOK, CallOK, deviceVars, argVars, listVars,
       historyVars
  <2> QED  BY <2>1, <2>2, <2>3
<1>8. ASSUME NEW c \in Call, ReadSize(c) PROVE TypeInv'
  <2>1. TypeOK'
    <3>1. index[c] \in 0..(NumSizes - 1) /\ index[c] + 1 \in 0..NumSizes
      BY <1>8 DEF ReadSize, TypeOK, IndexInRange
    <3>2. found' \in [Call -> SUBSET (0..(NumSizes - 1))]
      <4>1. found[c] \cup {index[c]} \in SUBSET (0..(NumSizes - 1))  BY <3>1 DEF TypeOK
      <4> QED  BY <1>8, <4>1 DEF ReadSize, TypeOK
    <3>3. index' \in [Call -> 0..NumSizes]  BY <1>8, <3>1 DEF ReadSize, TypeOK
    <3>4. pc' \in [Call -> Label]  BY <1>8 DEF ReadSize, PcTo, TypeOK, Label
    <3>5. failed' \in [Call -> BOOLEAN]  BY <1>8, FailsType DEF ReadSize
    <3> QED  BY <1>8, <3>2, <3>3, <3>4, <3>5 DEF ReadSize, TypeOK, deviceVars, argVars,
       historyVars
  <2>2. IndexInRange'
    BY <1>8 DEF ReadSize, PcTo, Fails, TypeOK, IndexInRange, CallOK, deviceVars, argVars,
       listVars, historyVars
  <2>3. CallOK'
    BY <1>8 DEF ReadSize, PcTo, Fails, TypeOK, CallOK, deviceVars, argVars, listVars,
       historyVars
  <2> QED  BY <2>1, <2>2, <2>3
<1>9. ASSUME NEW c \in Call, NEW x \in Control, GetCtrlValue(c, x) PROVE TypeInv'
  <2>1. TypeOK'
    <3>1. Absent \in Entry  BY DEF Entry
    <3>2. Begin(c, "get", x, Absent)  BY <1>9 DEF GetCtrlValue
    <3>3. /\ op' \in [Call -> Operation] /\ type' \in [Call -> Control \cup {Absent}]
          /\ value' \in [Call -> Entry] /\ seen' \in [Call -> SUBSET Value]
      BY <3>1, <3>2, BeginType
    <3>4. /\ pc' \in [Call -> Label] /\ own' \in [Call -> [Control -> Entry]]
          /\ answer' \in [Call -> Entry]
      <4>1. CASE controls[x] = Absent  BY <1>9, <3>1, <4>1, AnswersType DEF GetCtrlValue
      <4>2. CASE controls[x] # Absent
        <5>1. Keep(c, controls) /\ PcTo(c, "read") /\ UNCHANGED answer  BY <1>9, <4>2 DEF
           GetCtrlValue
        <5>2. own' \in [Call -> [Control -> Entry]]  BY <5>1, KeepType DEF TypeOK
        <5> QED  BY <5>1, <5>2 DEF PcTo, TypeOK, Label
      <4> QED  BY <4>1, <4>2
    <3> QED  BY <1>9, <3>2, <3>3, <3>4 DEF GetCtrlValue, Begin, TypeOK, deviceVars, listVars
  <2>2. IndexInRange'
    BY <1>9 DEF GetCtrlValue, Begin, Answers, PcTo, Keep, TypeOK, IndexInRange, CallOK,
       deviceVars, argVars, listVars, historyVars
  <2>3. CallOK'
    BY <1>9 DEF GetCtrlValue, Begin, Answers, PcTo, Keep, TypeOK, CallOK, deviceVars,
       argVars, listVars, historyVars
  <2> QED  BY <2>1, <2>2, <2>3
<1>10. ASSUME NEW c \in Call, NEW x \in Control, NEW v \in Value, SetCtrlValue(c, x, v) PROVE TypeInv'
  <2>1. TypeOK'
    <3>1. Absent \in Entry /\ v \in Entry  BY DEF Entry
    <3>2. Begin(c, "set", x, v)  BY <1>10 DEF SetCtrlValue
    <3>3. /\ op' \in [Call -> Operation] /\ type' \in [Call -> Control \cup {Absent}]
          /\ value' \in [Call -> Entry] /\ seen' \in [Call -> SUBSET Value]
      BY <3>1, <3>2, BeginType
    <3>4. /\ pc' \in [Call -> Label] /\ own' \in [Call -> [Control -> Entry]]
          /\ answer' \in [Call -> Entry] /\ controls' \in [Control -> Entry]
          /\ blurred' \subseteq Control
      <4>1. CASE controls[x] = Absent
        <5>1. Answers(c, Absent) /\ UNCHANGED <<controls, blurred>>  BY <1>10, <4>1 DEF
           SetCtrlValue
        <5> QED  BY <3>1, <5>1, AnswersType DEF TypeOK
      <4>2. CASE controls[x] # Absent
        <5>1. /\ controls' = [controls EXCEPT ![x] = v]
              /\ Keep(c, controls') /\ PcTo(c, "set") /\ UNCHANGED answer
              /\ blurred' = blurred \cup {x} \/ blurred' = blurred \ {x}
          BY <1>10, <4>2 DEF SetCtrlValue
        <5>2. controls' \in [Control -> Entry]  BY <3>1, <5>1 DEF TypeOK
        <5>3. own' \in [Call -> [Control -> Entry]]  BY <5>1, <5>2, KeepType
        <5>4. blurred' \subseteq Control  BY <5>1 DEF TypeOK
        <5> QED  BY <5>1, <5>2, <5>3, <5>4 DEF PcTo, TypeOK, Label
      <4> QED  BY <4>1, <4>2
    <3> QED  BY <3>2, <3>3, <3>4 DEF Begin, TypeOK, deviceVars, listVars
  <2>2. IndexInRange'
    BY <1>10 DEF SetCtrlValue, Begin, Answers, PcTo, Keep, TypeOK, IndexInRange, CallOK,
       deviceVars, argVars, listVars, historyVars
  <2>3. CallOK'
    BY <1>10 DEF SetCtrlValue, Begin, Answers, PcTo, Keep, TypeOK, CallOK, deviceVars,
       argVars, listVars, historyVars
  <2> QED  BY <2>1, <2>2, <2>3
<1>11. ASSUME NEW c \in Call, SetNative(c) PROVE TypeInv'
  <2>1. TypeOK'
    <3>1. /\ type[c] \in Control /\ Fit[value[c]] \in Value /\ Absent \in Entry
      BY <1>11 DEF SetNative, CallOK, Entry
    <3>2. blurred' \subseteq Control  BY <1>11, <3>1 DEF SetNative, TypeOK
    <3>3. failed' \in [Call -> BOOLEAN]  BY <1>11, FailsType DEF SetNative
    <3>4. device' \in [Control -> Value] /\ seen' \in [Call -> SUBSET Value]
      <4>1. CASE Becomes(type[c], Fit[value[c]], {c})  BY <3>1, <4>1, BecomesType
      <4>2. CASE UNCHANGED <<device, seen>>  BY <4>2 DEF TypeOK
      <4> QED  BY <1>11, <4>1, <4>2 DEF SetNative
    <3>5. /\ pc' \in [Call -> Label] /\ own' \in [Call -> [Control -> Entry]]
          /\ answer' \in [Call -> Entry]
      <4>1. CASE PcTo(c, "read") /\ UNCHANGED <<own, answer>>  BY <4>1 DEF PcTo, TypeOK, Label
      <4>2. CASE Answers(c, Absent)  BY <3>1, <4>2, AnswersType
      <4> QED  BY <1>11, <4>1, <4>2 DEF SetNative
    <3> QED  BY <1>11, <3>2, <3>3, <3>4, <3>5 DEF SetNative, TypeOK, argVars, listVars
  <2>2. IndexInRange'
    BY <1>11 DEF SetNative, Answers, PcTo, Keep, Fails, TypeOK, IndexInRange, CallOK,
       deviceVars, argVars, listVars, historyVars
  <2>3. CallOK'
    BY <1>11 DEF SetNative, Answers, PcTo, Keep, Fails, TypeOK, CallOK, deviceVars,
       argVars, listVars, historyVars
  <2> QED  BY <2>1, <2>2, <2>3
<1>12. ASSUME NEW c \in Call, ReadBack(c) PROVE TypeInv'
  <2>1. TypeOK'
    <3>1. device[type[c]] \in Entry /\ own[c][type[c]] \in Entry
      BY <1>12 DEF ReadBack, CallOK, TypeOK, Entry
    <3>2. /\ pc' \in [Call -> Label] /\ own' \in [Call -> [Control -> Entry]]
          /\ answer' \in [Call -> Entry]
      BY <1>12, <3>1, AnswersType DEF ReadBack
    <3>3. failed' \in [Call -> BOOLEAN]  BY <1>12, FailsType DEF ReadBack
    <3> QED  BY <1>12, <3>2, <3>3 DEF ReadBack, TypeOK, deviceVars, argVars, listVars,
       historyVars
  <2>2. IndexInRange'
    BY <1>12 DEF ReadBack, Answers, PcTo, Keep, Fails, TypeOK, IndexInRange, CallOK,
       deviceVars, argVars, listVars, historyVars
  <2>3. CallOK'
    BY <1>12 DEF ReadBack, Answers, PcTo, Keep, Fails, TypeOK, CallOK, deviceVars, argVars,
       listVars, historyVars
  <2> QED  BY <2>1, <2>2, <2>3
<1>13. CASE UNCHANGED vars
  BY <1>13 DEF vars, TypeOK, IndexInRange, CallOK, deviceVars, argVars, listVars, callVars,
     historyVars
<1> QED  BY <1>1, <1>2, <1>3, <1>4, <1>5, <1>6, <1>7, <1>8, <1>9, <1>10, <1>11, <1>12,
   <1>13 DEF Next

\* The type invariant of ControlTables: among other things no listing's loop
\* runs past the sizes of the holder, and no value but one of the device's or
\* of the application's gets into a table.
THEOREM TablesTypeCorrect == Spec => []TypeOK
<1>1. TypeInv => TypeOK  BY DEF TypeInv
<1> QED  BY TypeInit, TypeStep, <1>1, PTL DEF Spec

-----------------------------------------------------------------------------
(* The answers.                                                            *)

\* While a call is about a control, it has seen the control's present value;
\* and a set that has come to its reading has seen its own.
Witnessed ==
    \A c \in Call : /\ pc[c] \in {"set", "read"} => device[type[c]] \in seen[c]
                    /\ pc[c] = "read" /\ op[c] = "set" => Fit[value[c]] \in seen[c]

AnswerInv == Witnessed /\ AnswersCurrent /\ SetsApplied

\* A control that changes is seen by the calls about it that are under way.
LEMMA BecomesSeen ==
    ASSUME TypeOK, NEW x \in Control, NEW v \in Value, NEW by, Becomes(x, v, by), NEW c \in Call
    PROVE  /\ device'[x] = v
           /\ \A y \in Control \ {x} : device'[y] = device[y]
           /\ c \notin by => seen[c] \subseteq seen'[c]
           /\ type[c] = x /\ Underway(c) => v \in seen'[c]
BY DEF TypeOK, Becomes

\* At the start nothing is answered.
LEMMA AnswerInit == Init => AnswerInv
BY DEF Init, AnswerInv, Witnessed, AnswersCurrent, SetsApplied

\* Every action keeps what the calls have seen and answered.
LEMMA AnswerStep == TypeInv /\ AnswerInv /\ [Next]_vars => AnswerInv'
<1> SUFFICES ASSUME TypeInv, AnswerInv, [Next]_vars PROVE AnswerInv'  OBVIOUS
<1> USE ControlAssumption DEF TypeInv, AnswerInv
<1>1. ASSUME NEW x \in Control, Adjust(x) PROVE AnswerInv'
  <2>1. PICK v \in Value \ {device[x]} : Becomes(x, v, {})  BY <1>1 DEF Adjust
  <2>2. ASSUME NEW c \in Call
        PROVE  /\ device'[x] = v
               /\ \A y \in Control \ {x} : device'[y] = device[y]
               /\ seen[c] \subseteq seen'[c]
               /\ type[c] = x /\ Underway(c) => v \in seen'[c]
    BY <2>1, BecomesSeen
  <2>3. UNCHANGED <<pc, op, type, value, failed, answer>>
    BY <1>1 DEF Adjust, argVars, callVars
  <2>4. Witnessed'
    BY <2>2, <2>3 DEF Witnessed, CallOK, Underway
  <2>5. AnswersCurrent' /\ SetsApplied'
    BY <2>2, <2>3 DEF AnswersCurrent, SetsApplied
  <2> QED  BY <2>4, <2>5
<1>2. ASSUME NEW c \in Call, GetSupportedControls(c) \/ GetSupportedSize(c) PROVE AnswerInv'
  <2>1. Witnessed'
    BY <1>2 DEF GetSupportedControls, GetSupportedSize, PcTo, TypeOK, CallOK, Witnessed,
       deviceVars, argVars, listVars, historyVars
  <2>2. AnswersCurrent'
    BY <1>2 DEF GetSupportedControls, GetSupportedSize, PcTo, TypeOK, CallOK, Witnessed,
       AnswersCurrent, deviceVars, argVars, listVars, historyVars
  <2>3. SetsApplied'
    BY <1>2 DEF GetSupportedControls, GetSupportedSize, PcTo, TypeOK, CallOK, Witnessed,
       SetsApplied, deviceVars, argVars, listVars, historyVars
  <2> QED  BY <2>1, <2>2, <2>3
<1>3. ASSUME NEW c \in Call, DelayEnds(c) PROVE AnswerInv'
  <2>1. Witnessed'
    BY <1>3 DEF DelayEnds, PcTo, TypeOK, CallOK, Witnessed, deviceVars, argVars, listVars,
       historyVars
  <2>2. AnswersCurrent'
    BY <1>3 DEF DelayEnds, PcTo, TypeOK, CallOK, Witnessed, AnswersCurrent, deviceVars,
       argVars, listVars, historyVars
  <2>3. SetsApplied'
    BY <1>3 DEF DelayEnds, PcTo, TypeOK, CallOK, Witnessed, SetsApplied, deviceVars,
       argVars, listVars, historyVars
  <2> QED  BY <2>1, <2>2, <2>3
<1>4. ASSUME NEW c \in Call, Supports(c) PROVE AnswerInv'
  <2>1. Witnessed'
    BY <1>4 DEF Supports, LoopTo, PcTo, Fails, TypeOK, CallOK, Witnessed, deviceVars,
       argVars, listVars, historyVars
  <2>2. AnswersCurrent'
    BY <1>4 DEF Supports, LoopTo, PcTo, Fails, TypeOK, CallOK, Witnessed, AnswersCurrent,
       deviceVars, argVars, listVars, historyVars
  <2>3. SetsApplied'
    BY <1>4 DEF Supports, LoopTo, PcTo, Fails, TypeOK, CallOK, Witnessed, SetsApplied,
       deviceVars, argVars, listVars, historyVars
  <2> QED  BY <2>1, <2>2, <2>3
<1>5. ASSUME NEW c \in Call, CtrlInfo(c) PROVE AnswerInv'
  <2>1. Witnessed'
    BY <1>5 DEF CtrlInfo, LoopTo, PcTo, Fails, Keep, TypeOK, CallOK, Witnessed, deviceVars,
       argVars, listVars, historyVars
  <2>2. AnswersCurrent'
    BY <1>5 DEF CtrlInfo, LoopTo, PcTo, Fails, Keep, TypeOK, CallOK, Witnessed,
       AnswersCurrent, deviceVars, argVars, listVars, historyVars
  <2>3. SetsApplied'
    BY <1>5 DEF CtrlInfo, LoopTo, PcTo, Fails, Keep, TypeOK, CallOK, Witnessed,
       SetsApplied, deviceVars, argVars, listVars, historyVars
  <2> QED  BY <2>1, <2>2, <2>3
<1>6. ASSUME NEW c \in Call, AddAll(c) PROVE AnswerInv'
  <2>1. Witnessed'
    BY <1>6 DEF AddAll, Answers, PcTo, Keep, TypeOK, CallOK, Witnessed, deviceVars,
       argVars, listVars, historyVars
  <2>2. AnswersCurrent'
    BY <1>6 DEF AddAll, Answers, PcTo, Keep, TypeOK, CallOK, Witnessed, AnswersCurrent,
       deviceVars, argVars, listVars, historyVars
  <2>3. SetsApplied'
    BY <1>6 DEF AddAll, Answers, PcTo, Keep, TypeOK, CallOK, Witnessed, SetsApplied,
       deviceVars, argVars, listVars, historyVars
  <2> QED  BY <2>1, <2>2, <2>3
<1>7. ASSUME NEW c \in Call, CountSizes(c) PROVE AnswerInv'
  <2>1. Witnessed'
    BY <1>7 DEF CountSizes, PcTo, Fails, TypeOK, CallOK, Witnessed, deviceVars, argVars,
       listVars, historyVars
  <2>2. AnswersCurrent'
    BY <1>7 DEF CountSizes, PcTo, Fails, TypeOK, CallOK, Witnessed, AnswersCurrent,
       deviceVars, argVars, listVars, historyVars
  <2>3. SetsApplied'
    BY <1>7 DEF CountSizes, PcTo, Fails, TypeOK, CallOK, Witnessed, SetsApplied,
       deviceVars, argVars, listVars, historyVars
  <2> QED  BY <2>1, <2>2, <2>3
<1>8. ASSUME NEW c \in Call, ReadSize(c) PROVE AnswerInv'
  <2>1. Witnessed'
    BY <1>8 DEF ReadSize, PcTo, Fails, TypeOK, CallOK, Witnessed, deviceVars, argVars,
       listVars, historyVars
  <2>2. AnswersCurrent'
    BY <1>8 DEF ReadSize, PcTo, Fails, TypeOK, CallOK, Witnessed, AnswersCurrent,
       deviceVars, argVars, listVars, historyVars
  <2>3. SetsApplied'
    BY <1>8 DEF ReadSize, PcTo, Fails, TypeOK, CallOK, Witnessed, SetsApplied, deviceVars,
       argVars, listVars, historyVars
  <2> QED  BY <2>1, <2>2, <2>3
<1>9. ASSUME NEW c \in Call, NEW x \in Control, GetCtrlValue(c, x) PROVE AnswerInv'
  <2>1. Witnessed'
    BY <1>9 DEF GetCtrlValue, Begin, Answers, PcTo, Keep, TypeOK, CallOK, Witnessed,
       deviceVars, argVars, listVars, historyVars
  <2>2. AnswersCurrent'
    BY <1>9 DEF GetCtrlValue, Begin, Answers, PcTo, Keep, TypeOK, CallOK, Witnessed,
       AnswersCurrent, deviceVars, argVars, listVars, historyVars
  <2>3. SetsApplied'
    BY <1>9 DEF GetCtrlValue, Begin, Answers, PcTo, Keep, TypeOK, CallOK, Witnessed,
       SetsApplied, deviceVars, argVars, listVars, historyVars
  <2> QED  BY <2>1, <2>2, <2>3
<1>10. ASSUME NEW c \in Call, NEW x \in Control, NEW v \in Value, SetCtrlValue(c, x, v) PROVE AnswerInv'
  <2>1. Witnessed'
    BY <1>10 DEF SetCtrlValue, Begin, Answers, PcTo, Keep, TypeOK, CallOK, Witnessed,
       deviceVars, argVars, listVars, historyVars
  <2>2. AnswersCurrent'
    BY <1>10 DEF SetCtrlValue, Begin, Answers, PcTo, Keep, TypeOK, CallOK, Witnessed,
       AnswersCurrent, deviceVars, argVars, listVars, historyVars
  <2>3. SetsApplied'
    BY <1>10 DEF SetCtrlValue, Begin, Answers, PcTo, Keep, TypeOK, CallOK, Witnessed,
       SetsApplied, deviceVars, argVars, listVars, historyVars
  <2> QED  BY <2>1, <2>2, <2>3
<1>11. ASSUME NEW c \in Call, SetNative(c) PROVE AnswerInv'
  <2>1. type[c] \in Control /\ Fit[value[c]] \in Value /\ op[c] = "set"
    BY <1>11 DEF SetNative, CallOK
  <2>2. UNCHANGED <<op, type, value>>  BY <1>11 DEF SetNative, argVars
  <2>3. CASE Becomes(type[c], Fit[value[c]], {c}) /\ PcTo(c, "read") /\ UNCHANGED <<answer, failed>>
    <3>1. ASSUME NEW d \in Call
          PROVE  /\ device'[type[c]] = Fit[value[c]]
                 /\ \A y \in Control \ {type[c]} : device'[y] = device[y]
                 /\ d # c => seen[d] \subseteq seen'[d]
                 /\ type[d] = type[c] /\ Underway(d) => Fit[value[c]] \in seen'[d]
      BY <2>1, <2>3, BecomesSeen
    <3>2. Underway(c)  BY <1>11 DEF SetNative, Underway
    <3>3. \A d \in Call : pc'[d] = IF d = c THEN "read" ELSE pc[d]  BY <2>3 DEF PcTo, TypeOK
    <3>4. Witnessed'  BY <2>1, <2>2, <3>1, <3>2, <3>3 DEF Witnessed, CallOK, Underway
    <3>5. AnswersCurrent' /\ SetsApplied'  BY <2>2, <2>3, <3>1, <3>3 DEF AnswersCurrent,
       SetsApplied
    <3> QED  BY <3>4, <3>5
  <2>4. CASE Answers(c, Absent) /\ Fails(c) /\ UNCHANGED <<device, seen>>
    BY <2>2, <2>4 DEF Answers, PcTo, Fails, TypeOK, Witnessed, AnswersCurrent, SetsApplied
  <2> QED  BY <1>11, <2>3, <2>4 DEF SetNative
<1>12. ASSUME NEW c \in Call, ReadBack(c) PROVE AnswerInv'
  <2>1. Witnessed'
    BY <1>12 DEF ReadBack, Answers, PcTo, Keep, Fails, TypeOK, CallOK, Witnessed,
       deviceVars, argVars, listVars, historyVars
  <2>2. AnswersCurrent'
    BY <1>12, SMTT(20) DEF ReadBack, Answers, PcTo, Keep, Fails, TypeOK, CallOK, Witnessed,
       AnswersCurrent, deviceVars, argVars, listVars, historyVars
  <2>3. SetsApplied'
    BY <1>12 DEF ReadBack, Answers, PcTo, Keep, Fails, TypeOK, CallOK, Witnessed,
       SetsApplied, deviceVars, argVars, listVars, historyVars
  <2> QED  BY <2>1, <2>2, <2>3
<1>13. CASE UNCHANGED vars
  BY <1>13 DEF vars, Witnessed, AnswersCurrent, SetsApplied, deviceVars, argVars, callVars,
     historyVars
<1> QED  BY <1>1, <1>2, <1>3, <1>4, <1>5, <1>6, <1>7, <1>8, <1>9, <1>10, <1>11, <1>12,
   <1>13 DEF Next

\* A valid answer during which no export failed is a value that the control had
\* while the call was under way, however many calls overlap and whatever the
\* device does by itself.
THEOREM AnswersTrue == Spec => []AnswersCurrent
<1>1. AnswerInv => AnswersCurrent  BY DEF AnswerInv
<1> QED  BY TypeInit, TypeStep, AnswerInit, AnswerStep, <1>1, PTL DEF Spec

\* A set that answers validly was carried out while it was under way.
THEOREM SetsCarriedOut == Spec => []SetsApplied
<1>1. AnswerInv => SetsApplied  BY DEF AnswerInv
<1> QED  BY TypeInit, TypeStep, AnswerInit, AnswerStep, <1>1, PTL DEF Spec

-----------------------------------------------------------------------------
(* The table of the main isolate.                                          *)

\* What a listing has read of a control that is not blurred is still true.
ListingTrue ==
    \A c \in Call, x \in Control :
        (op[c] = "controls" /\ Underway(c) /\ own[c][x] # Absent /\ x \notin blurred)
            => own[c][x] = device[x]

\* A set is under way only for a control that is in the table.
SetKnown ==
    \A c \in Call : pc[c] \in {"set", "read"} => controls[type[c]] # Absent

\* A set and another writer under way blur the control they may both write.
ClashBlurs ==
    \A c, d \in Call :
        (c # d /\ op[c] = "set" /\ Underway(c) /\ Underway(d)
            /\ (op[d] = "controls" \/ (op[d] = "set" /\ type[d] = type[c])))
        => type[c] \in blurred

\* The value a set asks for is the one in the table until the device has it.
PendingNoted ==
    \A c \in Call : (pc[c] = "set" /\ type[c] \notin blurred) => value[c] = controls[type[c]]

\* A value in the table is the device's, but for one that a set is about to change.
TableTrue ==
    \A x \in Control :
        (controls[x] # Absent /\ x \notin blurred /\ \A c \in Call : ~(pc[c] = "set" /\ type[c] = x))
            => controls[x] = device[x]

CacheInv == ListingTrue /\ SetKnown /\ ClashBlurs /\ PendingNoted /\ TableTrue

\* At the start the main table is empty.
LEMMA CacheInit == Init => CacheInv
BY DEF Init, Empty, Underway, CacheInv, ListingTrue, SetKnown, ClashBlurs, PendingNoted,
   TableTrue

\* Every action keeps the tables true where they are promised to be.
LEMMA CacheStep == TypeInv /\ CacheInv /\ [Next]_vars => CacheInv'
<1> SUFFICES ASSUME TypeInv, CacheInv, [Next]_vars PROVE CacheInv'  OBVIOUS
<1> USE ControlAssumption DEF TypeInv, CacheInv
<1>1. ASSUME NEW x \in Control, Adjust(x) PROVE CacheInv'
  <2>1. \A y \in Control \ {x} : device'[y] = device[y]  BY <1>1 DEF Adjust, Becomes, TypeOK
  <2>2. UNCHANGED <<controls, op, type, value, pc, own>> /\ blurred' = blurred \cup {x}
    BY <1>1 DEF Adjust, argVars, callVars
  <2>3. ListingTrue' /\ TableTrue'  BY <2>1, <2>2 DEF ListingTrue, TableTrue, Underway
  <2>4. SetKnown' /\ ClashBlurs' /\ PendingNoted'
    BY <2>2 DEF SetKnown, ClashBlurs, PendingNoted, Underway
  <2> QED  BY <2>3, <2>4
<1>2. ASSUME NEW c \in Call, GetSupportedControls(c) \/ GetSupportedSize(c) PROVE CacheInv'
  <2>1. ListingTrue'
    <3>1. own' = own /\ device' = device /\ blurred' = blurred
      BY <1>2 DEF GetSupportedControls, GetSupportedSize, deviceVars, historyVars
    <3>2. own[c] = Empty  BY <1>2 DEF GetSupportedControls, GetSupportedSize, CallOK
    <3>3. \A d \in Call \ {c} : pc'[d] = pc[d] /\ op'[d] = op[d]
      BY <1>2 DEF GetSupportedControls, GetSupportedSize, PcTo, TypeOK
    <3>4. ASSUME NEW d \in Call, NEW x \in Control
          PROVE  (op[d] = "controls" /\ Underway(d) /\ own[d][x] # Absent /\ x \notin blurred)'
                     => own'[d][x] = device'[x]
      <4>1. CASE d = c  BY <3>1, <3>2, <4>1 DEF Empty
      <4>2. CASE d # c  BY <3>1, <3>3, <4>2 DEF ListingTrue, Underway
      <4> QED  BY <4>1, <4>2
    <3> QED  BY <3>4 DEF ListingTrue
  <2>2. SetKnown'
    BY <1>2 DEF GetSupportedControls, GetSupportedSize, PcTo, TypeOK, CallOK, SetKnown,
       deviceVars, argVars, listVars, historyVars
  <2>3. ClashBlurs'
    <3>1. type' = type /\ blurred' = blurred
      BY <1>2 DEF GetSupportedControls, GetSupportedSize, historyVars
    <3>2. \A d \in Call \ {c} : pc'[d] = pc[d] /\ op'[d] = op[d]
      BY <1>2 DEF GetSupportedControls, GetSupportedSize, PcTo, TypeOK
    <3>3. /\ op'[c] \in {"controls", "cached", "sizes"}
          /\ op'[c] = "controls" => controls = Empty
      BY <1>2 DEF GetSupportedControls, GetSupportedSize, TypeOK
    <3>4. ASSUME NEW d \in Call, op[d] = "set", Underway(d) PROVE controls # Empty
      <4>1. pc[d] \in {"set", "read"} /\ type[d] \in Control  BY <3>4 DEF CallOK, Underway
      <4> QED  BY <4>1 DEF SetKnown, Empty
    <3>5. ASSUME NEW d \in Call, NEW e \in Call, d # e,
                 (/\ op[d] = "set" /\ Underway(d) /\ Underway(e)
                  /\ op[e] = "controls" \/ (op[e] = "set" /\ type[e] = type[d]))'
          PROVE  type[d] \in blurred
      <4>1. d # c  BY <3>3, <3>5
      <4>2. op[d] = "set" /\ Underway(d)  BY <3>2, <3>5, <4>1 DEF Underway
      <4>3. e # c  BY <3>3, <3>4, <3>5, <4>2
      <4> QED  BY <3>1, <3>2, <3>5, <4>2, <4>3 DEF ClashBlurs, Underway
    <3> QED  BY <3>1, <3>5 DEF ClashBlurs
  <2>4. PendingNoted'
    BY <1>2 DEF GetSupportedControls, GetSupportedSize, PcTo, TypeOK, CallOK, PendingNoted,
       deviceVars, argVars, listVars, historyVars
  <2>5. TableTrue'
    BY <1>2 DEF GetSupportedControls, GetSupportedSize, PcTo, TypeOK, CallOK, TableTrue,
       deviceVars, argVars, listVars, historyVars
  <2> QED  BY <2>1, <2>2, <2>3, <2>4, <2>5
<1>3. ASSUME NEW c \in Call, DelayEnds(c) PROVE CacheInv'
  <2>1. ListingTrue'
    BY <1>3 DEF DelayEnds, PcTo, Underway, Empty, TypeOK, CallOK, ListingTrue, deviceVars,
       argVars, listVars, historyVars
  <2>2. SetKnown'
    BY <1>3 DEF DelayEnds, PcTo, TypeOK, CallOK, SetKnown, deviceVars, argVars, listVars,
       historyVars
  <2>3. ClashBlurs'
    BY <1>3 DEF DelayEnds, PcTo, Underway, TypeOK, CallOK, ClashBlurs, deviceVars, argVars,
       listVars, historyVars
  <2>4. PendingNoted'
    BY <1>3 DEF DelayEnds, PcTo, TypeOK, CallOK, PendingNoted, deviceVars, argVars,
       listVars, historyVars
  <2>5. TableTrue'
    BY <1>3 DEF DelayEnds, PcTo, TypeOK, CallOK, TableTrue, deviceVars, argVars, listVars,
       historyVars
  <2> QED  BY <2>1, <2>2, <2>3, <2>4, <2>5
<1>4. ASSUME NEW c \in Call, Supports(c) PROVE CacheInv'
  <2>1. ListingTrue'
    <3>1. UNCHANGED <<op, type, own, device, blurred>>
      BY <1>4 DEF Supports, deviceVars, argVars, historyVars
    <3>2. Underway(c)  BY <1>4 DEF Supports, Underway
    <3>3. \A d \in Call \ {c} : pc'[d] = pc[d]  BY <1>4 DEF Supports, LoopTo, PcTo, TypeOK
    <3> QED  BY <3>1, <3>2, <3>3 DEF ListingTrue, Underway
  <2>2. SetKnown'
    BY <1>4 DEF Supports, LoopTo, PcTo, Fails, TypeOK, CallOK, SetKnown, deviceVars,
       argVars, listVars, historyVars
  <2>3. ClashBlurs'
    <3>1. UNCHANGED <<op, type, own, device, blurred>>
      BY <1>4 DEF Supports, deviceVars, argVars, historyVars
    <3>2. Underway(c)  BY <1>4 DEF Supports, Underway
    <3>3. \A d \in Call \ {c} : pc'[d] = pc[d]  BY <1>4 DEF Supports, LoopTo, PcTo, TypeOK
    <3> QED  BY <3>1, <3>2, <3>3 DEF ClashBlurs, Underway
  <2>4. PendingNoted'
    BY <1>4 DEF Supports, LoopTo, PcTo, Fails, TypeOK, CallOK, PendingNoted, deviceVars,
       argVars, listVars, historyVars
  <2>5. TableTrue'
    BY <1>4 DEF Supports, LoopTo, PcTo, Fails, TypeOK, CallOK, TableTrue, deviceVars,
       argVars, listVars, historyVars
  <2> QED  BY <2>1, <2>2, <2>3, <2>4, <2>5
<1>5. ASSUME NEW c \in Call, CtrlInfo(c) PROVE CacheInv'
  <2>1. ListingTrue'
    BY <1>5 DEF CtrlInfo, LoopTo, PcTo, Fails, Keep, Underway, Empty, TypeOK, CallOK,
       ListingTrue, deviceVars, argVars, listVars, historyVars
  <2>2. SetKnown'
    BY <1>5 DEF CtrlInfo, LoopTo, PcTo, Fails, Keep, TypeOK, CallOK, SetKnown, deviceVars,
       argVars, listVars, historyVars
  <2>3. ClashBlurs'
    BY <1>5 DEF CtrlInfo, LoopTo, PcTo, Fails, Keep, Underway, TypeOK, CallOK, ClashBlurs,
       deviceVars, argVars, listVars, historyVars
  <2>4. PendingNoted'
    BY <1>5 DEF CtrlInfo, LoopTo, PcTo, Fails, Keep, TypeOK, CallOK, PendingNoted,
       deviceVars, argVars, listVars, historyVars
  <2>5. TableTrue'
    BY <1>5 DEF CtrlInfo, LoopTo, PcTo, Fails, Keep, TypeOK, CallOK, TableTrue, deviceVars,
       argVars, listVars, historyVars
  <2> QED  BY <2>1, <2>2, <2>3, <2>4, <2>5
<1>6. ASSUME NEW c \in Call, AddAll(c) PROVE CacheInv'
  <2>1. ListingTrue'
    BY <1>6 DEF AddAll, Answers, PcTo, Keep, Underway, Empty, TypeOK, CallOK, ListingTrue,
       deviceVars, argVars, listVars, historyVars
  <2>2. SetKnown'
    BY <1>6 DEF AddAll, Answers, PcTo, Keep, TypeOK, CallOK, SetKnown, deviceVars, argVars,
       listVars, historyVars
  <2>3. ClashBlurs'
    BY <1>6 DEF AddAll, Answers, PcTo, Keep, Underway, TypeOK, CallOK, ClashBlurs,
       deviceVars, argVars, listVars, historyVars
  <2>4. PendingNoted'
    BY <1>6 DEF AddAll, Answers, PcTo, Keep, Underway, ListingTrue, ClashBlurs, SetKnown,
       TypeOK, CallOK, PendingNoted, deviceVars, argVars, listVars, historyVars
  <2>5. TableTrue'
    BY <1>6, SMTT(20) DEF AddAll, Answers, PcTo, Keep, Underway, ListingTrue, ClashBlurs, TypeOK,
       CallOK, TableTrue, deviceVars, argVars, listVars, historyVars
  <2> QED  BY <2>1, <2>2, <2>3, <2>4, <2>5
<1>7. ASSUME NEW c \in Call, CountSizes(c) PROVE CacheInv'
  <2>1. ListingTrue'
    <3>1. /\ UNCHANGED <<op, own, device, blurred>> /\ op[c] = "sizes"
          /\ \A d \in Call \ {c} : pc'[d] = pc[d]
      BY <1>7 DEF CountSizes, PcTo, TypeOK, CallOK, deviceVars, argVars, historyVars
    <3> QED  BY <3>1 DEF ListingTrue, Underway
  <2>2. SetKnown'
    BY <1>7 DEF CountSizes, PcTo, Fails, TypeOK, CallOK, SetKnown, deviceVars, argVars,
       listVars, historyVars
  <2>3. ClashBlurs'
    <3>1. UNCHANGED <<op, type, blurred>>
      BY <1>7 DEF CountSizes, argVars, historyVars
    <3>2. \A d \in Call : Underway(d)' => Underway(d)
      BY <1>7 DEF CountSizes, PcTo, Underway, TypeOK
    <3> QED  BY <3>1, <3>2 DEF ClashBlurs
  <2>4. PendingNoted'
    BY <1>7 DEF CountSizes, PcTo, Fails, TypeOK, CallOK, PendingNoted, deviceVars, argVars,
       listVars, historyVars
  <2>5. TableTrue'
    BY <1>7 DEF CountSizes, PcTo, Fails, TypeOK, CallOK, TableTrue, deviceVars, argVars,
       listVars, historyVars
  <2> QED  BY <2>1, <2>2, <2>3, <2>4, <2>5
<1>8. ASSUME NEW c \in Call, ReadSize(c) PROVE CacheInv'
  <2>1. ListingTrue'
    BY <1>8 DEF ReadSize, PcTo, Fails, Underway, Empty, TypeOK, CallOK, ListingTrue,
       deviceVars, argVars, listVars, historyVars
  <2>2. SetKnown'
    BY <1>8 DEF ReadSize, PcTo, Fails, TypeOK, CallOK, SetKnown, deviceVars, argVars,
       listVars, historyVars
  <2>3. ClashBlurs'
    BY <1>8 DEF ReadSize, PcTo, Fails, Underway, TypeOK, CallOK, ClashBlurs, deviceVars,
       argVars, listVars, historyVars
  <2>4. PendingNoted'
    BY <1>8 DEF ReadSize, PcTo, Fails, TypeOK, CallOK, PendingNoted, deviceVars, argVars,
       listVars, historyVars
  <2>5. TableTrue'
    BY <1>8 DEF ReadSize, PcTo, Fails, TypeOK, CallOK, TableTrue, deviceVars, argVars,
       listVars, historyVars
  <2> QED  BY <2>1, <2>2, <2>3, <2>4, <2>5
<1>9. ASSUME NEW c \in Call, NEW x \in Control, GetCtrlValue(c, x) PROVE CacheInv'
  <2>1. ListingTrue'
    BY <1>9 DEF GetCtrlValue, Begin, Answers, PcTo, Keep, Underway, Empty, TypeOK, CallOK,
       ListingTrue, deviceVars, argVars, listVars, historyVars
  <2>2. SetKnown'
    BY <1>9 DEF GetCtrlValue, Begin, Answers, PcTo, Keep, TypeOK, CallOK, SetKnown,
       deviceVars, argVars, listVars, historyVars
  <2>3. ClashBlurs'
    BY <1>9 DEF GetCtrlValue, Begin, Answers, PcTo, Keep, Underway, TypeOK, CallOK,
       ClashBlurs, deviceVars, argVars, listVars, historyVars
  <2>4. PendingNoted'
    BY <1>9 DEF GetCtrlValue, Begin, Answers, PcTo, Keep, TypeOK, CallOK, PendingNoted,
       deviceVars, argVars, listVars, historyVars
  <2>5. TableTrue'
    <3>1. /\ UNCHANGED <<controls, device, blurred>> /\ pc[c] = "new" /\ pc'[c] \in {"read", "done"}
          /\ \A d \in Call \ {c} : pc'[d] = pc[d] /\ type'[d] = type[d]
      BY <1>9 DEF GetCtrlValue, Begin, Answers, PcTo, TypeOK, deviceVars
    <3> QED  BY <3>1 DEF TableTrue
  <2> QED  BY <2>1, <2>2, <2>3, <2>4, <2>5
<1>10. ASSUME NEW c \in Call, NEW x \in Control, NEW v \in Value, SetCtrlValue(c, x, v) PROVE CacheInv'
  <2>1. ListingTrue'
    BY <1>10 DEF SetCtrlValue, Begin, Answers, PcTo, Keep, Disturbed, Underway, Empty,
       TypeOK, CallOK, ListingTrue, deviceVars, argVars, listVars, historyVars
  <2>2. SetKnown'
    BY <1>10 DEF SetCtrlValue, Begin, Answers, PcTo, Keep, Disturbed, Underway, Empty,
       TypeOK, CallOK, SetKnown, deviceVars, argVars, listVars, historyVars
  <2>3. ClashBlurs'
    BY <1>10 DEF SetCtrlValue, Begin, Answers, PcTo, Keep, Disturbed, Underway, Empty,
       TypeOK, CallOK, ClashBlurs, deviceVars, argVars, listVars, historyVars
  <2>4. PendingNoted'
    BY <1>10 DEF SetCtrlValue, Begin, Answers, PcTo, Keep, Disturbed, Underway, Empty,
       TypeOK, CallOK, PendingNoted, deviceVars, argVars, listVars, historyVars
  <2>5. TableTrue'
    <3>1. UNCHANGED device /\ type' = [type EXCEPT ![c] = x] /\ pc[c] = "new"
      BY <1>10 DEF SetCtrlValue, Begin, deviceVars
    <3>2. CASE controls[x] = Absent
      <4>1. UNCHANGED <<controls, blurred>> /\ pc' = [pc EXCEPT ![c] = "done"]
        BY <1>10, <3>2 DEF SetCtrlValue, Answers, PcTo
      <4> QED  BY <3>1, <4>1 DEF TableTrue, TypeOK
    <3>3. CASE controls[x] # Absent
      <4>1. /\ controls' = [controls EXCEPT ![x] = v]
            /\ pc' = [pc EXCEPT ![c] = "set"]
            /\ \A y \in Control \ {x} : y \in blurred' <=> y \in blurred
        BY <1>10, <3>3 DEF SetCtrlValue, PcTo
      <4>2. pc'[c] = "set" /\ type'[c] = x  BY <3>1, <4>1 DEF TypeOK
      <4>3. \A d \in Call \ {c} : pc'[d] = pc[d] /\ type'[d] = type[d]  BY <3>1, <4>1 DEF
         TypeOK
      <4>4. \A y \in Control \ {x} : controls'[y] = controls[y]  BY <4>1 DEF TypeOK
      <4>5. ASSUME NEW y \in Control,
                   (controls[y] # Absent /\ y \notin blurred /\ \A d \in Call : ~(pc[d] = "set" /\ type[d] = y))'
            PROVE  controls'[y] = device'[y]
        <5>1. y # x  BY <4>2, <4>5
        <5>2. \A d \in Call : ~(pc[d] = "set" /\ type[d] = y)  BY <3>1, <4>3, <4>5
        <5> QED  BY <3>1, <4>1, <4>4, <4>5, <5>1, <5>2 DEF TableTrue
      <4> QED  BY <4>5 DEF TableTrue
    <3> QED  BY <3>2, <3>3
  <2> QED  BY <2>1, <2>2, <2>3, <2>4, <2>5
<1>11. ASSUME NEW c \in Call, SetNative(c) PROVE CacheInv'
  <2>1. ListingTrue'
    <3>1. type[c] \in Control /\ op[c] = "set" /\ Underway(c)
      BY <1>11 DEF SetNative, CallOK, Underway
    <3>2. /\ op' = op
          /\ blurred \subseteq blurred'
          /\ \A y \in Control \ {type[c]} : device'[y] = device[y]
          /\ \A d \in Call \ {c} : pc'[d] = pc[d] /\ own'[d] = own[d]
      BY <1>11 DEF SetNative, Becomes, Answers, PcTo, Keep, argVars, TypeOK
    <3>3. ASSUME NEW d \in Call, NEW x \in Control,
                 (op[d] = "controls" /\ Underway(d) /\ own[d][x] # Absent /\ x \notin blurred)'
          PROVE  own'[d][x] = device'[x]
      <4>1. d # c  BY <3>1, <3>2, <3>3
      <4>2. op[d] = "controls" /\ Underway(d) /\ own[d][x] # Absent /\ x \notin blurred
        BY <3>2, <3>3, <4>1 DEF Underway
      <4>3. x # type[c]  BY <3>1, <4>1, <4>2 DEF ClashBlurs
      <4> QED  BY <3>2, <4>1, <4>2, <4>3 DEF ListingTrue
    <3> QED  BY <3>3 DEF ListingTrue
  <2>2. SetKnown'
    <3>1. /\ UNCHANGED <<controls, type>> /\ pc[c] = "set"
          /\ \A d \in Call \ {c} : pc'[d] = pc[d]
      BY <1>11 DEF SetNative, Answers, PcTo, TypeOK, argVars
    <3> QED  BY <3>1 DEF SetKnown
  <2>3. ClashBlurs'
    <3>1. /\ UNCHANGED <<op, type>> /\ blurred \subseteq blurred' /\ Underway(c)
          /\ \A d \in Call \ {c} : pc'[d] = pc[d]
      BY <1>11 DEF SetNative, Answers, PcTo, Underway, TypeOK, argVars
    <3>2. \A d \in Call : Underway(d)' => Underway(d)
      BY <3>1 DEF Underway
    <3> QED  BY <3>1, <3>2 DEF ClashBlurs
  <2>4. PendingNoted'
    BY <1>11 DEF SetNative, Answers, PcTo, Keep, Fails, Becomes, Underway, ClashBlurs,
       TypeOK, CallOK, PendingNoted, deviceVars, argVars, listVars, historyVars
  <2>5. TableTrue'
    <3>1. /\ type[c] \in Control /\ op[c] = "set" /\ Underway(c) /\ pc[c] = "set"
          /\ Fit[value[c]] \in Value
      BY <1>11 DEF SetNative, CallOK, Underway
    <3>2. /\ UNCHANGED <<type, controls>>
          /\ blurred \subseteq blurred'
          /\ \A y \in Control \ {type[c]} : device'[y] = device[y]
          /\ type[c] \notin blurred' => device'[type[c]] = value[c]
          /\ \A d \in Call \ {c} : pc'[d] = pc[d]
      BY <1>11, <3>1 DEF SetNative, Becomes, Answers, PcTo, argVars, TypeOK
    <3>3. ASSUME NEW x \in Control,
                 (controls[x] # Absent /\ x \notin blurred /\ \A d \in Call : ~(pc[d] = "set" /\ type[d] = x))'
          PROVE  controls'[x] = device'[x]
      <4>1. CASE x = type[c]
        BY <3>1, <3>2, <3>3, <4>1 DEF PendingNoted
      <4>2. CASE x # type[c]
        <5>1. \A d \in Call : ~(pc[d] = "set" /\ type[d] = x)  BY <3>2, <3>3, <4>2
        <5> QED  BY <3>2, <3>3, <4>2, <5>1 DEF TableTrue
      <4> QED  BY <4>1, <4>2
    <3> QED  BY <3>3 DEF TableTrue
  <2> QED  BY <2>1, <2>2, <2>3, <2>4, <2>5
<1>12. ASSUME NEW c \in Call, ReadBack(c) PROVE CacheInv'
  <2>1. ListingTrue'
    <3>1. UNCHANGED <<op, device, blurred>>
      BY <1>12 DEF ReadBack, deviceVars, argVars, historyVars
    <3>2. pc'[c] = "done"  BY <1>12 DEF ReadBack, Answers, PcTo, TypeOK
    <3>3. \A d \in Call \ {c} : pc'[d] = pc[d] /\ own'[d] = own[d]
      BY <1>12 DEF ReadBack, Answers, PcTo, Keep, TypeOK
    <3> QED  BY <3>1, <3>2, <3>3 DEF ListingTrue, Underway
  <2>2. SetKnown'
    BY <1>12 DEF ReadBack, Answers, PcTo, Keep, Fails, TypeOK, CallOK, SetKnown,
       deviceVars, argVars, listVars, historyVars
  <2>3. ClashBlurs'
    <3>1. /\ UNCHANGED <<op, type, blurred>> /\ pc'[c] = "done"
          /\ \A d \in Call \ {c} : pc'[d] = pc[d]
      BY <1>12 DEF ReadBack, Answers, PcTo, TypeOK, argVars, historyVars
    <3>2. \A d \in Call : Underway(d)' => Underway(d)
      BY <3>1 DEF Underway
    <3> QED  BY <3>1, <3>2 DEF ClashBlurs
  <2>4. PendingNoted'
    BY <1>12 DEF ReadBack, Answers, PcTo, Keep, Fails, TypeOK, CallOK, PendingNoted,
       deviceVars, argVars, listVars, historyVars
  <2>5. TableTrue'
    BY <1>12 DEF ReadBack, Answers, PcTo, Keep, Fails, TypeOK, CallOK, TableTrue,
       deviceVars, argVars, listVars, historyVars
  <2> QED  BY <2>1, <2>2, <2>3, <2>4, <2>5
<1>13. CASE UNCHANGED vars
  BY <1>13 DEF vars, Underway, ListingTrue, SetKnown, ClashBlurs, PendingNoted, TableTrue,
               deviceVars, argVars, callVars, historyVars
<1> QED  BY <1>1, <1>2, <1>3, <1>4, <1>5, <1>6, <1>7, <1>8, <1>9, <1>10, <1>11, <1>12,
   <1>13 DEF Next

\* The table that getSupportedControls answers without asking the device has the
\* device's value of every control that was last set undisturbed.
THEOREM TableKeptTrue == Spec => []CacheIsTrue
<1>1. TypeInv /\ CacheInv => CacheIsTrue
  BY DEF TypeInv, CallOK, CacheInv, TableTrue, CacheIsTrue, Disturbed, Underway
<1> QED  BY TypeInit, TypeStep, CacheInit, CacheStep, <1>1, PTL DEF Spec

-----------------------------------------------------------------------------
(* A listing that nothing cut short is complete.                           *)

\* The sizes that the loop of a call has read are those below its index, and at
\* its end all of them.
SizesRead ==
    \A c \in Call :
        /\ pc[c] \in {"new", "delay", "count"} => found[c] = {}
        /\ pc[c] = "size" /\ ~failed[c] => found[c] = 0..(index[c] - 1)
        /\ pc[c] = "done" /\ op[c] = "sizes" /\ ~failed[c] => found[c] = 0..(sizes - 1)

\* Those of the lists that the isolate of a call has been through.
Asked(c) == {x \in Listed :
    \/ pc[c] = "ctrl_info" /\ x \notin Processing /\ x \notin left[c]
    \/ pc[c] = "proc_supports" /\ x \notin Processing
    \/ pc[c] = "proc_info" /\ (x \in Processing => x \notin left[c])
    \/ pc[c] = "answer"}

\* While no export has failed, the isolate's table has all of them.
AskedKept == \A c \in Call : ~failed[c] => \A x \in Asked(c) : own[c][x] # Absent

\* After a complete listing the main table has every control of the lists.
AllListed ==
    \A c \in Call : (pc[c] = "done" /\ op[c] = "controls" /\ ~failed[c]) =>
        \A x \in Listed : controls[x] # Absent

ListingInv == SizesRead /\ AskedKept /\ AllListed

\* At the start nothing is listed.
LEMMA ListingInit == Init => ListingInv
BY DEF Init, ListingInv, SizesRead, AskedKept, Asked, AllListed

\* Every action keeps the account of what the listings have read.
LEMMA ListingStep == TypeInv /\ ListingInv /\ [Next]_vars => ListingInv'
<1> SUFFICES ASSUME TypeInv, ListingInv, [Next]_vars PROVE ListingInv'  OBVIOUS
<1> USE ControlAssumption DEF TypeInv, ListingInv
<1>1. ASSUME NEW x \in Control, Adjust(x) PROVE ListingInv'
  BY <1>1 DEF Adjust, SizesRead, AskedKept, Asked, AllListed, argVars, callVars, listVars
<1>2. ASSUME NEW c \in Call, GetSupportedControls(c) \/ GetSupportedSize(c) PROVE ListingInv'
  <2>1. SizesRead'
    <3>1. /\ UNCHANGED <<sizes, found, index, failed>>
          /\ \A d \in Call \ {c} : pc'[d] = pc[d] /\ op'[d] = op[d]
          /\ pc[c] = "new" /\ (pc'[c] = "delay" \/ (pc'[c] = "done" /\ op'[c] = "cached"))
      BY <1>2 DEF GetSupportedControls, GetSupportedSize, PcTo, TypeOK, deviceVars, listVars
    <3> QED  BY <3>1 DEF SizesRead
  <2>2. AskedKept'
    BY <1>2 DEF GetSupportedControls, GetSupportedSize, PcTo, TypeOK, CallOK, AskedKept,
       Asked, deviceVars, argVars, listVars, historyVars
  <2>3. AllListed'
    BY <1>2 DEF GetSupportedControls, GetSupportedSize, PcTo, TypeOK, CallOK, AskedKept,
       Asked, AllListed, deviceVars, argVars, listVars, historyVars
  <2> QED  BY <2>1, <2>2, <2>3
<1>3. ASSUME NEW c \in Call, DelayEnds(c) PROVE ListingInv'
  <2>1. SizesRead'
    BY <1>3 DEF DelayEnds, PcTo, TypeOK, IndexInRange, CallOK, SizesRead, deviceVars,
       argVars, listVars, historyVars
  <2>2. AskedKept'
    BY <1>3 DEF DelayEnds, PcTo, TypeOK, CallOK, AskedKept, Asked, deviceVars, argVars,
       listVars, historyVars
  <2>3. AllListed'
    BY <1>3 DEF DelayEnds, PcTo, TypeOK, CallOK, AskedKept, Asked, AllListed, deviceVars,
       argVars, listVars, historyVars
  <2> QED  BY <2>1, <2>2, <2>3
<1>4. ASSUME NEW c \in Call, Supports(c) PROVE ListingInv'
  <2>1. SizesRead'
    BY <1>4 DEF Supports, LoopTo, PcTo, Fails, TypeOK, IndexInRange, CallOK, SizesRead,
       deviceVars, argVars, listVars, historyVars
  <2>2. AskedKept'
    BY <1>4 DEF Supports, LoopTo, PcTo, Fails, TypeOK, CallOK, AskedKept, Asked,
       deviceVars, argVars, listVars, historyVars
  <2>3. AllListed'
    <3>1. /\ UNCHANGED <<op, controls>> /\ pc'[c] # "done"
          /\ \A d \in Call \ {c} : pc'[d] = pc[d] /\ failed'[d] = failed[d]
      BY <1>4 DEF Supports, LoopTo, PcTo, Fails, TypeOK, argVars
    <3> QED  BY <3>1 DEF AllListed
  <2> QED  BY <2>1, <2>2, <2>3
<1>5. ASSUME NEW c \in Call, CtrlInfo(c) PROVE ListingInv'
  <2>1. SizesRead'
    BY <1>5 DEF CtrlInfo, LoopTo, PcTo, Fails, Keep, TypeOK, IndexInRange, CallOK,
       SizesRead, deviceVars, argVars, listVars, historyVars
  <2>2. AskedKept'
    BY <1>5 DEF CtrlInfo, LoopTo, PcTo, Fails, Keep, TypeOK, CallOK, AskedKept, Asked,
       deviceVars, argVars, listVars, historyVars
  <2>3. AllListed'
    BY <1>5 DEF CtrlInfo, LoopTo, PcTo, Fails, Keep, TypeOK, CallOK, AskedKept, Asked,
       AllListed, deviceVars, argVars, listVars, historyVars
  <2> QED  BY <2>1, <2>2, <2>3
<1>6. ASSUME NEW c \in Call, AddAll(c) PROVE ListingInv'
  <2>1. SizesRead'
    BY <1>6 DEF AddAll, Answers, PcTo, Keep, TypeOK, IndexInRange, CallOK, SizesRead,
       deviceVars, argVars, listVars, historyVars
  <2>2. AskedKept'
    BY <1>6 DEF AddAll, Answers, PcTo, Keep, TypeOK, CallOK, AskedKept, Asked, deviceVars,
       argVars, listVars, historyVars
  <2>3. AllListed'
    BY <1>6 DEF AddAll, Answers, PcTo, Keep, TypeOK, CallOK, AskedKept, Asked, AllListed,
       deviceVars, argVars, listVars, historyVars
  <2> QED  BY <2>1, <2>2, <2>3
<1>7. ASSUME NEW c \in Call, CountSizes(c) PROVE ListingInv'
  <2>1. SizesRead'
    <3>1. /\ UNCHANGED <<sizes, op, found, index>>
          /\ \A d \in Call \ {c} : pc'[d] = pc[d] /\ failed'[d] = failed[d]
          /\ found[c] = {} /\ index[c] = 0
          /\ pc'[c] = "size" \/ (pc'[c] = "done" /\ (sizes = 0 \/ failed'[c]))
      BY <1>7 DEF CountSizes, PcTo, Fails, TypeOK, IndexInRange, SizesRead, deviceVars,
         argVars, listVars
    <3>2. 0..(0 - 1) = {}  OBVIOUS
    <3>3. \A d \in Call \ {c} : /\ pc'[d] = pc[d] /\ failed'[d] = failed[d] /\ op'[d] = op[d]
                              /\ found'[d] = found[d] /\ index'[d] = index[d]
      BY <3>1
    <3>4. pc'[c] = "size" => found'[c] = 0..(index'[c] - 1)
      BY <3>1, <3>2
    <3>5. pc'[c] = "done" /\ ~failed'[c] => found'[c] = 0..(sizes' - 1)
      BY <3>1, <3>2
    <3>6. pc'[c] \notin {"new", "delay", "count"} /\ sizes' = sizes
      BY <3>1
    <3> QED  BY <3>3, <3>4, <3>5, <3>6 DEF SizesRead
  <2>2. AskedKept'
    <3>1. /\ UNCHANGED <<own, left>>
          /\ \A d \in Call \ {c} : pc'[d] = pc[d] /\ failed'[d] = failed[d]
          /\ pc'[c] \in {"size", "done"}
      BY <1>7 DEF CountSizes, PcTo, Fails, TypeOK, listVars
    <3> QED  BY <3>1 DEF AskedKept, Asked
  <2>3. AllListed'
    <3>1. /\ UNCHANGED <<op, controls>> /\ op[c] = "sizes"
          /\ \A d \in Call \ {c} : pc'[d] = pc[d] /\ failed'[d] = failed[d]
      BY <1>7 DEF CountSizes, PcTo, Fails, TypeOK, CallOK, argVars
    <3> QED  BY <3>1 DEF AllListed
  <2> QED  BY <2>1, <2>2, <2>3
<1>8. ASSUME NEW c \in Call, ReadSize(c) PROVE ListingInv'
  <2>1. SizesRead'
    <3>1. /\ UNCHANGED <<sizes, op>>
          /\ \A d \in Call \ {c} :
                pc'[d] = pc[d] /\ failed'[d] = failed[d] /\ found'[d] = found[d] /\ index'[d] = index[d]
          /\ index[c] \in Nat /\ sizes \in Nat /\ index[c] < sizes /\ index'[c] = index[c] + 1
          /\ failed'[c] \/ (~failed[c] /\ found'[c] = found[c] \cup {index[c]})
          /\ pc[c] = "size" /\ pc'[c] = IF index'[c] < sizes THEN "size" ELSE "done"
      <4>1. /\ index[c] \in Nat /\ sizes \in Nat /\ index[c] < sizes /\ pc[c] = "size"
        BY <1>8 DEF ReadSize, TypeOK, IndexInRange
      <4>2. failed'[c] \/ (~failed[c] /\ found'[c] = found[c] \cup {index[c]})
        BY <1>8 DEF ReadSize, Fails, TypeOK
      <4> QED  BY <1>8, <4>1, <4>2 DEF ReadSize, PcTo, Fails, TypeOK, deviceVars, argVars
    <3>2. ASSUME ~failed'[c] PROVE found'[c] = 0..(index'[c] - 1)
      <4>1. found[c] = 0..(index[c] - 1)  BY <3>1, <3>2 DEF SizesRead
      <4>2. (0..(index[c] - 1)) \cup {index[c]} = 0..index[c]  BY <3>1
      <4>3. index'[c] - 1 = index[c]  BY <3>1
      <4>4. found'[c] = found[c] \cup {index[c]}  BY <3>1, <3>2
      <4> QED  BY <4>1, <4>2, <4>3, <4>4
    <3>3. pc'[c] = "size" \/ (pc'[c] = "done" /\ index'[c] = sizes)  BY <3>1
    <3> QED  BY <3>1, <3>2, <3>3 DEF SizesRead
  <2>2. AskedKept'
    BY <1>8 DEF ReadSize, PcTo, Fails, TypeOK, CallOK, AskedKept, Asked, deviceVars,
       argVars, listVars, historyVars
  <2>3. AllListed'
    BY <1>8 DEF ReadSize, PcTo, Fails, TypeOK, CallOK, AskedKept, Asked, AllListed,
       deviceVars, argVars, listVars, historyVars
  <2> QED  BY <2>1, <2>2, <2>3
<1>9. ASSUME NEW c \in Call, NEW x \in Control, GetCtrlValue(c, x) PROVE ListingInv'
  <2>1. SizesRead'
    BY <1>9 DEF GetCtrlValue, Begin, Answers, PcTo, Keep, TypeOK, IndexInRange, CallOK,
       SizesRead, deviceVars, argVars, listVars, historyVars
  <2>2. AskedKept'
    BY <1>9 DEF GetCtrlValue, Begin, Answers, PcTo, Keep, TypeOK, CallOK, AskedKept, Asked,
       deviceVars, argVars, listVars, historyVars
  <2>3. AllListed'
    BY <1>9 DEF GetCtrlValue, Begin, Answers, PcTo, Keep, TypeOK, CallOK, AskedKept, Asked,
       AllListed, deviceVars, argVars, listVars, historyVars
  <2> QED  BY <2>1, <2>2, <2>3
<1>10. ASSUME NEW c \in Call, NEW x \in Control, NEW v \in Value, SetCtrlValue(c, x, v) PROVE ListingInv'
  <2>1. SizesRead'
    BY <1>10 DEF SetCtrlValue, Begin, Answers, PcTo, Keep, TypeOK, IndexInRange, CallOK,
       SizesRead, deviceVars, argVars, listVars, historyVars
  <2>2. AskedKept'
    BY <1>10 DEF SetCtrlValue, Begin, Answers, PcTo, Keep, TypeOK, CallOK, AskedKept,
       Asked, deviceVars, argVars, listVars, historyVars
  <2>3. AllListed'
    BY <1>10 DEF SetCtrlValue, Begin, Answers, PcTo, Keep, TypeOK, CallOK, AskedKept,
       Asked, AllListed, deviceVars, argVars, listVars, historyVars
  <2> QED  BY <2>1, <2>2, <2>3
<1>11. ASSUME NEW c \in Call, SetNative(c) PROVE ListingInv'
  <2>1. SizesRead'
    <3>1. /\ UNCHANGED <<sizes, op, found, index>> /\ op[c] = "set"
          /\ \A d \in Call \ {c} : pc'[d] = pc[d] /\ failed'[d] = failed[d]
          /\ pc'[c] \in {"read", "done"}
      BY <1>11 DEF SetNative, Answers, PcTo, Fails, TypeOK, CallOK, argVars, listVars
    <3> QED  BY <3>1 DEF SizesRead
  <2>2. AskedKept'
    <3>1. /\ UNCHANGED left
          /\ \A d \in Call \ {c} : pc'[d] = pc[d] /\ failed'[d] = failed[d] /\ own'[d] = own[d]
          /\ pc'[c] \in {"read", "done"}
      BY <1>11 DEF SetNative, Answers, PcTo, Keep, Fails, TypeOK, listVars
    <3> QED  BY <3>1 DEF AskedKept, Asked
  <2>3. AllListed'
    <3>1. /\ UNCHANGED <<op, controls>> /\ op[c] = "set"
          /\ \A d \in Call \ {c} : pc'[d] = pc[d] /\ failed'[d] = failed[d]
      BY <1>11 DEF SetNative, Answers, PcTo, Fails, TypeOK, CallOK, argVars
    <3> QED  BY <3>1 DEF AllListed
  <2> QED  BY <2>1, <2>2, <2>3
<1>12. ASSUME NEW c \in Call, ReadBack(c) PROVE ListingInv'
  <2>1. SizesRead'
    BY <1>12 DEF ReadBack, Answers, PcTo, Keep, Fails, TypeOK, IndexInRange, CallOK,
       SizesRead, deviceVars, argVars, listVars, historyVars
  <2>2. AskedKept'
    <3>1. /\ UNCHANGED left
          /\ \A d \in Call \ {c} : pc'[d] = pc[d] /\ failed'[d] = failed[d] /\ own'[d] = own[d]
          /\ pc'[c] \in {"read", "done"}
      BY <1>12 DEF ReadBack, Answers, PcTo, Keep, Fails, TypeOK, listVars
    <3> QED  BY <3>1 DEF AskedKept, Asked
  <2>3. AllListed'
    <3>1. /\ UNCHANGED <<op, controls>> /\ op[c] # "controls"
          /\ \A d \in Call \ {c} : pc'[d] = pc[d] /\ failed'[d] = failed[d]
      BY <1>12 DEF ReadBack, Answers, PcTo, Fails, TypeOK, CallOK, argVars
    <3> QED  BY <3>1 DEF AllListed
  <2> QED  BY <2>1, <2>2, <2>3
<1>13. CASE UNCHANGED vars
  BY <1>13 DEF vars, SizesRead, AskedKept, Asked, AllListed, deviceVars, argVars, listVars,
     callVars,
     historyVars
<1> QED  BY <1>1, <1>2, <1>3, <1>4, <1>5, <1>6, <1>7, <1>8, <1>9, <1>10, <1>11, <1>12, <1>13 DEF Next

\* A listing during which no export failed has every size, and from its end on the
\* main table has every control that the device supports and the fixed lists name,
\* whatever listings overlap it.
THEOREM ListingsLeaveNothingOut == Spec => []ListingsComplete
<1>1. ListingInv => ListingsComplete
  BY DEF ListingInv, SizesRead, AllListed, ListingsComplete
<1> QED  BY TypeInit, TypeStep, ListingInit, ListingStep, <1>1, PTL DEF Spec
=============================================================================
