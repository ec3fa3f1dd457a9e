---------------------------- MODULE DebuggerProofs ----------------------------
(***************************************************************************)
(* Safety of Debugger for every program, every length of a tick and every  *)
(* height of the list.                                                     *)
(***************************************************************************)
EXTENDS Debugger, FiniteSetTheorems, TLAPS

-----------------------------------------------------------------------------
(* Running *)

\* Steps are left only of a tick of a machine that runs: nothing pauses it
\* within a tick but the step that is interrupted.
RunningInv ==
  /\ left \in Nat /\ running \in BOOLEAN /\ halt \in BOOLEAN
  /\ left > 0 => running
  /\ RunsStopAtBreakpoints

LEMMA RunningInit == Init => RunningInv
<1> SUFFICES ASSUME Init PROVE RunningInv
  OBVIOUS
<1>1. left \in Nat /\ ~(left > 0)
  BY DEF Init
<1>2. running \in BOOLEAN /\ halt \in BOOLEAN /\ RunsStopAtBreakpoints
  BY DEF Init, RunsStopAtBreakpoints
<1> QED BY <1>1, <1>2 DEF RunningInv

LEMMA RunningStep == RunningInv /\ [Next]_vars => RunningInv'
<1> SUFFICES ASSUME RunningInv, [Next]_vars PROVE RunningInv'
  OBVIOUS
<1> USE DebuggerAssumption
<1>1. CASE Tick
  BY <1>1 DEF Tick, RunningInv, RunsStopAtBreakpoints
<1>2. CASE RunStep
  <2>1. PICK interrupted \in BOOLEAN :
          /\ McuStep(interrupted)
          /\ left' = IF interrupted THEN 0 ELSE left - 1
          /\ running' = (running /\ ~interrupted)
    BY <1>2 DEF RunStep
  <2>2. halt' \in BOOLEAN /\ interrupted = (halt' \/ pc' \in enabled)
    BY <2>1 DEF McuStep, StopsAt, RunningInv
  <2>3. left > 0 /\ running /\ enabled' = enabled /\ reached' = Marks
    BY <1>2 DEF RunStep, RunningInv
  <2>4. left' \in Nat /\ (interrupted => left' = 0)
    BY <2>1, <2>3 DEF RunningInv
  <2>5. running' = ~interrupted
    BY <2>1, <2>3
  <2>6. ~(0 > 0)
    OBVIOUS
  <2>7. RunsStopAtBreakpoints'
    <3>1. running' <=> ~halt' /\ pc' \notin enabled'
      BY <2>2, <2>3, <2>5
    <3>2. reached' = IF ~halt' /\ pc' \in enabled' THEN {pc'} ELSE {}
      BY <2>3 DEF Marks, StopsAt
    <3> QED BY <3>1, <3>2 DEF RunsStopAtBreakpoints
  <2> QED
    BY <2>2, <2>4, <2>5, <2>6, <2>7 DEF RunningInv
<1>3. CASE KeyStep
  BY <1>3 DEF KeyStep, Key, McuStep, RunningInv, RunsStopAtBreakpoints
<1>4. CASE KeyResume \/ KeyPause \/ KeyReset
  <2>1. left' = 0 /\ left = 0 /\ stepped' = FALSE
    BY <1>4 DEF KeyResume, KeyPause, KeyReset, Key
  <2>2. running' \in BOOLEAN /\ halt' \in BOOLEAN
    BY <1>4 DEF KeyResume, KeyPause, KeyReset, RunningInv
  <2> QED BY <2>1, <2>2 DEF RunningInv, RunsStopAtBreakpoints
<1>5. CASE \/ \E a \in Addresses : CreateBreakpoint(a)
           \/ KeySpace \/ KeyDelete \/ KeyDown \/ KeyUp
           \/ \E h \in Heights : Layout(h)
  <2>1. UNCHANGED controllerVars /\ stepped' = FALSE
    BY <1>5 DEF CreateBreakpoint, KeySpace, KeyDelete, KeyDown, KeyUp, Layout, Key
  <2> QED
    BY <2>1 DEF controllerVars, RunningInv, RunsStopAtBreakpoints
<1>6. CASE UNCHANGED vars
  BY <1>6 DEF vars, controllerVars, managerVars, RunningInv, RunsStopAtBreakpoints
<1> QED
  BY <1>1, <1>2, <1>3, <1>4, <1>5, <1>6 DEF Next

\* A machine that runs stops where it comes to an enabled breakpoint or to a
\* halt, there alone, and marks that breakpoint alone.
THEOREM RunsStop == Spec => []RunsStopAtBreakpoints
<1>1. RunningInv => RunsStopAtBreakpoints
  BY DEF RunningInv
<1> QED BY <1>1, RunningInit, RunningStep, PTL DEF Spec

-----------------------------------------------------------------------------
(* The list *)

\* Min and Max of two numbers, as the layout of the list uses them.
LEMMA MinOfTwo == \A m, n \in Int : Min({m, n}) = IF m <= n THEN m ELSE n
<1> TAKE m, n \in Int
<1> DEFINE least == IF m <= n THEN m ELSE n
<1>1. least \in {m, n} /\ \A y \in {m, n} : least <= y
  OBVIOUS
<1>2. Min({m, n}) \in {m, n} /\ \A y \in {m, n} : Min({m, n}) <= y
  BY <1>1 DEF Min
<1> QED BY <1>1, <1>2

LEMMA MaxOfTwo == \A m, n \in Int : Max({m, n}) = IF m >= n THEN m ELSE n
<1> TAKE m, n \in Int
<1> DEFINE most == IF m >= n THEN m ELSE n
<1>1. most \in {m, n} /\ \A y \in {m, n} : most >= y
  OBVIOUS
<1>2. Max({m, n}) \in {m, n} /\ \A y \in {m, n} : Max({m, n}) >= y
  BY <1>1 DEF Max
<1> QED BY <1>1, <1>2

\* With an empty list the selection is the first index.  As long as nothing was
\* deleted and the height is the same, what is shown is in the list and has the
\* selected breakpoint in it.
SelectionInv ==
  /\ IsFiniteSet(breakpoints) /\ selected \in Nat /\ scroll \in Nat /\ height \in Nat
  /\ selected < Count \/ selected = 0
  /\ scrolled /\ height > 0 =>
       /\ scroll + Visible <= Count
       /\ Count > 0 => selected \in scroll..(scroll + Visible - 1)

LEMMA CountIsNatural == IsFiniteSet(breakpoints) => Count \in Nat
BY FS_CardinalityType DEF Count

LEMMA SelectionInit == Init => SelectionInv
<1> SUFFICES ASSUME Init PROVE SelectionInv
  OBVIOUS
<1>1. IsFiniteSet(breakpoints) /\ Count = 0 /\ height \in Nat
  BY FS_EmptySet, DebuggerAssumption DEF Init, Count
<1>2. Visible \in Int /\ Visible <= 0
  BY <1>1, MinOfTwo DEF Visible
<1> QED BY <1>1, <1>2 DEF Init, SelectionInv

LEMMA SelectionStep == SelectionInv /\ [Next]_vars => SelectionInv'
<1> SUFFICES ASSUME SelectionInv, [Next]_vars PROVE SelectionInv'
  OBVIOUS
<1>1. /\ IsFiniteSet(breakpoints) /\ Count \in Nat
      /\ selected \in Nat /\ scroll \in Nat /\ height \in Nat
      /\ selected < Count \/ selected = 0
      /\ Visible = IF height <= Count THEN height ELSE Count
  BY CountIsNatural, MinOfTwo DEF SelectionInv, Visible
<1>2. CASE UNCHANGED <<breakpoints, viewVars>>
  BY <1>2 DEF viewVars, SelectionInv, Count, Visible
<1>3. CASE \/ Tick \/ RunStep \/ KeyStep \/ KeyResume \/ KeyPause \/ KeyReset
           \/ KeySpace \/ UNCHANGED vars
  BY <1>2, <1>3 DEF Tick, RunStep, KeyStep, KeyResume, KeyPause, KeyReset, KeySpace,
                    managerVars, vars
<1>4. ASSUME NEW a \in Addresses, CreateBreakpoint(a) PROVE SelectionInv'
  <2>1. UNCHANGED <<selected, scroll, height, scrolled>>
    BY <1>4 DEF CreateBreakpoint, viewVars
  <2>2. IsFiniteSet(breakpoints') /\ Count' = Count + 1
    BY <1>1, <1>4, FS_AddElement DEF CreateBreakpoint, Count
  <2>3. Visible' = IF height <= Count + 1 THEN height ELSE Count + 1
    BY <1>1, <2>1, <2>2, MinOfTwo DEF Visible
  <2>4. ASSUME scrolled, height > 0
        PROVE  scroll + Visible' <= Count + 1 /\ selected \in scroll..(scroll + Visible' - 1)
    BY <1>1, <2>3, <2>4 DEF SelectionInv
  <2> QED BY <1>1, <2>1, <2>2, <2>4 DEF SelectionInv
<1>5. CASE KeyDelete
  <2>1. /\ selected' = Max({0, selected - 1}) /\ scrolled' = FALSE
        /\ UNCHANGED <<scroll, height>> /\ Count > 0
    BY <1>5 DEF KeyDelete, SelectionAfterDelete
  <2>2. selected' = IF 0 >= selected - 1 THEN 0 ELSE selected - 1
    BY <1>1, <2>1, MaxOfTwo
  <2>3. PICK a : breakpoints' = breakpoints \ {a}
    BY <1>5 DEF KeyDelete
  <2>4. IsFiniteSet(breakpoints') /\ Count' \in {Count, Count - 1}
    BY <1>1, <2>3, FS_RemoveElement DEF Count
  <2> QED BY <1>1, <2>1, <2>2, <2>4 DEF SelectionInv
<1>6. CASE KeyDown
  <2>1. /\ UNCHANGED <<breakpoints, height, scrolled>> /\ selected + 1 < Count
        /\ selected' = selected + 1
        /\ scroll' = IF selected' >= scroll + Visible THEN Max({1 + selected' - Visible, 0})
                      ELSE scroll
    BY <1>6 DEF KeyDown, managerVars
  <2>2. Count' = Count /\ Visible' = Visible
    BY <2>1 DEF Count, Visible
  <2>3. scroll' \in Nat
    BY <1>1, <2>1, MaxOfTwo
  <2>4. ASSUME scrolled, height > 0
        PROVE  scroll' + Visible <= Count /\ selected' \in scroll'..(scroll' + Visible - 1)
    <3>1. /\ Visible \in 1..Count /\ scroll + Visible <= Count
          /\ selected < scroll + Visible /\ scroll <= selected
      BY <1>1, <2>1, <2>4 DEF SelectionInv
    <3>2. CASE selected + 1 >= scroll + Visible
      <4>1. scroll' = scroll + 1
        BY <1>1, <2>1, <3>1, <3>2, MaxOfTwo
      <4> QED BY <1>1, <2>1, <3>1, <3>2, <4>1
    <3>3. CASE ~(selected + 1 >= scroll + Visible)
      BY <1>1, <2>1, <3>1, <3>3
    <3> QED BY <3>2, <3>3
  <2> QED BY <1>1, <2>1, <2>2, <2>3, <2>4 DEF SelectionInv
<1>7. CASE KeyUp
  <2>1. /\ UNCHANGED <<breakpoints, height, scrolled>> /\ selected > 0
        /\ selected' = selected - 1
        /\ scroll' = IF selected' < scroll THEN Min({Count - Visible, selected'}) ELSE scroll
    BY <1>7 DEF KeyUp, managerVars
  <2>2. Count' = Count /\ Visible' = Visible
    BY <2>1 DEF Count, Visible
  <2>3. scroll' \in Nat
    BY <1>1, <2>1, MinOfTwo
  <2>4. ASSUME scrolled, height > 0
        PROVE  scroll' + Visible <= Count /\ selected' \in scroll'..(scroll' + Visible - 1)
    <3>1. /\ Visible \in 1..Count /\ scroll + Visible <= Count
          /\ selected < scroll + Visible /\ scroll <= selected
      BY <1>1, <2>1, <2>4 DEF SelectionInv
    <3>2. CASE selected - 1 < scroll
      <4>1. scroll' = selected - 1 /\ scroll = selected
        BY <1>1, <2>1, <3>1, <3>2, MinOfTwo
      <4> QED BY <1>1, <2>1, <3>1, <4>1
    <3>3. CASE ~(selected - 1 < scroll)
      BY <1>1, <2>1, <3>1, <3>3
    <3> QED BY <3>2, <3>3
  <2> QED BY <1>1, <2>1, <2>2, <2>3, <2>4 DEF SelectionInv
<1>8. ASSUME NEW h \in Heights, Layout(h) PROVE SelectionInv'
  BY <1>1, <1>8, DebuggerAssumption DEF Layout, managerVars, SelectionInv, Count
<1> QED
  BY <1>3, <1>4, <1>5, <1>6, <1>7, <1>8 DEF Next

\* After any sequence of keys the selected breakpoint exists, and until one is
\* deleted or the height changes it is among those that are shown, all of them
\* in the list.
THEOREM SelectionIsShown == Spec => []SelectionIsInTheList
<1>1. SelectionInv => SelectionIsInTheList
  <2> SUFFICES ASSUME SelectionInv, Count > 0 PROVE SelectionIsInTheList
    BY DEF SelectionIsInTheList
  <2>1. Count \in Nat /\ selected \in Nat
    BY CountIsNatural DEF SelectionInv
  <2>2. selected < Count
    BY <2>1 DEF SelectionInv
  <2> QED BY <2>1, <2>2 DEF SelectionInv, SelectionIsInTheList
<1> QED BY <1>1, SelectionInit, SelectionStep, PTL DEF Spec
=============================================================================
