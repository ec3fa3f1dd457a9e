------------------------------- MODULE Debugger -------------------------------
(***************************************************************************)
(* The debugger's ExecutionController, its BreakpointManager and the keys  *)
(* of its list of breakpoints.  One thread handles keys and a timer in     *)
(* turn: each tick of the timer runs the machine for StepSize steps when   *)
(* it is not paused, and no key is handled within these.                   *)
(*                                                                         *)
(* A step of the machine goes from one address to any other.  How high the *)
(* list is on the screen is up to the layout of the terminal library.      *)
(***************************************************************************)
EXTENDS Integers, FiniteSetsExt, SequencesExt

CONSTANTS
  Addresses,      \* of the program's instructions
  EntryPoint,
  Halting,        \* the instructions that are BKPT
  StepSize,       \* steps of one tick, 1000 in the code
  Heights         \* lines that the list may have; none when it is folded

ASSUME DebuggerAssumption ==
  /\ Addresses \subseteq Nat /\ EntryPoint \in Addresses /\ Halting \subseteq Addresses
  /\ StepSize \in Nat \ {0} /\ Heights \subseteq Nat

VARIABLES
  pc, halt,       \* of the machine
  running,        \* _process_steps
  left,           \* steps that are left in this tick
  breakpoints, enabled, reached,    \* addresses of all, of those enabled and reached
  selected, scroll,                 \* _selected_index and _scroll_offset
  height,         \* of the list
  stepped,        \* history: the last event was a step of a run
  scrolled        \* history: nothing was deleted and the height did not change

controllerVars == <<pc, halt, running, left>>
managerVars    == <<breakpoints, enabled, reached>>
viewVars       == <<selected, scroll, height, scrolled>>
vars           == <<controllerVars, managerVars, viewVars, stepped>>

Init ==
  /\ pc = EntryPoint /\ halt = FALSE /\ running = FALSE /\ left = 0
  /\ breakpoints = {} /\ enabled = {} /\ reached = {}
  /\ selected = 0 /\ scroll = 0 /\ height \in Heights
  /\ stepped = FALSE /\ scrolled = TRUE

Count   == Cardinality(breakpoints)

\* num_visible_breakpoints
Visible == Min({height, Count})

-----------------------------------------------------------------------------
(* Running *)

\* Mutant: a breakpoint stops the machine whether or not it is enabled.
StopsAtAny(a) == a \in breakpoints

StopsAt(a) == a \in enabled

\* One round of the loop of step(): the signal of BKPT stays until a reset, and
\* where it is seen breakpoints are not looked at.
McuStep(interrupted) ==
  \E a \in Addresses :
    /\ pc' = a
    /\ halt' = (halt \/ pc \in Halting)
    /\ interrupted = (halt' \/ StopsAt(a))

\* The breakpoint where the machine stopped is marked, and no other.
Marks == IF ~halt' /\ StopsAt(pc') THEN {pc'} ELSE {}

\* timer_event, run_multi_steps: the first part of step()
Tick ==
  /\ running /\ left = 0
  /\ left' = StepSize /\ reached' = {} /\ stepped' = FALSE
  /\ UNCHANGED <<pc, halt, running, breakpoints, enabled, viewVars>>

RunStep ==
  /\ left > 0
  /\ \E interrupted \in BOOLEAN :
       /\ McuStep(interrupted)
       /\ left' = IF interrupted THEN 0 ELSE left - 1
       /\ running' = (running /\ ~interrupted)
  /\ reached' = Marks /\ stepped' = TRUE
  /\ UNCHANGED <<breakpoints, enabled, viewVars>>

-----------------------------------------------------------------------------
(* Keys of ExecutionController *)

Key == left = 0 /\ stepped' = FALSE

KeyStep ==
  /\ Key /\ ~running
  /\ \E interrupted \in BOOLEAN : McuStep(interrupted)
  /\ reached' = Marks
  /\ UNCHANGED <<running, left, breakpoints, enabled, viewVars>>

KeyResume ==
  /\ Key /\ ~running /\ running' = TRUE
  /\ UNCHANGED <<pc, halt, left, managerVars, viewVars>>

KeyPause ==
  /\ Key /\ running /\ running' = FALSE
  /\ UNCHANGED <<pc, halt, left, managerVars, viewVars>>

\* Only the machine is reset.
KeyReset ==
  /\ Key /\ ~running
  /\ pc' = EntryPoint /\ halt' = FALSE
  /\ UNCHANGED <<running, left, managerVars, viewVars>>

-----------------------------------------------------------------------------
(* Keys of BreakPointManagerView *)

\* The address of a new breakpoint was entered.
CreateBreakpoint(a) ==
  /\ Key /\ a \notin breakpoints
  /\ breakpoints' = breakpoints \cup {a} /\ enabled' = enabled \cup {a}
  /\ UNCHANGED <<controllerVars, reached, viewVars>>

\* The map is ordered by address.
NthBreakpoint(index) == SetToSortSeq(breakpoints, LAMBDA a, b : a < b)[index + 1]

\* With an empty list, Space and Delete read an address past its end, which
\* is that of no breakpoint.
KeySpace ==
  /\ Key /\ Count > 0
  /\ LET a == NthBreakpoint(selected)
     IN enabled' = IF a \in enabled THEN enabled \ {a} ELSE enabled \cup {a}
  /\ UNCHANGED <<controllerVars, breakpoints, reached, viewVars>>

\* Mutant: the selection stays where it is.
SelectionKept(index) == index

\* "std::max(0, (int)_selected_index-1)"
SelectionAfterDelete(index) == Max({0, index - 1})

KeyDelete ==
  /\ Key /\ Count > 0
  /\ LET a == NthBreakpoint(selected)
     IN /\ breakpoints' = breakpoints \ {a}
        /\ enabled' = enabled \ {a} /\ reached' = reached \ {a}
  /\ selected' = SelectionAfterDelete(selected)
  /\ scrolled' = FALSE
  /\ UNCHANGED <<controllerVars, scroll, height>>

KeyDown ==
  /\ Key /\ selected + 1 < Count
  /\ selected' = selected + 1
  /\ scroll' = IF selected' >= scroll + Visible THEN Max({1 + selected' - Visible, 0}) ELSE scroll
  /\ UNCHANGED <<controllerVars, managerVars, height, scrolled>>

KeyUp ==
  /\ Key /\ selected > 0
  /\ selected' = selected - 1
  /\ scroll' = IF selected' < scroll THEN Min({Count - Visible, selected'}) ELSE scroll
  /\ UNCHANGED <<controllerVars, managerVars, height, scrolled>>

\* The list is folded or unfolded, or the terminal changes its size.
Layout(h) ==
  /\ Key /\ h # height
  /\ height' = h /\ scrolled' = FALSE
  /\ UNCHANGED <<controllerVars, managerVars, selected, scroll>>

Next ==
  \/ Tick \/ RunStep
  \/ KeyStep \/ KeyResume \/ KeyPause \/ KeyReset
  \/ \E a \in Addresses : CreateBreakpoint(a)
  \/ KeySpace \/ KeyDelete \/ KeyDown \/ KeyUp
  \/ \E h \in Heights : Layout(h)

Spec == Init /\ [][Next]_vars

-----------------------------------------------------------------------------
(* Properties *)

(***************************************************************************)
(* A run goes on, over any number of ticks, until it comes to an enabled   *)
(* breakpoint or to a halt, and there it is paused: whatever was created,  *)
(* toggled or deleted between ticks.  The breakpoint where it stopped is   *)
(* the one that is marked as reached, and none is marked while it runs.    *)
(***************************************************************************)
RunsStopAtBreakpoints ==
  stepped =>
    /\ running <=> ~halt /\ pc \notin enabled
    /\ reached = IF ~halt /\ pc \in enabled THEN {pc} ELSE {}

(***************************************************************************)
(* nth_breakpoint and render advance an iterator without a test: the       *)
(* selected breakpoint exists whenever there is one, after any sequence of *)
(* keys; and until one is deleted or the list changes its height, what is  *)
(* shown exists, and the selected one is shown.                            *)
(***************************************************************************)
SelectionIsInTheList ==
  Count > 0 =>
    /\ selected < Count
    /\ scrolled /\ height > 0 => /\ scroll + Visible <= Count
                                 /\ selected \in scroll..(scroll + Visible - 1)
=============================================================================
