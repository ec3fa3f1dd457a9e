CONSTANTS
  Addresses = {2, 4, 6, 8}
  EntryPoint = 2
  Halting = {6}
  StepSize = 2
  Heights = {0, 1, 2}

SPECIFICATION Spec

INVARIANTS
  RunsStopAtBreakpoints
  SelectionIsInTheList
