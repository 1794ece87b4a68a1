SPECIFICATION Spec
INVARIANT
  ShiftsSetZero
