SPECIFICATION Spec
INVARIANTS
  AddersRipple
  DecimalsStayDecimal
  RotatesAndShifts
  WordsAreTwoBytes
