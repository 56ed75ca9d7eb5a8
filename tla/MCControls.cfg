SPECIFICATION MCSpec
CONSTANTS
  Debounce = 1
  Guard = 2
  Long = 3
INVARIANT MenusAnswer
CHECK_DEADLOCK FALSE
