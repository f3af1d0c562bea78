SPECIFICATION SubSpec
CONSTANTS
  a1 = a1
  Free = Free
  Length = 2
  Timelines <- Stories
  Actions = {}
  MaxFaults = 1
CHECK_DEADLOCK FALSE
INVARIANT AnsweredIsProcessed
