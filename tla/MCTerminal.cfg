SPECIFICATION Spec
CHECK_DEADLOCK FALSE
CONSTANTS
  Shell = Shell
  Caller = {Shell, p, q}
  Byte <- MCByte
  Garbage <- MCGarbage
  Default_Signal_Handler <- MCHandler
  wait_obj_limit = 2
  NoCall = NoCall
  Token <- MCToken
  MaxKeys = 5
  MaxRow = 2
  Program_Calls <- MCCalls
  MaxCalls = 4
  Line_Size = 4
  Text <- MCText
CONSTRAINT MCSessions
SYMMETRY MCPrograms
INVARIANTS
  TypeOK
  ArgumentsArrive
  AnswersReturn
  ScreenShowsLine
  RedirectionsAreKept
