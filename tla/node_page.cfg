\* One node; every order of its updates, the API's answers, the timers and the user.
SPECIFICATION LiveSpec
CONSTANT MaxPipe = 1
INVARIANT TypeOK
PROPERTIES
  StartLands
  NoTrap
  StallEscalates
  DownShown
CHECK_DEADLOCK FALSE
