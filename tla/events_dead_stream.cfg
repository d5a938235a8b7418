\* The code violates StreamsUntilStop: the counterexample is the finding.
SPECIFICATION LiveSpec
CONSTANTS
  Clients = {c1}
  Stuck = {}
  MaxServices = 2
  Publishers = {1, 2}
  MaxUpdates = 2
  Cap = 2
PROPERTY StreamsUntilStop
