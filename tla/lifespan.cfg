SPECIFICATION FairSpec
CONSTANTS
  Request = {q1, q2, q3}
  MaxNodes = 3
  MaxClients = 3
INVARIANTS TypeOK ClientsInUseAreOpen NoClientLeaks StopWithinOneRound
PROPERTIES ShutdownEnds
