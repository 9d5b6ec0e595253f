SPECIFICATION FairSpec
CONSTANTS
  Conns = {c1, c2}
  Items = {"tel_elevation", "inclinometerAngleTma"}
  Values = {1}
  Inputs = {"good", "illTyped"}
  Speakers = {c1}
  MaxSaid = 1
  AcceptMayFail = TRUE
INVARIANTS DroppedWhenJoined
CHECK_DEADLOCK FALSE
PROPERTIES StopEnds ClientsFollow
