SPECIFICATION Spec
CONSTANTS
  u1 = u1
  u2 = u2
  o1 = o1
  o2 = o2
  o3 = o3
  Orders = {o1, o2, o3}
  Users = {u1, u2}
  Owner <- MCOwner
  Duration <- MCDuration
  Web = web
  Workers = {w1}
  NoOrder = NoOrder
  MaxRows = 3
  MaxByHand = 1
  MaxTime = 2
INVARIANTS
  IInv
PROPERTIES
  PaidTimeLostOnlyByRace
CHECK_DEADLOCK FALSE
