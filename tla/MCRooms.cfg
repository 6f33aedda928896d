\* Three connections, two rooms of two places.
SPECIFICATION Spec
CONSTANTS
  Session = {1, 2, 3}
  Room = {"r1", "r2"}
  MaxMembers = 2
  FdOf <- MCFdOf
INVARIANTS TypeOK HeldIsMapped OneCaller
PROPERTIES GoneIsHungUp ImplementsMembership
CHECK_DEADLOCK FALSE
