\* Two connections in one room.
SPECIFICATION Spec
CONSTANTS
  Session = {1, 2}
  Room = {"r1"}
  MaxMembers = 2
  FdOf <- MCFdOf
INVARIANT ListsAgree
CHECK_DEADLOCK FALSE
