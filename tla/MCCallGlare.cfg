\* Two switchings are enough for two offers to cross.
SPECIFICATION Spec
CONSTANTS
  MaxSwitch = 2
  MaxPC = 2
  MaxAsked = 2
PROPERTY ConflictsCanBeIgnored
CHECK_DEADLOCK FALSE
