\* Three switchings of devices, two dialogs for the camera at a time, two connections
\* of each browser.
SPECIFICATION Spec
CONSTANTS
  MaxSwitch = 3
  MaxPC = 2
  MaxAsked = 2
INVARIANTS TypeOK CallAgrees NoGhost
PROPERTY ViewsSettle
CHECK_DEADLOCK FALSE
