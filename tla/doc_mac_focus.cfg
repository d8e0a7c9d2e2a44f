\* Two changes of focus may wait for a frame: a loss and a gain.
CONSTANT MaxFocusEvents = 2
SPECIFICATION MacSpec
INVARIANT FocusedRightNow
\* The process exits, and threads may wait for each other during a message box.
CHECK_DEADLOCK FALSE
