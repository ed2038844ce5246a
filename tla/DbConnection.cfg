CONSTANTS
  app_main = app_main lvgl = lvgl
  Thread = {app_main, lvgl}
  MaxFaults = 3
  MaxLeaks = 3
SPECIFICATION Spec
INVARIANTS CountsCallers HeldIsOpen
CHECK_DEADLOCK FALSE
