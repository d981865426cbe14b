SPECIFICATION Spec
CONSTANTS
  Buttons = {b1}
  DEBOUNCE_BUTTON = 3
  BATTERY_COUNTER = 4
  FR_COUNTER_MAX = 5
  RESET_DEVICE_COUNTER = 6
  SwitchTypes = {"momentary"}
  Disturbances = {}
  Watched = {"momentary"}
  MaxCounter = 5
  MaxWindows = 1
INVARIANTS EdgesAlternate
