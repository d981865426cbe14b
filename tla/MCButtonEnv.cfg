SPECIFICATION Spec
CONSTANTS
  Buttons = {b1}
  DEBOUNCE_BUTTON = 2
  BATTERY_COUNTER = 4
  FR_COUNTER_MAX = 5
  RESET_DEVICE_COUNTER = 6
  SwitchTypes = {"toggle", "levelUpDown", "scene"}
  Disturbances = {"modelWrite", "typeWrite", "network", "ota"}
  Watched = {}
  MaxCounter = 6
  MaxWindows = 0
INVARIANTS FlagsHaveTimers AwakeHasReason
PROPERTIES OnlyGesturesCutWindows
