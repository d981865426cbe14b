SPECIFICATION Spec
CONSTANTS
  Buttons = {b1, b2}
  DEBOUNCE_BUTTON = 2
  BATTERY_COUNTER = 4
  FR_COUNTER_MAX = 5
  RESET_DEVICE_COUNTER = 6
  SwitchTypes = {"multifunction"}
  Disturbances = {}
  Watched = {}
  MaxCounter = 5
  MaxWindows = 0
INVARIANTS GestureCannotStall FlagsHaveTimers AwakeHasReason
SYMMETRY Symmetry
