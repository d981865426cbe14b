SPECIFICATION FairSpec
CONSTANTS
  Buttons = {b1}
  DEBOUNCE_BUTTON = 3
  BATTERY_COUNTER = 4
  FR_COUNTER_MAX = 5
  RESET_DEVICE_COUNTER = 6
  SwitchTypes = {"levelUpDown"}
  Disturbances = {"glitch"}
  Watched = {}
  MaxCounter = 5
  MaxWindows = 0
PROPERTIES KeyUpSettles EventuallySleeps
