SPECIFICATION FairSpec
CONSTANTS
  Buttons = {b1}
  DEBOUNCE_BUTTON = 2
  BATTERY_COUNTER = 4
  FR_COUNTER_MAX = 5
  RESET_DEVICE_COUNTER = 6
  SwitchTypes = {"momentary"}
  Disturbances = {"ota"}
  Watched = {}
  MaxCounter = 1
  MaxWindows = 1
PROPERTIES SleepsAfterOta
