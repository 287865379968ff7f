SPECIFICATION Spec
CONSTANTS
  k1 = k1
  k2 = k2
  Keys <- MCKeys
  NoKey = NoKey
  ClickOnly <- MCClickOnly
  FilterTime = 2
  LongTime = 4
  HoldTime = 6
  ClickDelayTime = 2
  ActiveTime = 14
  Others = 1
  MaxClicks = 6
INVARIANTS TypeOK Awake
PROPERTIES Debounced EventsSpec Reported Repeats
