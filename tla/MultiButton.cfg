CONSTANTS
  DebounceTicks = 0
  ShortTicks = 3
  LongTicks = 10
  TickMod = 16
  RepeatMod = 16
  MaxCount = 20
SPECIFICATION ButtonFairSpec
PROPERTIES DownUpAlternate LongPressTime ClickMeansCount ComesToRest
