CONSTANTS
  Hours = 5
  TicksPerHour = 2
  MinHours = 2
  RefreshTicks = 2
  PreListTicks = 1
  UtcOffsets <- Offsets
SPECIFICATION ScheduleSpec
CHECK_DEADLOCK FALSE
INVARIANT WindowsAreLongRuns
PROPERTY ColdSpellIsMined
