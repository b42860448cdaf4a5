CONSTANTS
  Keys <- MCKeys
  Blocklens <- MCBlocklens
  Blocks <- MCBlocks
  MaxCalls = 2
SPECIFICATION Spec
INVARIANTS TypeOK RoundTrip Retraces ScheduleAgrees
PROPERTY RoundsAgree
CHECK_DEADLOCK FALSE
