SPECIFICATION Spec
CONSTANTS
  Options <- MCOptions
  ModelTimes = {4, 6}
  MaxTime = 5
INVARIANTS InstantsAgree GuardrailsAlign ForecastFollowsHistory
CHECK_DEADLOCK FALSE
