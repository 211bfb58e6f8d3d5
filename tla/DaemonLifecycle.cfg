SPECIFICATION MCSpec
CONSTANTS
  Clients = {c1, c2}
  Ids = {1, 2}
  OwnId = 0
  Names = {a, b}
  Own = own
  Fallback = b
  Torn = torn
  None = None
  MaxActs = 3
INVARIANTS DevicesCurrent NeverFeedsBack DefaultHandedBack SavedDeviceKept OutputInForce StartsUnlessFault
PROPERTIES SwitchReturns StopsWhenAsked
CHECK_DEADLOCK FALSE
