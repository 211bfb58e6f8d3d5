SPECIFICATION Spec
CONSTANTS
  None = None
  MaxActs = 2
  MaxTimeouts = 2
  MaxKills = 1
INVARIANTS EmptyBetweenRequests IntentInForce CurveShown
PROPERTY MirrorConverges
