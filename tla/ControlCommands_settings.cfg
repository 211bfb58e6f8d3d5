SPECIFICATION Spec
CONSTANTS
  Clients = {c1, c2}
  Main = main
  None = None
  Layouts = {"builtin", "zero"}
  BuiltinLayout = "builtin"
  ZeroLayout = "zero"
  Curves = {"flat", "other"}
  DefaultCurve = "flat"
  Bundled <- OneBundled
  UserFiles = {1}
  FirstFiles = {1}
  MaxCatalogEntries = 2
  MaxCommands = 3
  MaxKills = 2
  MaxChanges = 0
ACTION_CONSTRAINT Watching
SYMMETRY ClientSymmetry
INVARIANTS SettingsSurvive WholeUnlessRaced
